------------------------------- MODULE Outbox -------------------------------
(* The runner's offline outbox (apps/runner/src/outbox.ts): worker updates    *)
(* and memory or plan saves that could not reach the server are queued,       *)
(* mirrored to outbox.json and replayed later.                                *)
(*                                                                            *)
(* JavaScript runs one callback at a time, so an action is the code between   *)
(* two awaits.  flush() awaits the replay of every entry; enqueue(), clear()  *)
(* and other flush() calls run in between.  What flush() iterates over is the *)
(* array object this.entries named when it began: enqueue() of a PATCH and    *)
(* the end of a flush make this.entries name a new array, enqueue() of a POST *)
(* pushes onto the array in place.  shared says whether the array a flush     *)
(* iterates over is still the one this.entries names.                         *)
(*                                                                            *)
(* An entry is the number of the request it holds: sent[i] is the endpoint of *)
(* the i-th request the runner made.                                          *)
EXTENDS Naturals, Sequences, FiniteSets

CONSTANTS
    Workers,     \* PATCH /api/workers/<id>: one endpoint per worker
    Saves,       \* POST endpoints (memory, plan)
    Flushes,     \* flush() calls that can be in progress together
    RetryLimit,  \* an entry is dropped at this many failed replays (10 in the code)
    MaxRequests  \* bound: requests the runner makes in a behaviour

ASSUME OutboxAssumption ==
    /\ Workers \cap Saves = {}
    /\ RetryLimit \in Nat \ {0}
    /\ MaxRequests \in Nat

VARIABLES
    sent,     \* endpoints of the requests made so far, in order
    retries,  \* retries[i]: failed replays of request i (the entry object's field)
    entries,  \* this.entries; outbox.json holds the same entries
    saved,    \* the retries fields in outbox.json
    timer,    \* is a flush timer armed?
    boot,     \* the start-up flush (index.ts) is still to run
    flush     \* the flush() calls in progress: what is left to replay, what is kept

vars == <<sent, retries, entries, saved, timer, boot, flush>>

Idle == [on |-> FALSE, todo |-> <<>>, kept |-> <<>>, shared |-> FALSE]

Init ==
    /\ sent = <<>> /\ retries = <<>> /\ saved = <<>>
    /\ entries = <<>>
    /\ timer = FALSE /\ boot = FALSE
    /\ flush = [f \in Flushes |-> Idle]

Elements(s) == {s[i] : i \in DOMAIN s}

----------------------------------------------------------------------------
(* BuilddClient.fetch could not reach the server, or got a 5xx: enqueue().    *)

(* Mutant: enqueue() without the filter. *)
NoDeduplication(ep) == entries

(* Deduplication: a PATCH replaces the queued PATCH of the same endpoint.     *)
(* kept[n] is what the filter keeps of the first n entries.                   *)
WithoutPatchOf(ep) ==
    LET kept[n \in 0..Len(entries)] ==
            IF n = 0 THEN <<>>
            ELSE IF sent[entries[n]] = ep THEN kept[n - 1]
            ELSE Append(kept[n - 1], entries[n])
    IN  kept[Len(entries)]

(* No flush iterates over the array this.entries names from now on.           *)
Unshared == [f \in Flushes |-> [flush[f] EXCEPT !.shared = FALSE]]

(* Mutant: the retry count is not initialised. *)
EnqueueWithoutRetries(ep) ==
    /\ Len(sent) < MaxRequests
    /\ sent' = Append(sent, ep)
    /\ entries' = Append(WithoutPatchOf(ep), Len(sent) + 1)
    /\ flush' = Unshared
    /\ timer' = TRUE
    /\ UNCHANGED <<retries, saved, boot>>

Enqueue(ep) ==
    LET new == Len(sent) + 1
        patch == ep \in Workers
    IN  /\ Len(sent) < MaxRequests
        /\ sent' = Append(sent, ep)
        /\ retries' = Append(retries, 0)
        /\ entries' = Append(IF patch THEN WithoutPatchOf(ep) ELSE entries, new)
        /\ flush' = IF patch THEN Unshared
                    ELSE [f \in Flushes |->
                            IF flush[f].shared
                            THEN [flush[f] EXCEPT !.todo = Append(@, new)]
                            ELSE flush[f]]
        /\ saved' = retries'
        /\ timer' = TRUE
        /\ UNCHANGED boot

----------------------------------------------------------------------------
(* flush(): from the timer, at start-up, on reconnection or by hand.          *)

Begin(f) ==
    /\ ~flush[f].on
    /\ entries # <<>>
    /\ flush' = [flush EXCEPT ![f] =
                    [on |-> TRUE, todo |-> entries, kept |-> <<>>, shared |-> TRUE]]
    /\ UNCHANGED <<sent, retries, entries, saved>>

(* The timer callback clears this.flushTimer, then awaits flush(). *)
TimerFires(f) ==
    /\ timer
    /\ timer' = FALSE
    /\ \/ Begin(f)
       \/ /\ entries = <<>>
          /\ UNCHANGED <<sent, retries, entries, saved, flush>>
    /\ UNCHANGED boot

(* Five seconds after start-up, if the outbox loaded from disk is not empty.  *)
BootFlush(f) ==
    /\ boot
    /\ boot' = FALSE
    /\ \/ Begin(f)
       \/ /\ entries = <<>>
          /\ UNCHANGED <<sent, retries, entries, saved, flush>>
    /\ UNCHANGED timer

(* Reconnecting with a new client, or POST /api/outbox/flush. *)
ManualFlush(f) == Begin(f) /\ UNCHANGED <<timer, boot>>

(* The replay of the current entry answers: 2xx or 409, or anything else.     *)
ReplayOk(f) ==
    /\ flush[f].on
    /\ flush[f].todo # <<>>
    /\ flush' = [flush EXCEPT ![f].todo = Tail(@)]
    /\ UNCHANGED <<sent, retries, entries, saved, timer, boot>>

Kept(e) == retries[e] + 1 < RetryLimit

ReplayFails(f) ==
    /\ flush[f].on
    /\ flush[f].todo # <<>>
    /\ LET e == Head(flush[f].todo)
       IN  /\ retries' = [retries EXCEPT ![e] = @ + 1]
           /\ flush' = [flush EXCEPT ![f] =
                            [on |-> TRUE, todo |-> Tail(@.todo),
                             kept |-> IF Kept(e) THEN Append(@.kept, e) ELSE @.kept,
                             shared |-> @.shared]]
    /\ UNCHANGED <<sent, entries, saved, timer, boot>>

(* Mutant: the timer is not re-armed for the entries that are kept. *)
EndWithoutTimer(f) ==
    /\ flush[f].on
    /\ flush[f].todo = <<>>
    /\ entries' = flush[f].kept
    /\ saved' = retries
    /\ timer' = FALSE
    /\ flush' = [Unshared EXCEPT ![f] = Idle]
    /\ UNCHANGED <<sent, retries, boot>>

(* The loop has run out: this.entries = remaining, saved, timer re-armed.     *)
End(f) ==
    /\ flush[f].on
    /\ flush[f].todo = <<>>
    /\ entries' = flush[f].kept
    /\ saved' = retries
    /\ timer' = (flush[f].kept # <<>>)
    /\ flush' = [Unshared EXCEPT ![f] = Idle]
    /\ UNCHANGED <<sent, retries, boot>>

----------------------------------------------------------------------------
(* DELETE /api/outbox *)
Clear ==
    /\ entries # <<>>
    /\ entries' = <<>> /\ saved' = retries /\ timer' = FALSE
    /\ flush' = Unshared
    /\ UNCHANGED <<sent, retries, boot>>

(* Mutant: index.ts does not flush what it loaded. *)
RestartWithoutFlush ==
    /\ retries' = saved
    /\ timer' = FALSE
    /\ boot' = FALSE
    /\ flush' = [f \in Flushes |-> Idle]
    /\ UNCHANGED <<sent, entries, saved>>

(* The runner process dies and starts again: load() reads outbox.json, the    *)
(* constructor arms no timer.  Failed replays counted since the last save()   *)
(* are forgotten.                                                             *)
Restart ==
    /\ retries' = saved
    /\ timer' = FALSE
    /\ boot' = (entries # <<>>)
    /\ flush' = [f \in Flushes |-> Idle]
    /\ UNCHANGED <<sent, entries, saved>>

Next ==
    \/ \E ep \in Workers \cup Saves : Enqueue(ep)
    \/ \E f \in Flushes : \/ TimerFires(f) \/ BootFlush(f) \/ ManualFlush(f)
                          \/ ReplayOk(f) \/ ReplayFails(f) \/ End(f)
    \/ Clear
    \/ Restart

Spec == Init /\ [][Next]_vars

(* setTimeout callbacks run, and so does the code after a loop's last await.  *)
(* A replay may never answer: it is a fetch without a timeout (index.ts).     *)
Fairness ==
    \A f \in Flushes : /\ WF_vars(End(f))
                       /\ WF_vars(TimerFires(f)) /\ WF_vars(BootFlush(f))

LiveSpec == Spec /\ Fairness

----------------------------------------------------------------------------
Request == 1..Len(sent)

(* Every field has its shape, and entries name requests that were made.       *)
TypeOK ==
    /\ sent \in Seq(Workers \cup Saves)
    /\ retries \in [Request -> Nat]
    /\ saved \in [Request -> Nat]
    /\ \A q \in {entries} \cup {flush[f].todo : f \in Flushes}
                 \cup {flush[f].kept : f \in Flushes} :
          Elements(q) \subseteq Request
    /\ timer \in BOOLEAN /\ boot \in BOOLEAN
    /\ \A f \in Flushes : flush[f].on \in BOOLEAN /\ flush[f].shared \in BOOLEAN

(* However enqueue, flush and clear interleave, the outbox holds at most one  *)
(* entry per request and at most one PATCH per worker.                        *)
OnePatchPerWorker ==
    \A i, j \in DOMAIN entries :
        i # j => /\ entries[i] # entries[j]
                 /\ sent[entries[i]] \in Workers => sent[entries[i]] # sent[entries[j]]

(* Queued entries are never forgotten by the scheduler: a timer is armed, a   *)
(* flush is under way or the start-up flush is still to come.  A flush whose  *)
(* replay hangs counts as under way: see Wedged.                              *)
Serviced == entries # <<>> => timer \/ boot \/ \E f \in Flushes : flush[f].on

(* From some point on the runner makes no request and is not restarted. *)
Settles == <>[][UNCHANGED sent /\ ~Restart]_vars

Unanswered(f) == flush[f].on /\ flush[f].todo # <<>>

(* A replay is unanswered, and nothing else is left to come back to the queue *)
(* (a timer that is armed all the same waits for one of the Flushes to end).  *)
Wedged == /\ \E f \in Flushes : Unanswered(f)
          /\ timer \/ boot => \A f \in Flushes : Unanswered(f)

(* Once the runner settles the outbox drains, whatever the server answers:    *)
(* replays succeed or run into the retry limit, and no entry is left behind   *)
(* without a timer or a flush to come back to it.  The one thing that stops   *)
(* it is a replay that hangs for ever: no timer is armed while a flush waits. *)
Drains == Settles => <>[](entries = <<>> \/ Wedged)
=============================================================================
