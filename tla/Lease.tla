-------------------------------- MODULE Lease --------------------------------
(* What anyone may rely on about who acts for a task, whatever the rows and   *)
(* statements behind it: a request takes an open task, hands it to the worker *)
(* it starts, and gets it back from the worker that reports its end; only the *)
(* request that has it in hand opens it again.  A task that is closed stays   *)
(* so, until people or a clean-up interfere: then nothing is promised about   *)
(* it, until it is taken anew.                                                *)

CONSTANTS Tasks, Workers, Procs

VARIABLES
    lease, \* per task: "open", "held", "closed" or "loose"
    by     \* per task: who holds it

vars == <<lease, by>>

Init == lease = [t \in Tasks |-> "open"] /\ by = [t \in Tasks |-> {}]

HeldBy(t, a) == lease[t] = "held" /\ by[t] = {a}
Becomes(t, l, holders) == lease'[t] = l /\ by'[t] = holders

Take(t) ==
    lease[t] \in {"open", "loose"} /\ \E p \in Procs : Becomes(t, "held", {p})

(* The request that took the task has inserted the row of its worker.         *)
HandOver(t) ==
    \E p \in Procs, w \in Workers : HeldBy(t, p) /\ Becomes(t, "held", {w})

(* The worker has ended, and the request that reports it decides the outcome. *)
HandBack(t) ==
    \E w \in Workers, p \in Procs : HeldBy(t, w) /\ Becomes(t, "held", {p})

(* A request lets go of the task: it can be taken again, or has its outcome.  *)
Settle(t) ==
    \E p \in Procs, l \in {"open", "closed"} : HeldBy(t, p) /\ Becomes(t, l, {})

(* A person ends the worker, and the task with it.                            *)
Drop(t) == \E w \in Workers : HeldBy(t, w) /\ Becomes(t, "closed", {})

(* An open task is cancelled, completed or failed.                            *)
Close(t) == lease[t] = "open" /\ Becomes(t, "closed", {})

Loosen(t) == Becomes(t, "loose", {})

Stay(t) == Becomes(t, lease[t], by[t])

Move(t) == Take(t) \/ HandOver(t) \/ HandBack(t) \/ Settle(t) \/ Drop(t) \/ Close(t)
              \/ Loosen(t) \/ Stay(t)

(* One statement can bear on several tasks.                                   *)
Next == \A t \in Tasks : Move(t)

Spec == Init /\ [][Next]_vars
=============================================================================
