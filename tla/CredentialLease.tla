--------------------------- MODULE CredentialLease ---------------------------
(* One OAuth credential of a team and everybody who refreshes it.  The        *)
(* provider rotates: a refresh token can be redeemed once, and a credential   *)
(* whose latest refresh token is lost is dead until the user logs in again.   *)
(*                                                                            *)
(* The credential is a row of secrets.  The brokers of the runners            *)
(* (apps/runner/src/broker.ts) manage it under a lease with a TTL; a refresh, *)
(* by a broker or by the server, takes the lock that is secrets.              *)
(* lastRefreshedAt, redeems the token and stores the new one, in three calls. *)
(* A Codex credential is also redeemed without that lock: by the Codex CLI of *)
(* a worker, which writes its tokens back, and by the verify button.          *)
(*                                                                            *)
(* A refresh token is the number of its issue.  Access tokens and their       *)
(* expiry are left out: a refresh may be due at any time.                     *)
EXTENDS Naturals

CONSTANTS
    Brokers,   \* the runners with a credential broker
    Workers,   \* worker rows whose task runs on Codex
    MaxTokens, \* bound: refresh tokens the provider issues
    MaxRows    \* bound: rows, one for every time the credential is stored

ASSUME CredentialAssumption ==
    /\ MaxTokens \in Nat \ {0} /\ MaxRows \in Nat \ {0}
    /\ {"server", "verify", "none"} \cap Brokers = {}

VARIABLES
    codex,   \* the purpose: codex_credential (TRUE) or claude_credential
    row,     \* the row: its id (0: none), refresh token, lock and health
    lease,   \* the row of credential_leases: its holder and whether it lapsed
    granted, \* the credential whose lease a broker got, answer under way
    managed, \* broker.managed: the credential id, 0 for none
    call,    \* the refresh a broker or the server has in progress
    guard,   \* the lease-expiry cron has read the lease and will delete it
    home,    \* the refresh token in a worker's auth.json, 0 for none
    issued,  \* the latest refresh token, the only one that can be redeemed
    rows,    \* rows created so far
    dead,    \* the provider ended the session the tokens belong to
    lost     \* auxiliary: an issued token was never stored

vars == <<codex, row, lease, granted, managed, call, guard, home, issued,
          rows, dead, lost>>

Refreshers == Brokers \cup {"server", "verify"}
Idle == [pc |-> "idle", id |-> 0, token |-> 0]
NoLease == [holder |-> "none", lapsed |-> FALSE]
NoRow == [id |-> 0, token |-> 0, locked |-> FALSE, health |-> "healthy"]

(* The credential is stored and nobody has used it yet; storing it sets       *)
(* lastRefreshedAt, which is the lock.                                        *)
NewRow(id, t) == [id |-> id, token |-> t, locked |-> TRUE, health |-> "healthy"]

Init ==
    /\ codex \in BOOLEAN
    /\ row = NewRow(1, 1)
    /\ lease = NoLease
    /\ granted = [b \in Brokers |-> 0]
    /\ managed = [b \in Brokers |-> 0]
    /\ call = [r \in Refreshers |-> Idle]
    /\ guard = FALSE
    /\ home = [w \in Workers |-> 0]
    /\ issued = 1
    /\ rows = 1
    /\ dead = FALSE
    /\ lost = FALSE

Present == row.id # 0
OnRow(r) == call[r].id = row.id

(***************************************************************************)
(* The lease.                                                              *)
(***************************************************************************)
(* tryAcquireLease(): a claim listed the credential as expiring.  The insert  *)
(* takes a free lease or one that has lapsed.                                 *)
Acquire(b) ==
    /\ managed[b] = 0 /\ granted[b] = 0
    /\ Present /\ row.health # "revoked"
    /\ lease.holder = "none" \/ lease.lapsed
    /\ lease' = [holder |-> b, lapsed |-> FALSE]
    /\ granted' = [granted EXCEPT ![b] = row.id]
    /\ UNCHANGED <<codex, row, managed, call, guard, home, issued, rows, dead, lost>>

(* The answer arrives and the broker adds the credential to its managed set.  *)
Manage(b) ==
    /\ granted[b] # 0
    /\ managed' = [managed EXCEPT ![b] = granted[b]]
    /\ granted' = [granted EXCEPT ![b] = 0]
    /\ UNCHANGED <<codex, row, lease, call, guard, home, issued, rows, dead, lost>>

(* Mutant: the lease is looked up by the credential alone.                    *)
HoldsAny(b) == Present /\ managed[b] = row.id /\ lease.holder # "none"

Holds(b) == Present /\ managed[b] = row.id /\ lease.holder = b

(* heartbeatAll(): the update renews the lease, lapsed or not, if the broker  *)
(* still holds it; a 404 makes the broker drop the credential.                *)
Heartbeat(b) ==
    /\ managed[b] # 0
    /\ IF Holds(b) THEN lease' = [lease EXCEPT !.lapsed = FALSE] /\ UNCHANGED managed
                   ELSE managed' = [managed EXCEPT ![b] = 0] /\ UNCHANGED lease
    /\ UNCHANGED <<codex, row, granted, call, guard, home, issued, rows, dead, lost>>

(* Five minutes without a heartbeat.                                          *)
Lapse ==
    /\ lease.holder # "none" /\ ~lease.lapsed
    /\ lease' = [lease EXCEPT !.lapsed = TRUE]
    /\ UNCHANGED <<codex, row, granted, managed, call, guard, home, issued,
                   rows, dead, lost>>

(* lease-expiry-guard: the cron reads the lapsed lease, notifies the team and *)
(* then deletes the row it has read, renewed or taken over meanwhile or not.  *)
GuardRead ==
    /\ lease.lapsed /\ ~guard
    /\ guard' = TRUE
    /\ UNCHANGED <<codex, row, lease, granted, managed, call, home, issued,
                   rows, dead, lost>>

GuardDelete ==
    /\ guard
    /\ guard' = FALSE
    /\ lease' = NoLease
    /\ UNCHANGED <<codex, row, granted, managed, call, home, issued, rows, dead, lost>>

(***************************************************************************)
(* A refresh: lock, redeem, store.                                         *)
(***************************************************************************)
Start(r) == call' = [call EXCEPT ![r] = [pc |-> "redeem", id |-> row.id,
                                          token |-> row.token]]
Stop(r) == call' = [call EXCEPT ![r] = Idle]

(* Mutant: the update has no condition on lastRefreshedAt.                    *)
TakeAnyLock(r) ==
    /\ call[r].pc = "idle" /\ Present
    /\ row' = [row EXCEPT !.locked = TRUE]
    /\ Start(r)
    /\ UNCHANGED <<codex, lease, granted, managed, guard, home, issued, rows, dead, lost>>

(* The lock: an update of lastRefreshedAt where it is null or an hour old.    *)
TakeLock(r) ==
    /\ call[r].pc = "idle" /\ Present /\ ~row.locked
    /\ row' = [row EXCEPT !.locked = TRUE]
    /\ Start(r)
    /\ UNCHANGED <<codex, lease, granted, managed, guard, home, issued, rows, dead, lost>>

(* refreshExpiring(): a broker asks for every credential it manages.          *)
BrokerLock(b) == Present /\ managed[b] = row.id /\ TakeLock(b)

(* refreshClaudeCredential(), refreshCodexCredential(): the button, the cron  *)
(* and the guard, where the control plane may refresh.                        *)
ServerLock == TakeLock("server")

(* verifyCodexCredential() redeems the stored token without the lock.         *)
VerifyRead ==
    /\ codex /\ call["verify"].pc = "idle" /\ Present
    /\ Start("verify")
    /\ UNCHANGED <<codex, row, lease, granted, managed, guard, home, issued,
                   rows, dead, lost>>

Valid(t) == t = issued /\ ~dead

Redeeming(r) == call[r].pc = "redeem" /\ OnRow(r)
Rotate == issued < MaxTokens /\ issued' = issued + 1

(* Mutant: the refresh token of the request is stored, not the answer's.      *)
RedeemKeepsOld(r) ==
    /\ Redeeming(r) /\ Valid(call[r].token)
    /\ Rotate
    /\ call' = [call EXCEPT ![r].pc = "commit"]
    /\ UNCHANGED <<codex, row, lease, granted, managed, guard, home, rows, dead, lost>>

(* The provider redeems the token and issues the next one.                    *)
Redeem(r) ==
    /\ Redeeming(r) /\ Valid(call[r].token)
    /\ Rotate
    /\ call' = [call EXCEPT ![r] = [@ EXCEPT !.pc = "commit", !.token = issued']]
    /\ UNCHANGED <<codex, row, lease, granted, managed, guard, home, rows, dead, lost>>

(* It does, and the answer never arrives.                                     *)
RedeemUnheard(r) ==
    /\ Redeeming(r) /\ Valid(call[r].token)
    /\ Rotate
    /\ Stop(r)
    /\ lost' = TRUE
    /\ UNCHANGED <<codex, row, lease, granted, managed, guard, home, rows, dead>>

(* It answers 400 or 401: the token is not the latest, or the session ended.  *)
Reject(r) ==
    /\ Redeeming(r) /\ ~Valid(call[r].token)
    /\ call' = [call EXCEPT ![r].pc = "revoke"]
    /\ UNCHANGED <<codex, row, lease, granted, managed, guard, home, issued,
                   rows, dead, lost>>

(* The call fails and nothing was redeemed.                                   *)
RedeemFails(r) ==
    /\ call[r].pc = "redeem"
    /\ Stop(r)
    /\ UNCHANGED <<codex, row, lease, granted, managed, guard, home, issued,
                   rows, dead, lost>>

(* The new token is stored.  Only a refresh by the server of a Codex          *)
(* credential leaves the health as it was.                                    *)
Commit(r) ==
    /\ call[r].pc = "commit" /\ OnRow(r)
    /\ row' = [row EXCEPT !.token = call[r].token, !.locked = TRUE,
                          !.health = IF codex /\ r \notin Brokers THEN @ ELSE "healthy"]
    /\ Stop(r)
    /\ UNCHANGED <<codex, lease, granted, managed, guard, home, issued, rows, dead, lost>>

(* The write fails; runnerRefreshCredential() does not look at the answer.    *)
CommitFails(r) ==
    /\ call[r].pc = "commit"
    /\ Stop(r)
    /\ lost' = (lost \/ OnRow(r))
    /\ UNCHANGED <<codex, row, lease, granted, managed, guard, home, issued, rows, dead>>

(* Mutant: a health that the readers do not know.                             *)
RevokeExpired(r) ==
    /\ call[r].pc = "revoke" /\ OnRow(r)
    /\ row' = [row EXCEPT !.health = "expired"]
    /\ Stop(r)
    /\ UNCHANGED <<codex, lease, granted, managed, guard, home, issued, rows, dead, lost>>

(* The credential is marked revoked; a runner and the verify button do so     *)
(* only for the answers that classifyAuthErrorSeverity() takes as final.      *)
Revoke(r) ==
    /\ call[r].pc = "revoke"
    /\ \/ /\ OnRow(r)
          /\ row' = [row EXCEPT !.health = "revoked",
                                !.locked = @ /\ ~(codex /\ r = "server")]
       \/ (r # "server" \/ ~OnRow(r)) /\ UNCHANGED row
    /\ Stop(r)
    /\ UNCHANGED <<codex, lease, granted, managed, guard, home, issued, rows, dead, lost>>

(* Mutant: the next attempt forgets what the last one found.                  *)
LockOpensHealthy ==
    /\ row.locked
    /\ \A r \in Refreshers : call[r].pc = "idle"
    /\ row' = [row EXCEPT !.locked = FALSE, !.health = "healthy"]
    /\ UNCHANGED <<codex, lease, granted, managed, call, guard, home, issued,
                   rows, dead, lost>>

(* The lock opens an hour later, or a quarter after a failure: no request is  *)
(* still in progress.                                                         *)
LockOpens ==
    /\ row.locked
    /\ \A r \in Refreshers : call[r].pc = "idle"
    /\ row' = [row EXCEPT !.locked = FALSE]
    /\ UNCHANGED <<codex, lease, granted, managed, call, guard, home, issued,
                   rows, dead, lost>>

(***************************************************************************)
(* The workers' Codex CLI.                                                 *)
(***************************************************************************)
(* A claim hands the stored tokens to the worker, whose auth.json is seeded.  *)
SeedHome(w) ==
    /\ codex /\ home[w] = 0
    /\ Present /\ row.health # "revoked"
    /\ home' = [home EXCEPT ![w] = row.token]
    /\ UNCHANGED <<codex, row, lease, granted, managed, call, guard, issued,
                   rows, dead, lost>>

(* The CLI refreshes its own tokens.                                          *)
CliRefresh(w) ==
    /\ home[w] # 0 /\ Valid(home[w])
    /\ Rotate
    /\ home' = [home EXCEPT ![w] = issued']
    /\ UNCHANGED <<codex, row, lease, granted, managed, call, guard, rows, dead, lost>>

(* writeBackCodexTokens(): at the end of a session the runner stores what is  *)
(* in auth.json, unless something was stored in the last thirty seconds.      *)
WriteBack(w) ==
    /\ home[w] # 0 /\ Present
    /\ row' = [row EXCEPT !.token = home[w], !.locked = TRUE]
    /\ UNCHANGED <<codex, lease, granted, managed, call, guard, home, issued,
                   rows, dead, lost>>

(***************************************************************************)
(* The user, the provider, and crashes.                                    *)
(***************************************************************************)
(* The row goes, and its lease with it (ON DELETE CASCADE).                   *)
DropLease == lease' = NoLease /\ guard' = FALSE

(* The user logs in: the row is deleted and another one inserted.             *)
Store ==
    /\ rows < MaxRows
    /\ Rotate
    /\ rows' = rows + 1
    /\ row' = NewRow(rows', issued')
    /\ DropLease
    /\ dead' = FALSE /\ lost' = FALSE
    /\ UNCHANGED <<codex, granted, managed, call, home>>

Disconnect ==
    /\ Present
    /\ row' = NoRow
    /\ DropLease
    /\ UNCHANGED <<codex, granted, managed, call, home, issued, rows, dead, lost>>

(* The user logs out elsewhere.                                               *)
EndSession ==
    /\ ~dead
    /\ dead' = TRUE
    /\ UNCHANGED <<codex, row, lease, granted, managed, call, guard, home, issued,
                   rows, lost>>

(* A refresher dies with what it knows: a token it was to store is lost.      *)
Dies(r) == Stop(r) /\ lost' = (lost \/ (call[r].pc = "commit" /\ OnRow(r)))

(* The broker's process ends: shutdown() releases the leases of the managed   *)
(* credentials, a crash leaves the lease to its TTL.  From then on, or until   *)
(* it is restarted, it takes no step; restarted it manages nothing.           *)
BrokerStops(b) ==
    /\ granted' = [granted EXCEPT ![b] = 0]
    /\ managed' = [managed EXCEPT ![b] = 0]
    /\ Dies(b)
    /\ \/ UNCHANGED <<lease, guard>>
       \/ Holds(b) /\ DropLease
    /\ UNCHANGED <<codex, row, home, issued, rows, dead>>

ServerDies(r) ==
    /\ r \notin Brokers /\ call[r].pc # "idle"
    /\ Dies(r)
    /\ UNCHANGED <<codex, row, lease, granted, managed, guard, home, issued, rows, dead>>

RefreshStep(r) ==
    \/ Redeem(r) \/ RedeemUnheard(r) \/ Reject(r) \/ RedeemFails(r)
    \/ Commit(r) \/ CommitFails(r) \/ Revoke(r) \/ ServerDies(r)

BrokerStep(b) ==
    \/ Acquire(b) \/ Manage(b) \/ Heartbeat(b) \/ BrokerLock(b)
    \/ BrokerStops(b)

WorkerStep(w) == SeedHome(w) \/ CliRefresh(w) \/ WriteBack(w)

Next ==
    \/ \E b \in Brokers : BrokerStep(b)
    \/ \E r \in Refreshers : RefreshStep(r)
    \/ \E w \in Workers : WorkerStep(w)
    \/ ServerLock \/ VerifyRead \/ LockOpens \/ Lapse \/ GuardRead \/ GuardDelete
    \/ Store \/ Disconnect \/ EndSession

Spec == Init /\ [][Next]_vars

(* The heartbeat of a broker is an interval timer of a running process.       *)
LiveSpec == Spec /\ \A b \in Brokers : WF_vars(Heartbeat(b))

(***************************************************************************)
(* Properties.                                                             *)
(***************************************************************************)
RowIds == 0..MaxRows
Tokens == 0..MaxTokens
Rows == [id : RowIds, token : Tokens, locked : BOOLEAN, health : {"healthy", "revoked"}]
Leases == [holder : Brokers \cup {"none"}, lapsed : BOOLEAN]
Calls == [pc : {"idle", "redeem", "commit", "revoke"}, id : RowIds, token : Tokens]

TypeOK ==
    /\ codex \in BOOLEAN
    /\ row \in Rows
    /\ lease \in Leases
    /\ granted \in [Brokers -> RowIds]
    /\ managed \in [Brokers -> RowIds]
    /\ call \in [Refreshers -> Calls]
    /\ guard \in BOOLEAN
    /\ home \in [Workers -> Tokens]
    /\ issued \in Tokens \ {0} /\ rows \in RowIds \ {0}
    /\ dead \in BOOLEAN /\ lost \in BOOLEAN

(* The stored refresh token is the one that can be redeemed, or a refresh is  *)
(* about to store that one.                                                   *)
ChainWhole ==
    \/ row.token = issued
    \/ \E r \in Refreshers : call[r] = [pc |-> "commit", id |-> row.id, token |-> issued]

(* Two brokers and the server refresh a Claude credential under leases that   *)
(* lapse, change hands and are deleted; the token chain breaks only where an  *)
(* issued token never reached the database (an unheard answer, a failed write *)
(* or a crash in between).                                                    *)
TokenKept == ~codex /\ Present /\ ~lost => ChainWhole

(* A Claude credential is reported revoked only if it is: the session has     *)
(* ended or the chain is broken.  In particular nobody's refresh is rejected  *)
(* because someone else has just redeemed the token.                          *)
RevokedIsDead == ~codex /\ Present /\ row.health = "revoked" => dead \/ lost

(* To its team a Claude credential is a TokenChain: leases that lapse and     *)
(* change hands, refreshes that overlap and crash, are all hidden by it.  A   *)
(* Codex credential makes no such promise and is mapped to none.              *)
Chain ==
    IF codex \/ ~Present THEN "none"
    ELSE IF dead \/ ~ChainWhole THEN "broken"
    ELSE IF row.token = issued THEN "whole" ELSE "moving"

Alarm == ~codex /\ row.health = "revoked"

Abstract == INSTANCE TokenChain WITH chain <- Chain, alarm <- Alarm

KeepsChain == Abstract!Spec

(* Brokers do not all go on managing the credential, which they do while some *)
(* have lost the lease without noticing.                                      *)
OneManager == (\A b \in Brokers : managed[b] # 0) ~> (\E b \in Brokers : managed[b] = 0)
=============================================================================
