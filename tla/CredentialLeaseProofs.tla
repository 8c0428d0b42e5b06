------------------------ MODULE CredentialLeaseProofs ------------------------
(* TokenKept and RevokedIsDead of CredentialLease for any number of brokers:  *)
(* a Claude credential survives every interleaving of its refreshers; and     *)
(* CredentialLease implements TokenChain.                                     *)
EXTENDS CredentialLease, TLAPS

(* r is refreshing the stored credential.                                     *)
Busy(r) == call[r].pc # "idle" /\ OnRow(r)

(* A refresh belongs to a row that has existed, and a stored row is the       *)
(* latest one: no refresh in progress belongs to the next.                    *)
Ids ==
    /\ row.id \in {0, rows}
    /\ \A r \in Refreshers : call[r].pc # "idle" => call[r].id \in 1..rows

(* The lock excludes: one refresh of the row at a time, under the lock.       *)
Exclusive ==
    /\ \A r, s \in Refreshers : Busy(r) /\ Busy(s) => r = s
    /\ \A r \in Refreshers : Busy(r) => row.locked

(* What a refresher carries is what the row holds, then what was issued.      *)
Carried ==
    \A r \in Refreshers : OnRow(r) =>
        /\ call[r].pc = "redeem" => call[r].token = row.token
        /\ call[r].pc = "commit" => call[r].token = issued
        /\ call[r].pc = "revoke" => dead \/ lost

(* Nobody redeems the token of a Claude credential outside the lock.          *)
NoBypass == call["verify"].pc = "idle" /\ \A w \in Workers : home[w] = 0

(* What the proof carries of a Claude credential; the last two conjuncts are  *)
(* what TokenKept and RevokedIsDead say of it.                                *)
Guarded ==
    /\ Exclusive
    /\ Carried
    /\ NoBypass
    /\ Present /\ ~lost => ChainWhole
    /\ Present /\ row.health = "revoked" => dead \/ lost

IInv == TypeOK /\ Ids /\ (~codex => Guarded)

(* Type correctness: every operation of every broker, refresher and worker    *)
(* leaves each variable in its type.                                          *)
LEMMA Constructors ==
    /\ 0 \in RowIds /\ 1 \in RowIds /\ 0 \in Tokens /\ 1 \in Tokens
    /\ Idle \in Calls /\ NoLease \in Leases /\ NoRow \in Rows
    /\ \A i \in RowIds, t \in Tokens : NewRow(i, t) \in Rows
BY CredentialAssumption
   DEF RowIds, Tokens, Idle, Calls, NoLease, Leases, NoRow, Rows, NewRow

LEMMA RotateType ==
    ASSUME issued \in Tokens, Rotate
    PROVE  issued' \in Tokens \ {0}
BY CredentialAssumption DEF Tokens, Rotate

LEMMA StopType ==
    ASSUME TypeOK, NEW r \in Refreshers, Stop(r)
    PROVE  call' \in [Refreshers -> Calls]
BY Constructors DEF TypeOK, Stop

LEMMA DiesType ==
    ASSUME TypeOK, NEW r \in Refreshers, Dies(r)
    PROVE  call' \in [Refreshers -> Calls] /\ lost' \in BOOLEAN
<1>1. call' \in [Refreshers -> Calls]
    BY StopType DEF Dies
<1>2. lost' \in BOOLEAN
    BY DEF Dies
<1> QED BY <1>1, <1>2

LEMMA DropLeaseType ==
    ASSUME DropLease
    PROVE  lease' \in Leases /\ guard' \in BOOLEAN
BY Constructors DEF DropLease

LEMMA TakeLockType ==
    ASSUME TypeOK, NEW r \in Refreshers, TakeLock(r)
    PROVE  row' \in Rows /\ call' \in [Refreshers -> Calls]
<1>1. row' \in Rows
    BY DEF TypeOK, TakeLock, Rows
<1>2. [pc |-> "redeem", id |-> row.id, token |-> row.token] \in Calls
    BY DEF TypeOK, Rows, Calls
<1>3. call' \in [Refreshers -> Calls]
    BY <1>2 DEF TypeOK, TakeLock, Start
<1> QED BY <1>1, <1>3

LEMMA TypeInit == Init => TypeOK
<1> SUFFICES ASSUME Init PROVE TypeOK
    OBVIOUS
<1> USE Constructors DEF Init
<1>1. row \in Rows /\ lease \in Leases /\ call \in [Refreshers -> Calls]
    OBVIOUS
<1>2. issued \in Tokens \ {0} /\ rows \in RowIds \ {0}
    OBVIOUS
<1>3. codex \in BOOLEAN /\ guard \in BOOLEAN /\ dead \in BOOLEAN /\ lost \in BOOLEAN
    OBVIOUS
<1>4. /\ granted \in [Brokers -> RowIds] /\ managed \in [Brokers -> RowIds]
      /\ home \in [Workers -> Tokens]
    OBVIOUS
<1> QED BY <1>1, <1>2, <1>3, <1>4 DEF TypeOK

LEMMA TypeStep == TypeOK /\ [Next]_vars => TypeOK'
<1> SUFFICES ASSUME TypeOK, [Next]_vars PROVE TypeOK'
    OBVIOUS
<1> USE Constructors DEF TypeOK
<1>1. CASE \E b \in Brokers : Acquire(b)
    BY <1>1 DEF Acquire, Rows, Leases
<1>2. CASE \E b \in Brokers : Manage(b)
    BY <1>2 DEF Manage
<1>3. CASE \E b \in Brokers : Heartbeat(b)
    BY <1>3 DEF Heartbeat, Leases
<1>4. CASE \E b \in Brokers : BrokerLock(b)
    <2>1. PICK b \in Brokers : BrokerLock(b)
        BY <1>4
    <2>2. TakeLock(b) /\ b \in Refreshers
        BY <2>1 DEF BrokerLock, Refreshers
    <2> QED BY <2>2, TakeLockType DEF TakeLock
<1>5. CASE \E b \in Brokers : BrokerStops(b)
    <2>1. PICK b \in Brokers : BrokerStops(b)
        BY <1>5
    <2>2. call' \in [Refreshers -> Calls] /\ lost' \in BOOLEAN
        BY <2>1, DiesType DEF BrokerStops, Refreshers
    <2>3. lease' \in Leases /\ guard' \in BOOLEAN
        BY <2>1, DropLeaseType DEF BrokerStops
    <2> QED BY <2>1, <2>2, <2>3 DEF BrokerStops
<1>6. CASE \E r \in Refreshers : Redeem(r)
    <2>1. PICK r \in Refreshers : Redeem(r)
        BY <1>6
    <2>2. issued' \in Tokens \ {0}
        BY <2>1, RotateType DEF Redeem
    <2>3. [call[r] EXCEPT !.pc = "commit", !.token = issued'] \in Calls
        BY <2>2 DEF Calls
    <2>4. call' \in [Refreshers -> Calls]
        BY <2>1, <2>3 DEF Redeem
    <2> QED BY <2>1, <2>2, <2>4 DEF Redeem
<1>7. CASE \E r \in Refreshers : RedeemUnheard(r)
    BY <1>7, RotateType, StopType DEF RedeemUnheard
<1>8. CASE \E r \in Refreshers : Reject(r)
    BY <1>8 DEF Reject, Calls
<1>9. CASE \E r \in Refreshers : RedeemFails(r)
    BY <1>9, StopType DEF RedeemFails
<1>10. CASE \E r \in Refreshers : Commit(r)
    <2>1. PICK r \in Refreshers : Commit(r)
        BY <1>10
    <2>2. call' \in [Refreshers -> Calls]
        BY <2>1, StopType DEF Commit
    <2>3. call[r].token \in Tokens
        BY DEF Calls
    <2>4. row' \in Rows
        BY <2>1, <2>3 DEF Commit, Rows
    <2> QED BY <2>1, <2>2, <2>4 DEF Commit
<1>11. CASE \E r \in Refreshers : CommitFails(r)
    <2>1. PICK r \in Refreshers : CommitFails(r)
        BY <1>11
    <2>2. call' \in [Refreshers -> Calls]
        BY <2>1, StopType DEF CommitFails
    <2>3. lost' \in BOOLEAN
        BY <2>1 DEF CommitFails
    <2> QED BY <2>1, <2>2, <2>3 DEF CommitFails
<1>12. CASE \E r \in Refreshers : Revoke(r)
    <2>1. PICK r \in Refreshers : Revoke(r)
        BY <1>12
    <2>2. call' \in [Refreshers -> Calls]
        BY <2>1, StopType DEF Revoke
    <2>3. row' \in Rows
        <3>1. CASE UNCHANGED row
            BY <3>1
        <3>2. CASE row' = [row EXCEPT !.health = "revoked",
                                      !.locked = @ /\ ~(codex /\ r = "server")]
            <4> DEFINE l == row.locked /\ ~(codex /\ r = "server")
            <4>1. l \in BOOLEAN
                OBVIOUS
            <4>2. row' = [row EXCEPT !.health = "revoked", !.locked = l]
                BY <3>2
            <4> HIDE DEF l
            <4> QED BY <4>1, <4>2 DEF Rows
        <3> QED BY <2>1, <3>1, <3>2 DEF Revoke
    <2> QED BY <2>1, <2>2, <2>3 DEF Revoke
<1>13. CASE \E r \in Refreshers : ServerDies(r)
    BY <1>13, DiesType DEF ServerDies
<1>14. CASE \E w \in Workers : SeedHome(w)
    BY <1>14 DEF SeedHome, Rows
<1>15. CASE \E w \in Workers : CliRefresh(w)
    BY <1>15, RotateType DEF CliRefresh
<1>16. CASE \E w \in Workers : WriteBack(w)
    <2>1. PICK w \in Workers : WriteBack(w)
        BY <1>16
    <2>2. row' \in Rows
        BY <2>1 DEF WriteBack, Rows
    <2> QED BY <2>1, <2>2 DEF WriteBack
<1>17. CASE ServerLock
    BY <1>17, TakeLockType DEF ServerLock, TakeLock, Refreshers
<1>18. CASE VerifyRead
    BY <1>18 DEF VerifyRead, Start, Rows, Calls
<1>19. CASE LockOpens
    BY <1>19 DEF LockOpens, Rows
<1>20. CASE Lapse
    BY <1>20 DEF Lapse, Leases
<1>21. CASE GuardRead
    BY <1>21 DEF GuardRead
<1>22. CASE GuardDelete
    BY <1>22 DEF GuardDelete
<1>23. CASE Store
    <2>1. rows' \in RowIds \ {0}
        BY <1>23, CredentialAssumption DEF Store, RowIds
    <2>2. issued' \in Tokens \ {0}
        BY <1>23, RotateType DEF Store
    <2>3. row' \in Rows
        BY <1>23, <2>1, <2>2 DEF Store
    <2> QED BY <1>23, <2>1, <2>2, <2>3, DropLeaseType DEF Store
<1>24. CASE Disconnect
    BY <1>24, DropLeaseType DEF Disconnect
<1>25. CASE EndSession
    BY <1>25 DEF EndSession
<1>26. CASE UNCHANGED vars
    BY <1>26 DEF vars
<1> QED BY <1>1, <1>2, <1>3, <1>4, <1>5, <1>6, <1>7, <1>8, <1>9, <1>10, <1>11,
           <1>12, <1>13, <1>14, <1>15, <1>16, <1>17, <1>18, <1>19, <1>20,
           <1>21, <1>22, <1>23, <1>24, <1>25, <1>26
       DEF Next, BrokerStep, RefreshStep, WorkerStep

(* The ids: no refresh in progress belongs to a row yet to be stored.         *)
LEMMA NoNewCall ==
    ASSUME Ids, rows' = rows, row'.id \in {0, row.id},
           \A r \in Refreshers : \/ call'[r].pc = "idle"
                                 \/ call'[r].id = call[r].id /\ call[r].pc # "idle"
    PROVE  Ids'
BY DEF Ids

LEMMA StopIds ==
    ASSUME TypeOK, Ids, NEW r \in Refreshers, Stop(r), rows' = rows, row'.id = row.id
    PROVE  Ids'
BY NoNewCall DEF TypeOK, Stop, Idle, Ids

LEMMA StartIds ==
    ASSUME TypeOK, Ids, NEW r \in Refreshers, Present, Start(r),
           rows' = rows, row'.id = row.id
    PROVE  Ids'
<1>1. row.id \in 1..rows
    BY CredentialAssumption DEF TypeOK, RowIds, Ids, Present
<1> QED BY <1>1 DEF TypeOK, Ids, Start

LEMMA TakeLockIds ==
    ASSUME TypeOK, Ids, NEW r \in Refreshers, TakeLock(r)
    PROVE  Ids'
<1>1. row'.id = row.id
    BY DEF TakeLock, TypeOK, Rows
<1> QED BY <1>1, StartIds DEF TakeLock

LEMMA IdsStep == TypeOK /\ Ids /\ [Next]_vars => Ids'
<1> SUFFICES ASSUME TypeOK, Ids, [Next]_vars PROVE Ids'
    OBVIOUS
<1>1. CASE \E b \in Brokers : Acquire(b) \/ Manage(b) \/ Heartbeat(b)
    BY <1>1 DEF Acquire, Manage, Heartbeat, Ids
<1>2. CASE \E b \in Brokers : BrokerLock(b) \/ BrokerStops(b)
    BY <1>2, TakeLockIds, StopIds DEF BrokerLock, BrokerStops, Dies, Refreshers
<1>3. CASE \E r \in Refreshers : Redeem(r) \/ Reject(r)
    <2>1. PICK r \in Refreshers : Redeem(r) \/ Reject(r)
        BY <1>3
    <2>2. rows' = rows /\ row' = row /\ call[r].pc # "idle"
        BY <2>1 DEF Redeem, Reject, Redeeming
    <2>3. \A s \in Refreshers \ {r} : call'[s] = call[s]
        BY <2>1 DEF Redeem, Reject, TypeOK
    <2>4. call'[r].id = call[r].id
        <3>1. CASE Redeem(r)
            BY <3>1 DEF Redeem, TypeOK, Calls
        <3>2. CASE Reject(r)
            BY <3>2 DEF Reject, TypeOK, Calls
        <3> QED BY <2>1, <3>1, <3>2
    <2> QED BY <2>2, <2>3, <2>4 DEF Ids
<1>4. CASE \E r \in Refreshers : RedeemUnheard(r) \/ RedeemFails(r) \/ CommitFails(r)
    BY <1>4, StopIds DEF RedeemUnheard, RedeemFails, CommitFails
<1>5. CASE \E r \in Refreshers : Commit(r) \/ Revoke(r) \/ ServerDies(r)
    <2>1. PICK r \in Refreshers : Commit(r) \/ Revoke(r) \/ ServerDies(r)
        BY <1>5
    <2>2. row'.id = row.id
        BY <2>1 DEF Commit, Revoke, ServerDies, TypeOK, Rows
    <2> QED BY <2>1, <2>2, StopIds DEF Commit, Revoke, ServerDies, Dies
<1>6. CASE \E w \in Workers : WorkerStep(w)
    BY <1>6 DEF WorkerStep, SeedHome, CliRefresh, WriteBack, Ids, TypeOK, Rows
<1>7. CASE ServerLock
    BY <1>7, TakeLockIds DEF ServerLock, Refreshers
<1>8. CASE VerifyRead
    BY <1>8, StartIds DEF VerifyRead, Refreshers
<1>9. CASE LockOpens
    BY <1>9 DEF LockOpens, Ids, TypeOK, Rows
<1>10. CASE Lapse \/ GuardRead \/ GuardDelete \/ EndSession
    BY <1>10 DEF Lapse, GuardRead, GuardDelete, EndSession, Ids
<1>11. CASE Store
    BY <1>11, CredentialAssumption DEF Store, NewRow, Ids, TypeOK, RowIds
<1>12. CASE Disconnect
    BY <1>12 DEF Disconnect, NoRow, Ids
<1>13. CASE UNCHANGED vars
    BY <1>13 DEF vars, Ids
<1> QED BY <1>1, <1>2, <1>3, <1>4, <1>5, <1>6, <1>7, <1>8, <1>9, <1>10, <1>11,
           <1>12, <1>13
       DEF Next, BrokerStep, RefreshStep

(* The chain, for a Claude credential.  A refresh that ends without storing   *)
(* leaves it whole, or loses the token.                                       *)
LEMMA StopGuarded ==
    ASSUME TypeOK, Guarded, NEW r \in Refreshers, Stop(r),
           UNCHANGED <<row, dead, home>>, lost => lost',
           lost' \/ (issued' = issued /\ ~(call[r].pc = "commit" /\ OnRow(r))),
           issued' = issued \/ Busy(r)
    PROVE  Guarded'
<1> USE DEF Stop, Busy, OnRow
<1>1. call'[r] = Idle /\ \A s \in Refreshers \ {r} : call'[s] = call[s]
    BY DEF TypeOK
<1>2. Exclusive'
    BY <1>1 DEF Guarded, Exclusive, Idle
<1>3. Carried'
    BY <1>1 DEF Guarded, Exclusive, Carried, Idle
<1>4. NoBypass'
    BY <1>1 DEF Guarded, NoBypass, Idle, Refreshers
<1>5. (Present /\ ~lost => ChainWhole)'
    BY <1>1 DEF Guarded, Present, ChainWhole, Idle
<1>6. (Present /\ row.health = "revoked" => dead \/ lost)'
    BY DEF Guarded, Present
<1> QED BY <1>2, <1>3, <1>4, <1>5, <1>6 DEF Guarded

(* Taking the lock makes the refresher the only one, with the row's token.    *)
LEMMA TakeLockGuarded ==
    ASSUME TypeOK, Ids, Guarded, NEW r \in Refreshers \ {"verify"}, TakeLock(r)
    PROVE  Guarded'
<1> USE DEF TakeLock, Start, OnRow
<1>1. \A s \in Refreshers : ~Busy(s)
    BY DEF Guarded, Exclusive
<1>2. row' = [row EXCEPT !.locked = TRUE] /\ row'.locked
    BY DEF TypeOK, Rows
<1>3. row'.id = row.id /\ row'.token = row.token /\ row'.health = row.health
    BY <1>2 DEF TypeOK, Rows
<1>4. /\ call'[r] = [pc |-> "redeem", id |-> row.id, token |-> row.token]
      /\ \A s \in Refreshers \ {r} : call'[s] = call[s]
    BY DEF TypeOK
<1>5. Exclusive'
    BY <1>1, <1>2, <1>3, <1>4 DEF Busy, Exclusive
<1>6. Carried'
    BY <1>1, <1>3, <1>4 DEF Busy, Carried, Guarded
<1>7. NoBypass'
    BY <1>4 DEF Guarded, NoBypass, Refreshers
<1>8. (Present /\ ~lost => ChainWhole)'
    BY <1>1, <1>3, <1>4 DEF Guarded, Present, ChainWhole, Busy
<1>9. (Present /\ row.health = "revoked" => dead \/ lost)'
    BY <1>3 DEF Guarded, Present
<1> QED BY <1>5, <1>6, <1>7, <1>8, <1>9 DEF Guarded

(* The refresher that redeems is the only one, and carries the latest token.  *)
LEMMA RedeemGuarded ==
    ASSUME TypeOK, Ids, Guarded, NEW r \in Refreshers, Redeem(r)
    PROVE  Guarded'
<1> USE DEF Redeem, Redeeming, OnRow
<1>1. Busy(r) /\ row' = row /\ dead' = dead /\ lost' = lost /\ home' = home
    BY DEF Busy
<1>2. \A s \in Refreshers \ {r} : ~Busy(s) /\ call'[s] = call[s]
    BY <1>1 DEF Guarded, Exclusive, TypeOK
<1>3. call'[r] = [pc |-> "commit", id |-> row.id, token |-> issued']
    BY DEF TypeOK, Calls
<1>4. Exclusive'
    BY <1>1, <1>2, <1>3 DEF Busy, Exclusive, Guarded
<1>5. Carried'
    BY <1>1, <1>2, <1>3 DEF Busy, Carried
<1>6. NoBypass'
    BY <1>1, <1>2, <1>3 DEF Guarded, NoBypass, Refreshers
<1>7. ChainWhole'
    BY <1>1, <1>3 DEF ChainWhole
<1>8. (Present /\ row.health = "revoked" => dead \/ lost)'
    BY <1>1 DEF Guarded, Present
<1> QED BY <1>4, <1>5, <1>6, <1>7, <1>8 DEF Guarded

(* A rejection of the only refresher means that its token, the row's, is not  *)
(* the latest or that the session has ended.                                  *)
LEMMA RejectGuarded ==
    ASSUME TypeOK, Ids, Guarded, NEW r \in Refreshers, Reject(r)
    PROVE  Guarded'
<1> USE DEF Reject, Redeeming, OnRow
<1>1. Busy(r) /\ row' = row /\ dead' = dead /\ lost' = lost /\ home' = home /\ issued' = issued
    BY DEF Busy
<1>2. \A s \in Refreshers \ {r} : ~Busy(s) /\ call'[s] = call[s]
    BY <1>1 DEF Guarded, Exclusive, TypeOK
<1>3. call'[r].pc = "revoke" /\ call'[r].id = row.id
    BY DEF TypeOK, Calls
<1>4. Present
    BY DEF Ids, Present
<1>5. dead \/ lost
    BY <1>2, <1>4 DEF Guarded, Carried, ChainWhole, Valid, Busy
<1>6. Exclusive'
    BY <1>1, <1>2, <1>3 DEF Busy, Exclusive, Guarded
<1>7. Carried'
    BY <1>1, <1>2, <1>3, <1>5 DEF Busy, Carried, Guarded
<1>8. NoBypass'
    BY <1>1, <1>2, <1>3 DEF Guarded, NoBypass, Refreshers
<1>9. (Present /\ ~lost => ChainWhole)'
    BY <1>1, <1>2, <1>3 DEF Guarded, Present, ChainWhole, Busy
<1>10. (Present /\ row.health = "revoked" => dead \/ lost)'
    BY <1>1 DEF Guarded, Present
<1> QED BY <1>6, <1>7, <1>8, <1>9, <1>10 DEF Guarded

(* Storing the latest token ends the only refresh.                            *)
LEMMA CommitGuarded ==
    ASSUME TypeOK, Ids, Guarded, ~codex, NEW r \in Refreshers, Commit(r)
    PROVE  Guarded'
<1> USE DEF Commit, Stop, OnRow
<1>1. Busy(r) /\ dead' = dead /\ lost' = lost /\ home' = home /\ issued' = issued
    BY DEF Busy
<1>2. \A s \in Refreshers \ {r} : ~Busy(s) /\ call'[s] = call[s]
    BY <1>1 DEF Guarded, Exclusive, TypeOK
<1>3. call'[r].pc = "idle"
    BY DEF TypeOK, Idle
<1>4. row'.id = row.id /\ row'.token = issued /\ row'.health = "healthy"
    BY DEF TypeOK, Rows, Guarded, Carried
<1>5. Exclusive'
    BY <1>2, <1>3, <1>4 DEF Busy, Exclusive
<1>6. Carried'
    BY <1>2, <1>3, <1>4 DEF Busy, Carried
<1>7. NoBypass'
    BY <1>1, <1>2, <1>3 DEF Guarded, NoBypass, Refreshers
<1>8. ChainWhole'
    BY <1>1, <1>4 DEF ChainWhole
<1> QED BY <1>4, <1>5, <1>6, <1>7, <1>8 DEF Guarded

(* Only a credential whose session has ended, or whose token is lost, is      *)
(* marked revoked.                                                            *)
LEMMA RevokeGuarded ==
    ASSUME TypeOK, Ids, Guarded, ~codex, NEW r \in Refreshers, Revoke(r)
    PROVE  Guarded'
<1> USE DEF Revoke, Stop, OnRow
<1>1. dead' = dead /\ lost' = lost /\ home' = home /\ issued' = issued
    OBVIOUS
<1>2. call'[r] = Idle /\ \A s \in Refreshers \ {r} : call'[s] = call[s]
    BY DEF TypeOK
<1>3. row'.id = row.id /\ row'.token = row.token
    BY DEF TypeOK, Rows
<1>4. row.locked => row'.locked
    BY DEF TypeOK, Rows
<1>5. row'.health = row.health \/ dead \/ lost
    BY DEF TypeOK, Rows, Guarded, Carried
<1>6. Exclusive'
    BY <1>2, <1>3, <1>4 DEF Busy, Exclusive, Guarded, Idle
<1>7. Carried'
    BY <1>1, <1>2, <1>3 DEF Carried, Guarded, Idle
<1>8. NoBypass'
    BY <1>1, <1>2 DEF Guarded, NoBypass, Refreshers, Idle
<1>9. (Present /\ ~lost => ChainWhole)'
    BY <1>1, <1>2, <1>3 DEF Guarded, Present, ChainWhole, Idle
<1>10. (Present /\ row.health = "revoked" => dead \/ lost)'
    BY <1>1, <1>3, <1>5 DEF Guarded, Present
<1> QED BY <1>6, <1>7, <1>8, <1>9, <1>10 DEF Guarded

(* A new login starts a new chain that no refresh in progress touches.        *)
LEMMA StoreGuarded ==
    ASSUME TypeOK, Ids, Guarded, Store
    PROVE  Guarded'
<1> USE DEF Store, OnRow
<1>0. rows \in Nat
    BY CredentialAssumption DEF TypeOK, RowIds
<1>1. row' = NewRow(rows + 1, issued') /\ call' = call /\ home' = home
    OBVIOUS
<1>2. row'.id = rows + 1 /\ row'.token = issued' /\ row'.health = "healthy"
    BY <1>1 DEF NewRow
<1>3. \A r \in Refreshers : call[r].pc = "idle" \/ call[r].id # row'.id
    BY <1>0, <1>2 DEF Ids
<1>4. Exclusive'
    BY <1>1, <1>3 DEF Busy, Exclusive
<1>5. Carried'
    BY <1>1, <1>3 DEF Carried
<1>6. NoBypass'
    BY <1>1 DEF Guarded, NoBypass
<1>7. ChainWhole'
    BY <1>2 DEF ChainWhole
<1> QED BY <1>2, <1>4, <1>5, <1>6, <1>7 DEF Guarded

LEMMA DisconnectGuarded ==
    ASSUME TypeOK, Ids, Guarded, Disconnect
    PROVE  Guarded'
<1> USE DEF Disconnect, OnRow
<1>1. row'.id = 0 /\ call' = call /\ home' = home
    BY DEF NoRow
<1>2. \A r \in Refreshers : call[r].pc = "idle" \/ call[r].id # row'.id
    BY <1>1 DEF Ids
<1> QED BY <1>1, <1>2 DEF Guarded, Exclusive, Carried, Busy, NoBypass, Present

LEMMA LockOpensGuarded ==
    ASSUME TypeOK, Guarded, LockOpens
    PROVE  Guarded'
<1> USE DEF LockOpens, OnRow
<1>1. row'.id = row.id /\ row'.token = row.token /\ row'.health = row.health
    BY DEF TypeOK, Rows
<1>2. /\ call' = call /\ home' = home /\ issued' = issued /\ dead' = dead /\ lost' = lost
      /\ \A r \in Refreshers : call[r].pc = "idle"
    OBVIOUS
<1> QED BY <1>1, <1>2 DEF Guarded, Exclusive, Carried, Busy, NoBypass, Present, ChainWhole

(* The leases, and the end of a session, leave the chain as it is.            *)
LEMMA ElsewhereGuarded ==
    ASSUME Guarded, UNCHANGED <<row, call, home, issued, lost>>, dead => dead'
    PROVE  Guarded'
BY DEF Guarded, Exclusive, Carried, Busy, OnRow, NoBypass, Present, ChainWhole

LEMMA GuardedStep ==
    ASSUME TypeOK, Ids, ~codex, Guarded, [Next]_vars
    PROVE  Guarded'
<1>1. CASE \E b \in Brokers : Acquire(b) \/ Manage(b) \/ Heartbeat(b)
    BY <1>1, ElsewhereGuarded DEF Acquire, Manage, Heartbeat
<1>2. CASE \E b \in Brokers : BrokerLock(b)
    BY <1>2, TakeLockGuarded, CredentialAssumption DEF BrokerLock, Refreshers
<1>3. CASE \E b \in Brokers : BrokerStops(b)
    BY <1>3, StopGuarded DEF BrokerStops, Dies, Refreshers
<1>4. CASE \E r \in Refreshers : Redeem(r)
    BY <1>4, RedeemGuarded
<1>5. CASE \E r \in Refreshers : RedeemUnheard(r)
    BY <1>5, StopGuarded DEF RedeemUnheard, Redeeming, Busy
<1>6. CASE \E r \in Refreshers : Reject(r)
    BY <1>6, RejectGuarded
<1>7. CASE \E r \in Refreshers : RedeemFails(r)
    BY <1>7, StopGuarded DEF RedeemFails
<1>8. CASE \E r \in Refreshers : Commit(r)
    BY <1>8, CommitGuarded
<1>9. CASE \E r \in Refreshers : CommitFails(r)
    BY <1>9, StopGuarded DEF CommitFails
<1>10. CASE \E r \in Refreshers : Revoke(r)
    BY <1>10, RevokeGuarded
<1>11. CASE \E r \in Refreshers : ServerDies(r)
    BY <1>11, StopGuarded DEF ServerDies, Dies
<1>12. CASE \E w \in Workers : WorkerStep(w)
    BY <1>12 DEF WorkerStep, SeedHome, CliRefresh, WriteBack, Guarded, NoBypass
<1>13. CASE ServerLock
    BY <1>13, TakeLockGuarded DEF ServerLock, Refreshers
<1>14. CASE VerifyRead
    BY <1>14 DEF VerifyRead
<1>15. CASE LockOpens
    BY <1>15, LockOpensGuarded
<1>16. CASE Lapse \/ GuardRead \/ GuardDelete \/ EndSession
    BY <1>16, ElsewhereGuarded DEF Lapse, GuardRead, GuardDelete, EndSession
<1>17. CASE Store
    BY <1>17, StoreGuarded
<1>18. CASE Disconnect
    BY <1>18, DisconnectGuarded
<1>19. CASE UNCHANGED vars
    BY <1>19, ElsewhereGuarded DEF vars
<1> QED BY <1>1, <1>2, <1>3, <1>4, <1>5, <1>6, <1>7, <1>8, <1>9, <1>10, <1>11,
           <1>12, <1>13, <1>14, <1>15, <1>16, <1>17, <1>18, <1>19
       DEF Next, BrokerStep, RefreshStep

(* The purpose of a credential never changes.                                 *)
LEMMA SamePurpose == [Next]_vars => codex' = codex
BY DEF Next, vars, BrokerStep, Acquire, Manage, Heartbeat, BrokerLock, TakeLock,
       BrokerStops, RefreshStep, Redeem, RedeemUnheard, Reject, RedeemFails, Commit,
       CommitFails, Revoke, ServerDies, WorkerStep, SeedHome, CliRefresh, WriteBack,
       ServerLock, VerifyRead, LockOpens, Lapse, GuardRead, GuardDelete, Store,
       Disconnect, EndSession

LEMMA InitIInv == Init => IInv
<1> SUFFICES ASSUME Init PROVE IInv
    OBVIOUS
<1>1. Ids
    BY DEF Init, NewRow, Idle, Ids
<1>2. Guarded
    BY DEF Init, NewRow, Idle, Guarded, Exclusive, Carried, Busy, OnRow, NoBypass,
           ChainWhole, Refreshers
<1> QED BY <1>1, <1>2, TypeInit DEF IInv

LEMMA NextIInv == IInv /\ [Next]_vars => IInv'
<1> SUFFICES ASSUME IInv, [Next]_vars PROVE IInv'
    OBVIOUS
<1>1. TypeOK' /\ Ids'
    BY TypeStep, IdsStep DEF IInv
<1>2. CASE codex
    BY <1>1, <1>2, SamePurpose DEF IInv
<1>3. CASE ~codex
    BY <1>1, <1>3, SamePurpose, GuardedStep DEF IInv
<1> QED BY <1>2, <1>3

THEOREM Invariant == Spec => []IInv
BY InitIInv, NextIInv, PTL DEF Spec

(* Type correctness, for any number of brokers, workers, tokens and rows.     *)
THEOREM TypeCorrect == Spec => []TypeOK
<1>1. IInv => TypeOK
    BY DEF IInv
<1> QED BY <1>1, Invariant, PTL

(* However many brokers and servers refresh a Claude credential, under leases *)
(* that lapse, change hands and are deleted, the stored token is the one that *)
(* can be redeemed, until an issued token fails to reach the database.        *)
THEOREM ChainKept == Spec => []TokenKept
<1>1. IInv => TokenKept
    BY DEF IInv, Guarded, TokenKept
<1> QED BY <1>1, Invariant, PTL

(* A Claude credential that is marked revoked has been ended by the provider  *)
(* or has lost its token: no refresher's rejection is due to another's        *)
(* success.                                                                   *)
THEOREM NoFalseAlarm == Spec => []RevokedIsDead
<1>1. IInv => RevokedIsDead
    BY DEF IInv, Guarded, RevokedIsDead
<1> QED BY <1>1, Invariant, PTL

------------------------------------------------------------------------------
(* CredentialLease implements TokenChain, for any number of brokers.          *)

(* What the simulation needs beyond IInv.  A lost token leaves nothing that   *)
(* could mend the chain.  While a refresher holds the successor, the row      *)
(* holds a token that is spent, and nobody has reported it revoked: the lock  *)
(* excludes whoever could.                                                    *)
InFlight ==
    \A r \in Refreshers : OnRow(r) /\ call[r].pc = "commit" =>
        row.token # issued /\ row.health # "revoked"

Broken ==
    /\ Present /\ lost => ~ChainWhole
    /\ InFlight

Step == [Abstract!Next]_(Abstract!vars)

(* A Claude credential in a state of the invariant, before a step.            *)
Claude == TypeOK /\ Ids /\ Guarded /\ Broken /\ ~codex

LEMMA Stutter == ASSUME UNCHANGED <<Chain, Alarm>> PROVE Step
BY DEF Step, Abstract!vars

LEMMA SameChain ==
    ASSUME ~codex, UNCHANGED <<codex, dead>>, row'.id = row.id,
           row'.health = row.health, ChainWhole' = ChainWhole,
           (row'.token = issued') = (row.token = issued)
    PROVE  Step
BY Stutter DEF Chain, Alarm, Present

(* A refresh that is under way on the row is the only one.                    *)
LEMMA Alone ==
    ASSUME Guarded, NEW r \in Refreshers, Busy(r)
    PROVE  \A s \in Refreshers \ {r} : ~Busy(s)
BY DEF Guarded, Exclusive

LEMMA BusyPresent ==
    ASSUME Ids, NEW r \in Refreshers, Busy(r)
    PROVE  Present
BY DEF Ids, Busy, OnRow, Present

(* The leases.                                                                *)
LEMMA ElsewhereStep ==
    ASSUME Claude, UNCHANGED <<codex, row, call, issued, dead, lost>>
    PROVE  Step /\ Broken'
<1>1. ChainWhole' = ChainWhole
    BY DEF ChainWhole
<1>2. Broken'
    BY DEF Claude, Broken, InFlight, ChainWhole, Present, OnRow
<1> QED BY <1>1, <1>2, SameChain DEF Claude

LEMMA TakeLockStep ==
    ASSUME Claude, NEW r \in Refreshers, TakeLock(r)
    PROVE  Step /\ Broken'
<1> USE DEF Claude, TakeLock, Start, OnRow
<1>1. row'.id = row.id /\ row'.token = row.token /\ row'.health = row.health
    BY DEF TypeOK, Rows
<1>2. /\ call[r].pc = "idle" /\ call'[r].pc = "redeem"
      /\ \A s \in Refreshers \ {r} : call'[s] = call[s]
    BY DEF TypeOK
<1>3. ChainWhole' = ChainWhole
    BY <1>1, <1>2 DEF ChainWhole
<1>4. Broken'
    BY <1>1, <1>2, <1>3 DEF Broken, InFlight, Present
<1> QED BY <1>1, <1>3, <1>4, SameChain

(* The stored token is redeemed: the chain was whole.                         *)
LEMMA ValidWhole ==
    ASSUME Claude, NEW r \in Refreshers, Redeeming(r), Valid(call[r].token)
    PROVE  /\ Busy(r) /\ Chain = "whole" /\ ~lost /\ row.token = issued
           /\ row.health # "revoked"
<1>1. Busy(r)
    BY DEF Redeeming, Busy
<1>2. row.token = issued /\ ~dead
    BY DEF Claude, Guarded, Carried, Redeeming, Valid
<1>3. Present
    BY <1>1, BusyPresent DEF Claude
<1>4. ChainWhole
    BY <1>2 DEF ChainWhole
<1>5. ~lost
    BY <1>3, <1>4 DEF Claude, Broken
<1> QED BY <1>1, <1>2, <1>3, <1>4, <1>5 DEF Claude, Guarded, Chain

LEMMA RedeemStep ==
    ASSUME Claude, NEW r \in Refreshers, Redeem(r)
    PROVE  Step /\ Broken'
<1> USE DEF Claude, Redeem, OnRow
<1>1. /\ Busy(r) /\ Chain = "whole" /\ ~lost /\ row.token = issued
      /\ row.health # "revoked"
    BY ValidWhole
<1>2. Present /\ ~dead
    BY <1>1 DEF Chain
<1>3. issued' = issued + 1 /\ issued \in Nat
    BY CredentialAssumption DEF TypeOK, Tokens, Rotate
<1>4. call'[r] = [pc |-> "commit", id |-> row.id, token |-> issued']
    BY DEF TypeOK, Calls, Redeeming
<1>5. Chain' = "moving"
    <2>1. ChainWhole'
        BY <1>4 DEF ChainWhole
    <2>2. row'.token # issued'
        BY <1>1, <1>3
    <2> QED BY <1>2, <2>1, <2>2 DEF Chain, Present
<1>6. \A s \in Refreshers : s # r => ~(OnRow(s) /\ call[s].pc = "commit")'
    BY <1>1, Alone DEF TypeOK, Busy
<1>7. Broken'
    BY <1>1, <1>3, <1>4, <1>6 DEF Broken, InFlight
<1>8. Abstract!Redeem
    BY <1>1, <1>5 DEF Abstract!Redeem, Alarm
<1> QED BY <1>7, <1>8 DEF Step, Abstract!Next

LEMMA RedeemUnheardStep ==
    ASSUME Claude, NEW r \in Refreshers, RedeemUnheard(r)
    PROVE  Step /\ Broken'
<1> USE DEF Claude, RedeemUnheard, OnRow
<1>1. /\ Busy(r) /\ Chain = "whole" /\ row.token = issued
    BY ValidWhole
<1>2. issued' = issued + 1 /\ issued \in Nat
    BY CredentialAssumption DEF TypeOK, Tokens, Rotate
<1>3. \A s \in Refreshers : ~(OnRow(s) /\ call[s].pc = "commit")'
    BY <1>1, Alone DEF TypeOK, Busy, Stop, Idle
<1>4. ~ChainWhole'
    BY <1>1, <1>2, <1>3 DEF ChainWhole
<1>5. Chain' = "broken"
    BY <1>1, <1>4 DEF Chain, Present
<1>6. Broken'
    BY <1>3, <1>4 DEF Broken, InFlight
<1>7. Abstract!Break
    BY <1>1, <1>5 DEF Abstract!Break, Alarm
<1> QED BY <1>6, <1>7 DEF Step, Abstract!Next

(* A refresh stops.  If it held the successor the chain is broken for good.   *)
LEMMA StopStep ==
    ASSUME Claude, NEW r \in Refreshers, Stop(r),
           UNCHANGED <<codex, row, issued, dead>>,
           lost' = (lost \/ (call[r].pc = "commit" /\ OnRow(r)))
    PROVE  Step /\ Broken'
<1> USE DEF Claude, OnRow
<1>1. call'[r].pc = "idle" /\ \A s \in Refreshers \ {r} : call'[s] = call[s]
    BY DEF TypeOK, Stop, Idle
<1>2. InFlight'
    BY <1>1 DEF Broken, InFlight
<1>3. CASE call[r].pc = "commit" /\ OnRow(r)
    <2>1. Busy(r)
        BY <1>3 DEF Busy
    <2>2. Present /\ row.token # issued
        BY <1>3, <2>1, BusyPresent DEF Broken, InFlight
    <2>3. \A s \in Refreshers : ~(OnRow(s) /\ call[s].pc = "commit")'
        BY <1>1, <2>1, Alone DEF Busy
    <2>4. ~ChainWhole'
        BY <2>2, <2>3 DEF ChainWhole
    <2>5. Chain' = "broken" /\ Alarm' = Alarm
        BY <2>2, <2>4 DEF Chain, Alarm, Present
    <2>6. Chain \in {"moving", "broken"}
        BY <2>2 DEF Chain
    <2>7. Step
        <3>1. CASE Chain = "moving"
            BY <2>5, <3>1 DEF Step, Abstract!Next, Abstract!Break
        <3>2. CASE Chain = "broken"
            BY <2>5, <3>2, Stutter
        <3> QED BY <2>6, <3>1, <3>2
    <2> QED BY <1>2, <2>4, <2>7 DEF Broken
<1>4. CASE ~(call[r].pc = "commit" /\ OnRow(r))
    <2>1. ChainWhole' = ChainWhole
        BY <1>1, <1>4 DEF ChainWhole
    <2>2. Broken'
        BY <1>2, <1>4, <2>1 DEF Broken, Present
    <2> QED BY <2>1, <2>2, SameChain
<1> QED BY <1>3, <1>4

LEMMA RejectStep ==
    ASSUME Claude, NEW r \in Refreshers, Reject(r)
    PROVE  Step /\ Broken'
<1> USE DEF Claude, Reject, Redeeming, OnRow
<1>1. /\ call[r].pc = "redeem" /\ call'[r].pc = "revoke"
      /\ \A s \in Refreshers \ {r} : call'[s] = call[s]
    BY DEF TypeOK, Calls
<1>2. ChainWhole' = ChainWhole
    BY <1>1 DEF ChainWhole
<1>3. Broken'
    BY <1>1, <1>2 DEF Broken, InFlight, Present
<1> QED BY <1>2, <1>3, SameChain

(* The successor is stored, and nobody had reported the row revoked.          *)
LEMMA CommitStep ==
    ASSUME Claude, NEW r \in Refreshers, Commit(r)
    PROVE  Step /\ Broken'
<1> USE DEF Claude, Commit, OnRow
<1>1. Busy(r) /\ Present
    BY BusyPresent DEF Busy
<1>2. row.token # issued /\ row.health # "revoked" /\ call[r].token = issued
    BY DEF Broken, InFlight, Guarded, Carried
<1>3. row'.id = row.id /\ row'.token = issued' /\ row'.health = "healthy"
    BY <1>2 DEF TypeOK, Rows
<1>4. call[r] = [pc |-> "commit", id |-> row.id, token |-> issued]
    BY <1>2 DEF TypeOK, Calls
<1>5. ChainWhole /\ ChainWhole'
    BY <1>3, <1>4 DEF ChainWhole
<1>6. \A s \in Refreshers : ~(OnRow(s) /\ call[s].pc = "commit")'
    BY <1>1, <1>3, Alone DEF TypeOK, Busy, Stop, Idle
<1>7. Broken'
    BY <1>1, <1>5, <1>6 DEF Broken, InFlight
<1>8. Alarm' = Alarm
    BY <1>2, <1>3 DEF Alarm
<1>9. CASE dead
    BY <1>1, <1>3, <1>7, <1>8, <1>9, Stutter DEF Chain, Present
<1>10. CASE ~dead
    <2>1. Chain = "moving" /\ Chain' = "whole"
        BY <1>1, <1>2, <1>3, <1>5, <1>10 DEF Chain, Present
    <2> QED BY <1>7, <1>8, <2>1 DEF Step, Abstract!Next, Abstract!Store
<1> QED BY <1>9, <1>10

(* Only a broken chain is reported.                                           *)
LEMMA RevokeStep ==
    ASSUME Claude, NEW r \in Refreshers, Revoke(r)
    PROVE  Step /\ Broken'
<1> USE DEF Claude, Revoke, OnRow
<1>1. /\ call[r].pc = "revoke" /\ call'[r].pc = "idle"
      /\ \A s \in Refreshers \ {r} : call'[s] = call[s]
    BY DEF TypeOK, Stop, Idle
<1>2. CASE UNCHANGED row
    <2>1. ChainWhole' = ChainWhole
        BY <1>1, <1>2 DEF ChainWhole
    <2>2. Broken'
        BY <1>1, <1>2, <2>1 DEF Broken, InFlight, Present
    <2> QED BY <1>2, <2>1, <2>2, SameChain
<1>3. CASE OnRow(r) /\ row' # row
    <2>1. row'.id = row.id /\ row'.token = row.token /\ row'.health = "revoked"
        BY <1>3 DEF TypeOK, Rows
    <2>2. Busy(r) /\ Present
        BY <1>1, <1>3, BusyPresent DEF Busy
    <2>3. dead \/ lost
        BY <1>1, <1>3 DEF Guarded, Carried
    <2>4. ChainWhole' = ChainWhole
        BY <1>1, <2>1 DEF ChainWhole
    <2>5. Chain = "broken" /\ Chain' = "broken" /\ Alarm'
        BY <2>1, <2>2, <2>3, <2>4 DEF Chain, Alarm, Present, Broken
    <2>6. \A s \in Refreshers : ~(OnRow(s) /\ call[s].pc = "commit")'
        BY <1>1, <2>1, <2>2, Alone DEF Busy
    <2>7. Broken'
        BY <2>1, <2>4, <2>6 DEF Broken, InFlight, Present
    <2>8. Abstract!Report
        BY <2>5 DEF Abstract!Report, Alarm
    <2> QED BY <2>7, <2>8 DEF Step, Abstract!Next
<1> QED BY <1>2, <1>3

LEMMA LockOpensStep ==
    ASSUME Claude, LockOpens
    PROVE  Step /\ Broken'
<1> USE DEF Claude, LockOpens, OnRow
<1>1. row'.id = row.id /\ row'.token = row.token /\ row'.health = row.health
    BY DEF TypeOK, Rows
<1>2. ChainWhole' = ChainWhole
    BY <1>1 DEF ChainWhole
<1>3. Broken'
    BY <1>1, <1>2 DEF Broken, InFlight, Present
<1> QED BY <1>1, <1>2, <1>3, SameChain

(* A login starts a chain that no refresh in progress belongs to.             *)
LEMMA StoreStep ==
    ASSUME Claude, Store
    PROVE  Step /\ Broken'
<1> USE DEF Claude, Store, OnRow
<1>1. rows \in Nat
    BY CredentialAssumption DEF TypeOK, RowIds
<1>2. /\ row'.id = rows + 1 /\ row'.token = issued' /\ row'.health = "healthy"
      /\ ~dead' /\ ~lost'
    BY DEF NewRow
<1>3. \A r \in Refreshers : ~(OnRow(r) /\ call[r].pc = "commit")'
    BY <1>1, <1>2 DEF Ids
<1>4. Chain' = "whole" /\ Alarm' = FALSE
    BY <1>1, <1>2 DEF Chain, Alarm, Present, ChainWhole
<1>5. Broken'
    BY <1>2, <1>3 DEF Broken, InFlight
<1> QED BY <1>4, <1>5 DEF Step, Abstract!Next, Abstract!LogIn

LEMMA DisconnectStep ==
    ASSUME Claude, Disconnect
    PROVE  Step /\ Broken'
<1> USE DEF Claude, Disconnect, OnRow
<1>1. row'.id = 0 /\ row'.health = "healthy" /\ call' = call
    BY DEF NoRow
<1>2. Chain' = "none" /\ Alarm' = FALSE
    BY <1>1 DEF Chain, Alarm, Present
<1>3. Broken'
    BY <1>1 DEF Broken, InFlight, Present, Ids
<1> QED BY <1>2, <1>3 DEF Step, Abstract!Next, Abstract!Disconnect

LEMMA EndSessionStep ==
    ASSUME Claude, EndSession
    PROVE  Step /\ Broken'
<1> USE DEF Claude, EndSession, OnRow
<1>1. ChainWhole' = ChainWhole /\ Present' = Present /\ Alarm' = Alarm
    BY DEF ChainWhole, Present, Alarm
<1>2. Broken'
    BY <1>1 DEF Broken, InFlight
<1>3. CASE Present
    <2>1. Chain' = "broken" /\ Chain \in {"whole", "moving", "broken"}
        BY <1>1, <1>3 DEF Chain
    <2>2. CASE Chain = "broken"
        BY <1>1, <1>2, <2>1, <2>2, Stutter
    <2>3. CASE Chain # "broken"
        BY <1>1, <1>2, <2>1, <2>3 DEF Step, Abstract!Next, Abstract!Break
    <2> QED BY <2>2, <2>3
<1>4. CASE ~Present
    BY <1>1, <1>2, <1>4, Stutter DEF Chain
<1> QED BY <1>3, <1>4

LEMMA ClaudeStep ==
    ASSUME Claude, [Next]_vars
    PROVE  Step /\ Broken'
<1>1. CASE \E b \in Brokers : Acquire(b) \/ Manage(b) \/ Heartbeat(b)
    BY <1>1, ElsewhereStep DEF Acquire, Manage, Heartbeat
<1>2. CASE \E b \in Brokers : BrokerLock(b)
    BY <1>2, TakeLockStep DEF BrokerLock, Refreshers
<1>3. CASE \E b \in Brokers : BrokerStops(b)
    BY <1>3, StopStep DEF BrokerStops, Dies, Refreshers
<1>4. CASE \E r \in Refreshers : Redeem(r)
    BY <1>4, RedeemStep
<1>5. CASE \E r \in Refreshers : RedeemUnheard(r)
    BY <1>5, RedeemUnheardStep
<1>6. CASE \E r \in Refreshers : Reject(r)
    BY <1>6, RejectStep
<1>7. CASE \E r \in Refreshers : RedeemFails(r)
    <2>1. PICK r \in Refreshers : RedeemFails(r)
        BY <1>7
    <2>2. lost' = (lost \/ (call[r].pc = "commit" /\ OnRow(r)))
        BY <2>1 DEF RedeemFails, Claude, TypeOK
    <2> QED BY <2>1, <2>2, StopStep DEF RedeemFails
<1>8. CASE \E r \in Refreshers : Commit(r)
    BY <1>8, CommitStep
<1>9. CASE \E r \in Refreshers : CommitFails(r)
    <2>1. PICK r \in Refreshers : CommitFails(r)
        BY <1>9
    <2>2. lost' = (lost \/ (call[r].pc = "commit" /\ OnRow(r)))
        BY <2>1 DEF CommitFails
    <2> QED BY <2>1, <2>2, StopStep DEF CommitFails
<1>10. CASE \E r \in Refreshers : Revoke(r)
    BY <1>10, RevokeStep
<1>11. CASE \E r \in Refreshers : ServerDies(r)
    BY <1>11, StopStep DEF ServerDies, Dies
<1>12. CASE \E w \in Workers : WorkerStep(w)
    BY <1>12 DEF WorkerStep, SeedHome, CliRefresh, WriteBack, Claude, Guarded, NoBypass
<1>13. CASE ServerLock
    BY <1>13, TakeLockStep DEF ServerLock, Refreshers
<1>14. CASE VerifyRead
    BY <1>14 DEF VerifyRead, Claude
<1>15. CASE LockOpens
    BY <1>15, LockOpensStep
<1>16. CASE Lapse \/ GuardRead \/ GuardDelete
    BY <1>16, ElsewhereStep DEF Lapse, GuardRead, GuardDelete
<1>17. CASE EndSession
    BY <1>17, EndSessionStep
<1>18. CASE Store
    BY <1>18, StoreStep
<1>19. CASE Disconnect
    BY <1>19, DisconnectStep
<1>20. CASE UNCHANGED vars
    BY <1>20, ElsewhereStep DEF vars
<1> QED BY <1>1, <1>2, <1>3, <1>4, <1>5, <1>6, <1>7, <1>8, <1>9, <1>10, <1>11,
           <1>12, <1>13, <1>14, <1>15, <1>16, <1>17, <1>18, <1>19, <1>20
       DEF Next, BrokerStep, RefreshStep

RInv == IInv /\ (~codex => Broken)

LEMMA InitRInv == Init => RInv /\ Abstract!Init
<1> SUFFICES ASSUME Init PROVE RInv /\ Abstract!Init
    OBVIOUS
<1>1. Broken
    BY DEF Init, Broken, InFlight, Idle
<1>2. Alarm = FALSE
    BY DEF Init, NewRow, Alarm
<1>3. Chain \in {"none", "whole"}
    BY DEF Init, NewRow, Chain, ChainWhole, Present
<1> QED BY <1>1, <1>2, <1>3, InitIInv DEF RInv, Abstract!Init

LEMMA NextRInv == RInv /\ [Next]_vars => RInv' /\ Step
<1> SUFFICES ASSUME RInv, [Next]_vars PROVE RInv' /\ Step
    OBVIOUS
<1>1. IInv' /\ codex' = codex
    BY NextIInv, SamePurpose DEF RInv
<1>2. CASE codex
    BY <1>1, <1>2, Stutter DEF RInv, Chain, Alarm
<1>3. CASE ~codex
    BY <1>1, <1>3, ClaudeStep DEF RInv, IInv, Claude
<1> QED BY <1>2, <1>3

(* To its team a Claude credential is a token chain that breaks only at the   *)
(* provider or when a successor is lost, is reported revoked only when it is  *)
(* broken, and is mended by nothing but a new login, however many brokers and *)
(* servers refresh it.                                                        *)
THEOREM Implements == Spec => KeepsChain
<1>1. Init => RInv /\ Abstract!Init
    BY InitRInv
<1>2. RInv /\ [Next]_vars => RInv' /\ [Abstract!Next]_(Abstract!vars)
    BY NextRInv DEF Step
<1> QED BY <1>1, <1>2, PTL DEF Spec, KeepsChain, Abstract!Spec
==============================================================================
