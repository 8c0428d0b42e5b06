---------------------------- MODULE OutboxProofs -----------------------------
(* Type correctness of Outbox, OnePatchPerWorker and Serviced, for any number *)
(* of workers, requests and flush() calls in progress.                        *)
EXTENDS Outbox, SequenceTheorems, NaturalsInduction, WellFoundedInduction, TLAPS

Endpoints == Workers \cup Saves
Calls(n) == [on : BOOLEAN, todo : Seq(1..n), kept : Seq(1..n), shared : BOOLEAN]

(* Two requests that the outbox may not hold together: a request and itself,  *)
(* and two PATCHes of one worker.  s stands for sent.                         *)
Clash(s, a, b) == a = b \/ (s[a] \in Workers /\ s[a] = s[b])

Apart(s, p, q) == \A i \in DOMAIN p, j \in DOMAIN q : ~Clash(s, p[i], q[j])

Clean(s, q) == \A i, j \in DOMAIN q : i # j => ~Clash(s, q[i], q[j])

(* What a flush keeps and what it has left to replay would be an outbox.      *)
Mergeable(s, r) == Clean(s, r.kept) /\ Clean(s, r.todo) /\ Apart(s, r.kept, r.todo)

Shapes ==
    /\ sent \in Seq(Endpoints)
    /\ retries \in Seq(Nat) /\ Len(retries) = Len(sent)
    /\ saved \in Seq(Nat) /\ Len(saved) = Len(sent)
    /\ entries \in Seq(1..Len(sent))
    /\ timer \in BOOLEAN /\ boot \in BOOLEAN
    /\ flush \in [Flushes -> Calls(Len(sent))]

Unique ==
    /\ Clean(sent, entries)
    /\ \A f \in Flushes : Mergeable(sent, flush[f])

IInv == Shapes /\ Unique /\ Serviced

----------------------------------------------------------------------------
(* Natural numbers have a least one: induction over the length of the outbox. *)
LEMMA Least ==
    ASSUME NEW T, T \subseteq Nat, T # {}
    PROVE  \E x \in T : \A y \in T : ~(y < x)
<1>1. IsWellFoundedOn(OpToRel(<, Nat), Nat)
    BY NatLessThanWellFounded, Zenon
<1>2. PICK x \in T : \A y \in T : ~(<<y, x>> \in OpToRel(<, Nat))
    BY <1>1, WFMin, Zenon
<1>3. \A y \in T : <<y, x>> \in OpToRel(<, Nat) <=> y < x
    BY DEF OpToRel
<1> QED BY <1>2, <1>3, Zenon

(* What filter() keeps, for any list and any endpoint.                        *)
Step(s, ep, q, g, n) ==
    IF n = 0 THEN <<>>
    ELSE IF s[q[n]] = ep THEN g[n - 1]
    ELSE Append(g[n - 1], q[n])

Filters(s, ep, q, m, g) == g = [n \in 0..m |-> Step(s, ep, q, g, n)]

(* h is a clean list of entries of q, none of them a request to ep.           *)
Remainder(S, s, ep, q, h) ==
    /\ h \in Seq(S) /\ Clean(s, h)
    /\ \A i \in DOMAIN h : \E k \in DOMAIN q : h[i] = q[k] /\ s[q[k]] # ep

LEMMA FilterExists ==
    ASSUME NEW s, NEW ep, NEW q, NEW m \in Nat
    PROVE  \E g : Filters(s, ep, q, m, g)
<1> DEFINE T == {n \in Nat : ~\E g : Filters(s, ep, q, n, g)}
<1> SUFFICES T = {}
    OBVIOUS
<1> SUFFICES ASSUME T # {}
             PROVE  FALSE
    OBVIOUS
<1>1. PICK x \in T : \A y \in T : ~(y < x)
    BY Least
<1>2. x # 0
    <2> DEFINE g == [n \in 0..0 |-> <<>>]
    <2>1. g = [n \in 0..0 |-> Step(s, ep, q, g, n)]
        BY DEF Step
    <2>2. Filters(s, ep, q, 0, g)
        BY <2>1 DEF Filters
    <2> QED BY <1>1, <2>2
<1>3. PICK h : Filters(s, ep, q, x - 1, h)
    BY <1>1, <1>2
<1> DEFINE g == [n \in 0..x |-> IF n = x THEN Step(s, ep, q, h, x) ELSE h[n]]
<1>4. ASSUME NEW n \in 0..x
      PROVE  g[n] = Step(s, ep, q, g, n)
    <2>1. n # 0 => n - 1 \in 0..x /\ n - 1 # x /\ g[n - 1] = h[n - 1]
        BY <1>1
    <2>2. Step(s, ep, q, g, n) = Step(s, ep, q, h, n)
        BY <2>1 DEF Step
    <2>3. n # x => n \in 0..(x - 1) /\ g[n] = h[n]
        BY <1>1
    <2>4. n # x => h[n] = Step(s, ep, q, h, n)
        BY <1>3, <2>3 DEF Filters
    <2> QED BY <2>2, <2>3, <2>4
<1>5. g = [n \in 0..x |-> Step(s, ep, q, g, n)]
    BY <1>4
<1>6. Filters(s, ep, q, x, g)
    BY <1>5 DEF Filters
<1> QED BY <1>1, <1>6

LEMMA FilterKeeps ==
    ASSUME NEW S, NEW s, NEW ep, NEW q \in Seq(S), Clean(s, q),
           NEW g, Filters(s, ep, q, Len(q), g)
    PROVE  Remainder(S, s, ep, q, g[Len(q)])
<1> DEFINE Sound(n) == /\ g[n] \in Seq(S) /\ Clean(s, g[n])
                       /\ \A i \in DOMAIN g[n] :
                             \E k \in 1..n : g[n][i] = q[k] /\ s[q[k]] # ep
           T == {n \in Nat : n <= Len(q) /\ ~Sound(n)}
<1>0. Len(q) \in Nat /\ DOMAIN q = 1..Len(q) /\ \A k \in 1..Len(q) : q[k] \in S
    BY LenProperties, ElementOfSeq
<1>1. \A n \in 0..Len(q) : g[n] = Step(s, ep, q, g, n)
    BY DEF Filters
<1>2. T = {}
    <2> SUFFICES ASSUME T # {}
                 PROVE  FALSE
        OBVIOUS
    <2>1. PICK x \in T : \A y \in T : ~(y < x)
        BY Least
    <2>2. x \in 0..Len(q) /\ ~Sound(x)
        BY <1>0, <2>1
    <2>3. x # 0
        <3>1. g[0] = <<>>
            BY <1>0, <1>1 DEF Step
        <3>2. Sound(0)
            BY <3>1 DEF Clean
        <3> QED BY <2>2, <3>2
    <2>4. Sound(x - 1) /\ x - 1 \in 0..Len(q) /\ x \in 1..Len(q)
        BY <1>0, <2>1, <2>2, <2>3
    <2> DEFINE h == g[x - 1]
               e == q[x]
    <2>5. CASE s[e] = ep
        <3>1. g[x] = h
            BY <1>1, <2>2, <2>3, <2>5 DEF Step
        <3>2. Sound(x)
            BY <2>4, <3>1
        <3> QED BY <2>2, <3>2
    <2>6. CASE s[e] # ep
        <3>1. g[x] = Append(h, e)
            BY <1>1, <2>2, <2>3, <2>6 DEF Step
        <3>2. h \in Seq(S) /\ e \in S /\ Len(h) \in Nat /\ DOMAIN h = 1..Len(h)
            BY <1>0, <2>4, LenProperties
        <3>3. /\ g[x] \in Seq(S) /\ Len(g[x]) = Len(h) + 1
              /\ \A i \in 1..Len(h) : g[x][i] = h[i]
              /\ g[x][Len(h) + 1] = e
            BY <3>1, <3>2, AppendProperties
        <3>4. DOMAIN g[x] = 1..(Len(h) + 1)
            BY <3>3, LenProperties
        <3>5. \A i \in DOMAIN h : \E k \in 1..(x - 1) : h[i] = q[k] /\ s[q[k]] # ep
            BY <2>4
        <3>6. \A i \in DOMAIN h : ~Clash(s, h[i], e) /\ ~Clash(s, e, h[i])
            <4> SUFFICES ASSUME NEW i \in DOMAIN h
                         PROVE  ~Clash(s, h[i], e) /\ ~Clash(s, e, h[i])
                OBVIOUS
            <4>1. PICK k \in 1..(x - 1) : h[i] = q[k]
                BY <3>5
            <4>2. k \in DOMAIN q /\ x \in DOMAIN q /\ k # x
                BY <1>0, <2>4
            <4> HIDE DEF h
            <4> QED BY <4>1, <4>2 DEF Clean
        <3> HIDE DEF h, e
        <3>7. Clean(s, h)
            BY <2>4 DEF h
        <3>8. Clean(s, g[x])
            BY <3>2, <3>3, <3>4, <3>6, <3>7 DEF Clean
        <3>9. \A i \in DOMAIN g[x] : \E k \in 1..x : g[x][i] = q[k] /\ s[q[k]] # ep
            <4>1. ASSUME NEW i \in DOMAIN h
                  PROVE  \E k \in 1..x : g[x][i] = q[k] /\ s[q[k]] # ep
                <5>1. PICK k \in 1..(x - 1) : h[i] = q[k] /\ s[q[k]] # ep
                    BY <3>5
                <5>2. g[x][i] = h[i]
                    BY <3>2, <3>3
                <5>3. k \in 1..x
                    BY <2>4
                <5> QED BY <5>1, <5>2, <5>3
            <4>2. \E k \in 1..x : g[x][Len(h) + 1] = q[k] /\ s[q[k]] # ep
                BY <2>4, <2>6, <3>3 DEF e
            <4> QED BY <3>2, <3>4, <4>1, <4>2
        <3> QED BY <2>2, <3>3, <3>8, <3>9
    <2> QED BY <2>5, <2>6
<1> HIDE DEF Sound
<1>3. Sound(Len(q))
    BY <1>0, <1>2
<1> QED BY <1>0, <1>3 DEF Sound, Remainder

LEMMA PatchRemoved ==
    ASSUME entries \in Seq(1..Len(sent)), Clean(sent, entries), NEW ep
    PROVE  /\ WithoutPatchOf(ep) \in Seq(1..Len(sent))
           /\ Clean(sent, WithoutPatchOf(ep))
           /\ \A i \in DOMAIN WithoutPatchOf(ep) : sent[WithoutPatchOf(ep)[i]] # ep
<1> DEFINE g == CHOOSE kept : kept = [n \in 0..Len(entries) |->
                    IF n = 0 THEN <<>>
                    ELSE IF sent[entries[n]] = ep THEN kept[n - 1]
                    ELSE Append(kept[n - 1], entries[n])]
<1>1. WithoutPatchOf(ep) = g[Len(entries)]
    BY Zenon DEF WithoutPatchOf
<1>2. Len(entries) \in Nat
    BY LenProperties
<1>3. Filters(sent, ep, entries, Len(entries), g)
    <2>1. g = CHOOSE h : Filters(sent, ep, entries, Len(entries), h)
        BY Zenon DEF Filters, Step
    <2> HIDE DEF g
    <2> QED BY <1>2, <2>1, FilterExists, Zenon
<1> HIDE DEF g
<1>4. Remainder(1..Len(sent), sent, ep, entries, g[Len(entries)])
    BY <1>3, FilterKeeps
<1> QED BY <1>1, <1>4 DEF Remainder

----------------------------------------------------------------------------
(* Lists that gain a request, and lists that are replayed.                    *)
LEMMA CleanAppend ==
    ASSUME NEW S, NEW s, NEW q \in Seq(S), Clean(s, q), NEW e \in S,
           \A i \in DOMAIN q : ~Clash(s, q[i], e) /\ ~Clash(s, e, q[i])
    PROVE  Append(q, e) \in Seq(S) /\ Clean(s, Append(q, e))
<1>1. /\ Append(q, e) \in Seq(S) /\ Len(Append(q, e)) = Len(q) + 1
      /\ \A i \in 1..Len(q) : Append(q, e)[i] = q[i]
      /\ Append(q, e)[Len(q) + 1] = e
    BY AppendProperties
<1>2. /\ Len(q) \in Nat /\ DOMAIN q = 1..Len(q)
      /\ DOMAIN Append(q, e) = 1..(Len(q) + 1)
    BY <1>1, LenProperties
<1> DEFINE a == Append(q, e)
<1>3. \A i \in DOMAIN a : (i \in DOMAIN q /\ a[i] = q[i]) \/ (i = Len(q) + 1 /\ a[i] = e)
    <2> SUFFICES ASSUME NEW i \in 1..(Len(q) + 1)
                 PROVE  (i \in DOMAIN q /\ a[i] = q[i]) \/ (i = Len(q) + 1 /\ a[i] = e)
        BY <1>2
    <2>1. i \in 1..Len(q) \/ i = Len(q) + 1
        BY <1>2
    <2> QED BY <1>1, <1>2, <2>1
<1> HIDE DEF a
<1>4. Clean(s, a)
    BY <1>3 DEF Clean
<1> QED BY <1>1, <1>4 DEF a

LEMMA ApartAppend ==
    ASSUME NEW S, NEW s, NEW p \in Seq(S), NEW q \in Seq(S), Apart(s, p, q), NEW e \in S,
           \A i \in DOMAIN p : ~Clash(s, p[i], e)
    PROVE  Apart(s, p, Append(q, e))
<1>1. /\ Append(q, e) \in Seq(S) /\ Len(Append(q, e)) = Len(q) + 1
      /\ \A i \in 1..Len(q) : Append(q, e)[i] = q[i]
      /\ Append(q, e)[Len(q) + 1] = e
    BY AppendProperties
<1>2. /\ Len(q) \in Nat /\ DOMAIN q = 1..Len(q)
      /\ DOMAIN Append(q, e) = 1..(Len(q) + 1)
    BY <1>1, LenProperties
<1> DEFINE a == Append(q, e)
<1>3. \A i \in DOMAIN a : (i \in DOMAIN q /\ a[i] = q[i]) \/ (i = Len(q) + 1 /\ a[i] = e)
    <2> SUFFICES ASSUME NEW i \in 1..(Len(q) + 1)
                 PROVE  (i \in DOMAIN q /\ a[i] = q[i]) \/ (i = Len(q) + 1 /\ a[i] = e)
        BY <1>2
    <2>1. i \in 1..Len(q) \/ i = Len(q) + 1
        BY <1>2
    <2> QED BY <1>1, <1>2, <2>1
<1> HIDE DEF a
<1>4. Apart(s, p, a)
    BY <1>3 DEF Apart
<1> QED BY <1>4 DEF a

LEMMA Replayed ==
    ASSUME NEW S, NEW s, NEW p \in Seq(S), NEW q \in Seq(S), q # <<>>,
           Clean(s, p), Clean(s, q), Apart(s, p, q)
    PROVE  /\ Head(q) \in S /\ Tail(q) \in Seq(S)
           /\ Clean(s, Tail(q)) /\ Apart(s, p, Tail(q))
           /\ Append(p, Head(q)) \in Seq(S) /\ Clean(s, Append(p, Head(q)))
           /\ Apart(s, Append(p, Head(q)), Tail(q))
<1> DEFINE e == Head(q)
           r == Tail(q)
           a == Append(p, e)
<1>1. /\ Len(q) \in Nat /\ Len(q) > 0 /\ DOMAIN q = 1..Len(q)
      /\ Len(p) \in Nat /\ DOMAIN p = 1..Len(p)
    BY LenProperties, EmptySeq
<1>2. /\ e \in S /\ e = q[1] /\ r \in Seq(S) /\ Len(r) = Len(q) - 1
      /\ \A i \in 1..(Len(q) - 1) : r[i] = q[i + 1]
    BY <1>1, HeadTailProperties
<1>3. DOMAIN r = 1..(Len(q) - 1)
    BY <1>2, LenProperties
<1> HIDE DEF e, r
<1>4. \A i \in DOMAIN r : i + 1 \in DOMAIN q /\ r[i] = q[i + 1] /\ i + 1 # 1
    BY <1>1, <1>2, <1>3
<1>5. \A i, j \in DOMAIN r : i # j => i + 1 # j + 1
    BY <1>3
<1>6. Clean(s, r)
    BY <1>4, <1>5 DEF Clean
<1>7. Apart(s, p, r)
    BY <1>4 DEF Apart
<1>8. 1 \in DOMAIN q
    BY <1>1
<1>9. \A i \in DOMAIN p : ~Clash(s, p[i], e) /\ ~Clash(s, e, p[i])
    BY <1>2, <1>8 DEF Apart, Clash
<1>10. a \in Seq(S) /\ Clean(s, a)
    BY <1>2, <1>9, CleanAppend
<1>11. /\ Len(a) = Len(p) + 1 /\ a[Len(p) + 1] = e
       /\ \A i \in 1..Len(p) : a[i] = p[i]
    BY <1>2, AppendProperties
<1>12. \A i \in DOMAIN a : (i \in DOMAIN p /\ a[i] = p[i]) \/ a[i] = e
    BY <1>1, <1>10, <1>11, LenProperties
<1>13. \A j \in DOMAIN r : ~Clash(s, e, r[j])
    BY <1>2, <1>4, <1>8 DEF Clean
<1> HIDE DEF a
<1>14. Apart(s, a, r)
    BY <1>7, <1>12, <1>13 DEF Apart
<1> QED BY <1>2, <1>6, <1>7, <1>10, <1>14 DEF a, e, r

(* A new request leaves the old ones their endpoints.                         *)
LEMMA StillClean ==
    ASSUME NEW s \in Seq(Endpoints), NEW ep \in Endpoints,
           NEW p \in Seq(1..Len(s)), NEW q \in Seq(1..Len(s))
    PROVE  /\ Clean(s, q) => Clean(Append(s, ep), q)
           /\ Apart(s, p, q) => Apart(Append(s, ep), p, q)
           /\ q \in Seq(1..(Len(s) + 1))
           /\ \A i \in DOMAIN q : q[i] # Len(s) + 1 /\ q[i] \in 1..Len(s)
                                  /\ Append(s, ep)[q[i]] = s[q[i]]
<1>1. \A i \in 1..Len(s) : Append(s, ep)[i] = s[i]
    BY AppendProperties
<1>2. Len(s) \in Nat
    BY LenProperties
<1>3. /\ \A i \in DOMAIN p : p[i] \in 1..Len(s)
      /\ \A i \in DOMAIN q : q[i] \in 1..Len(s)
    BY LenProperties, ElementOfSeq
<1>4. 1..Len(s) \subseteq 1..(Len(s) + 1)
    BY <1>2
<1>5. q \in Seq(1..(Len(s) + 1))
    BY <1>4
<1>6. Clean(s, q) => Clean(Append(s, ep), q)
    BY <1>1, <1>3 DEF Clean, Clash
<1>7. Apart(s, p, q) => Apart(Append(s, ep), p, q)
    BY <1>1, <1>3 DEF Apart, Clash
<1>8. \A i \in DOMAIN q : q[i] # Len(s) + 1 /\ q[i] \in 1..Len(s)
                         /\ Append(s, ep)[q[i]] = s[q[i]]
    <2> TAKE i \in DOMAIN q
    <2>1. q[i] \in 1..Len(s)
        BY <1>3
    <2>2. q[i] # Len(s) + 1
        BY <1>2, <2>1
    <2> QED BY <1>1, <2>1, <2>2
<1> QED BY <1>5, <1>6, <1>7, <1>8

(* The new request joins a list that holds no PATCH of its worker.            *)
LEMMA Joins ==
    ASSUME NEW s \in Seq(Endpoints), NEW ep \in Endpoints, NEW q \in Seq(1..Len(s)),
           Clean(s, q), \A i \in DOMAIN q : ep \in Workers => s[q[i]] # ep
    PROVE  /\ \A i \in DOMAIN q : ~Clash(Append(s, ep), q[i], Len(s) + 1)
           /\ Append(q, Len(s) + 1) \in Seq(1..(Len(s) + 1))
           /\ Clean(Append(s, ep), Append(q, Len(s) + 1))
<1> DEFINE t == Append(s, ep)
           e == Len(s) + 1
           S == 1..(Len(s) + 1)
<1>1. t[e] = ep /\ e \in S
    BY AppendProperties, LenProperties
<1>2. /\ Clean(t, q) /\ q \in Seq(S)
      /\ \A i \in DOMAIN q : q[i] # e /\ t[q[i]] = s[q[i]]
    BY StillClean
<1> HIDE DEF t, e, S
<1>3. \A i \in DOMAIN q : ~Clash(t, q[i], e) /\ ~Clash(t, e, q[i])
    BY <1>1, <1>2 DEF Clash
<1>4. Append(q, e) \in Seq(S) /\ Clean(t, Append(q, e))
    BY <1>1, <1>2, <1>3, CleanAppend
<1> QED BY <1>3, <1>4 DEF t, e, S

(* A flush in progress when a request is queued, on another array or on the   *)
(* same one.                                                                  *)
LEMMA Apiece ==
    ASSUME NEW s \in Seq(Endpoints), NEW ep \in Endpoints,
           NEW r \in Calls(Len(s)), Mergeable(s, r)
    PROVE  r \in Calls(Len(s) + 1) /\ Mergeable(Append(s, ep), r)
<1>1. r.kept \in Seq(1..Len(s)) /\ r.todo \in Seq(1..Len(s))
    BY DEF Calls
<1>2. /\ r.kept \in Seq(1..(Len(s) + 1)) /\ r.todo \in Seq(1..(Len(s) + 1))
      /\ Clean(Append(s, ep), r.kept) /\ Clean(Append(s, ep), r.todo)
      /\ Apart(Append(s, ep), r.kept, r.todo)
    BY <1>1, StillClean DEF Mergeable
<1> QED BY <1>2 DEF Calls, Mergeable

LEMMA Together ==
    ASSUME NEW s \in Seq(Endpoints), NEW ep \in Saves, ep \notin Workers,
           NEW r \in Calls(Len(s)), Mergeable(s, r)
    PROVE  /\ [r EXCEPT !.todo = Append(@, Len(s) + 1)] \in Calls(Len(s) + 1)
           /\ Mergeable(Append(s, ep), [r EXCEPT !.todo = Append(@, Len(s) + 1)])
<1> DEFINE p == r.kept
           q == r.todo
           t == Append(s, ep)
           e == Len(s) + 1
           S == 1..(Len(s) + 1)
<1>1. p \in Seq(1..Len(s)) /\ q \in Seq(1..Len(s)) /\ ep \in Endpoints
    BY DEF Calls, Endpoints
<1>2. Clean(s, p) /\ Clean(s, q) /\ Apart(s, p, q)
    BY DEF Mergeable
<1>3. Append(q, e) \in Seq(S) /\ Clean(t, Append(q, e))
    BY <1>1, <1>2, Joins
<1>4. \A i \in DOMAIN p : ~Clash(t, p[i], e)
    BY <1>1, <1>2, Joins
<1>5. p \in Seq(S) /\ q \in Seq(S) /\ Clean(t, p) /\ Apart(t, p, q)
    BY <1>1, <1>2, StillClean
<1>6. e \in S
    BY <1>1, LenProperties
<1> DEFINE x == [r EXCEPT !.todo = Append(@, e)]
<1>7. /\ x.kept = p /\ x.todo = Append(q, e)
      /\ x \in [on : BOOLEAN, todo : {Append(q, e)}, kept : {p}, shared : BOOLEAN]
    BY DEF Calls
<1> HIDE DEF p, q, t, e, S, x
<1>8. Apart(t, p, Append(q, e))
    BY <1>4, <1>5, <1>6, ApartAppend
<1>9. x \in [on : BOOLEAN, todo : Seq(S), kept : Seq(S), shared : BOOLEAN]
    BY <1>3, <1>5, <1>7
<1>10. Mergeable(t, x)
    BY <1>3, <1>5, <1>7, <1>8 DEF Mergeable
<1> QED BY <1>9, <1>10 DEF p, q, t, e, S, x, Calls

----------------------------------------------------------------------------
(* Every step keeps what the outbox and the flushes hold.                     *)
LEMMA EnqueueKeeps ==
    ASSUME Shapes, Unique, NEW ep \in Endpoints, Enqueue(ep)
    PROVE  Shapes' /\ Unique'
<1> DEFINE n == Len(sent)
           t == Append(sent, ep)
<1> USE DEF Endpoints
<1>1. /\ sent \in Seq(Endpoints) /\ entries \in Seq(1..n) /\ n \in Nat
      /\ flush \in [Flushes -> Calls(n)]
      /\ Clean(sent, entries) /\ \A f \in Flushes : Mergeable(sent, flush[f])
    BY LenProperties DEF Shapes, Unique
<1>2. /\ sent' = t /\ t \in Seq(Endpoints) /\ Len(t) = n + 1
    BY <1>1, AppendProperties DEF Enqueue
<1>3. /\ retries' \in Seq(Nat) /\ Len(retries') = n + 1
      /\ saved' = retries' /\ timer' = TRUE /\ boot' = boot
    BY AppendProperties DEF Enqueue, Shapes
<1>4. /\ entries' \in Seq(1..(n + 1)) /\ Clean(t, entries')
      /\ flush' \in [Flushes -> Calls(n + 1)]
      /\ \A f \in Flushes : Mergeable(t, flush'[f])
    <2>1. CASE ep \in Workers
        <3> DEFINE q == WithoutPatchOf(ep)
        <3>1. /\ q \in Seq(1..n) /\ Clean(sent, q)
              /\ \A i \in DOMAIN q : sent[q[i]] # ep
            BY <1>1, PatchRemoved
        <3>2. entries' = Append(q, n + 1) /\ flush' = Unshared
            BY <2>1 DEF Enqueue
        <3> HIDE DEF q
        <3>3. entries' \in Seq(1..(n + 1)) /\ Clean(t, entries')
            BY <1>1, <3>1, <3>2, Joins
        <3>4. ASSUME NEW f \in Flushes
              PROVE  flush'[f] \in Calls(n + 1) /\ Mergeable(t, flush'[f])
            <4>1. flush[f] \in Calls(n) /\ Mergeable(sent, flush[f])
                BY <1>1
            <4>2. flush[f] \in Calls(n + 1) /\ Mergeable(t, flush[f])
                BY <1>1, <4>1, Apiece
            <4>3. flush'[f] = [flush[f] EXCEPT !.shared = FALSE]
                BY <3>2 DEF Unshared
            <4> HIDE DEF n, t
            <4> QED BY <4>2, <4>3 DEF Calls, Mergeable
        <3>5. flush' \in [Flushes -> Calls(n + 1)]
            BY <3>2, <3>4 DEF Unshared
        <3> QED BY <3>3, <3>4, <3>5
    <2>2. CASE ep \notin Workers
        <3>1. entries' = Append(entries, n + 1)
            BY <2>2 DEF Enqueue
        <3>2. entries' \in Seq(1..(n + 1)) /\ Clean(t, entries')
            BY <1>1, <2>2, <3>1, Joins
        <3>3. ep \in Saves
            BY <2>2
        <3>4. flush' = [f \in Flushes |-> IF flush[f].shared
                                          THEN [flush[f] EXCEPT !.todo = Append(@, n + 1)]
                                          ELSE flush[f]]
            BY <2>2 DEF Enqueue
        <3>5. ASSUME NEW f \in Flushes
              PROVE  flush'[f] \in Calls(n + 1) /\ Mergeable(t, flush'[f])
            <4>1. flush[f] \in Calls(n) /\ Mergeable(sent, flush[f])
                BY <1>1
            <4>2. flush[f] \in Calls(n + 1) /\ Mergeable(t, flush[f])
                BY <1>1, <4>1, Apiece
            <4>3. /\ [flush[f] EXCEPT !.todo = Append(@, n + 1)] \in Calls(n + 1)
                  /\ Mergeable(t, [flush[f] EXCEPT !.todo = Append(@, n + 1)])
                BY <1>1, <2>2, <3>3, <4>1, Together
            <4>4. flush'[f] = IF flush[f].shared
                              THEN [flush[f] EXCEPT !.todo = Append(@, n + 1)]
                              ELSE flush[f]
                BY <3>4
            <4> DEFINE x == [flush[f] EXCEPT !.todo = Append(@, n + 1)]
            <4> HIDE DEF x, n, t
            <4> QED BY <4>2, <4>3, <4>4 DEF x
        <3>6. flush' \in [Flushes -> Calls(n + 1)]
            BY <3>4, <3>5
        <3> QED BY <3>2, <3>5, <3>6
    <2> QED BY <2>1, <2>2
<1> HIDE DEF n, t
<1>5. Shapes'
    BY <1>2, <1>3, <1>4 DEF Shapes
<1>6. Unique'
    BY <1>2, <1>4 DEF Unique
<1> QED BY <1>5, <1>6

(* A flush begins with what the outbox holds.                                 *)
LEMMA BeginKeeps ==
    ASSUME Shapes, Unique, NEW f \in Flushes, Begin(f),
           timer' \in BOOLEAN, boot' \in BOOLEAN
    PROVE  Shapes' /\ Unique' /\ flush'[f].on
<1> DEFINE n == Len(sent)
           r == [on |-> TRUE, todo |-> entries, kept |-> <<>>, shared |-> TRUE]
<1>1. /\ sent' = sent /\ retries' = retries /\ entries' = entries /\ saved' = saved
      /\ flush' = [flush EXCEPT ![f] = r]
    BY DEF Begin
<1>2. entries \in Seq(1..n) /\ <<>> \in Seq(1..n) /\ DOMAIN <<>> = {}
    BY EmptySeq, LenProperties DEF Shapes
<1>3. r \in Calls(n)
    BY <1>2 DEF Calls
<1>4. Mergeable(sent, r)
    BY <1>2 DEF Mergeable, Unique, Clean, Apart
<1>5. flush \in [Flushes -> Calls(n)] /\ r.on
    BY DEF Shapes
<1> HIDE DEF r, n
<1>6. /\ flush' \in [Flushes -> Calls(n)] /\ flush'[f] = r
      /\ \A g \in Flushes : g # f => flush'[g] = flush[g]
    BY <1>1, <1>3, <1>5
<1>7. Shapes'
    BY <1>1, <1>6 DEF Shapes, n
<1>8. Unique'
    BY <1>1, <1>4, <1>6 DEF Unique
<1> QED BY <1>5, <1>6, <1>7, <1>8

(* A step of one flush that leaves everything else alone.                     *)
LEMMA OneFlush ==
    ASSUME Shapes, Unique, NEW f \in Flushes, NEW r \in Calls(Len(sent)),
           Mergeable(sent, r), flush' = [flush EXCEPT ![f] = r],
           sent' = sent, entries' = entries, saved' = saved,
           timer' \in BOOLEAN, boot' \in BOOLEAN,
           retries' \in Seq(Nat), Len(retries') = Len(retries)
    PROVE  Shapes' /\ Unique'
<1>1. /\ flush' \in [Flushes -> Calls(Len(sent))] /\ flush'[f] = r
      /\ \A g \in Flushes : g # f => flush'[g] = flush[g]
    BY DEF Shapes
<1>2. Shapes'
    BY <1>1 DEF Shapes
<1>3. Unique'
    BY <1>1 DEF Unique
<1> QED BY <1>2, <1>3

LEMMA ReplayKeeps ==
    ASSUME Shapes, Unique, NEW f \in Flushes, ReplayOk(f) \/ ReplayFails(f)
    PROVE  /\ Shapes' /\ Unique'
           /\ flush'[f].on /\ entries' = entries /\ timer' = timer /\ boot' = boot
<1> DEFINE n == Len(sent)
           p == flush[f].kept
           q == flush[f].todo
<1>1. /\ flush \in [Flushes -> Calls(n)] /\ flush[f] \in Calls(n)
      /\ p \in Seq(1..n) /\ q \in Seq(1..n) /\ q # <<>> /\ flush[f].on
      /\ flush[f].shared \in BOOLEAN
    BY DEF Shapes, Calls, ReplayOk, ReplayFails
<1>2. Clean(sent, p) /\ Clean(sent, q) /\ Apart(sent, p, q)
    BY DEF Unique, Mergeable
<1>3. /\ sent' = sent /\ entries' = entries /\ saved' = saved
      /\ timer' = timer /\ boot' = boot /\ timer' \in BOOLEAN /\ boot' \in BOOLEAN
    BY DEF ReplayOk, ReplayFails, Shapes
<1> HIDE DEF n, p, q
<1>4. /\ Head(q) \in 1..n /\ Tail(q) \in Seq(1..n)
      /\ Clean(sent, Tail(q)) /\ Apart(sent, p, Tail(q))
      /\ Append(p, Head(q)) \in Seq(1..n) /\ Clean(sent, Append(p, Head(q)))
      /\ Apart(sent, Append(p, Head(q)), Tail(q))
    BY <1>1, <1>2, Replayed
<1>5. CASE ReplayOk(f)
    <2> DEFINE r == [flush[f] EXCEPT !.todo = Tail(@)]
    <2>1. flush' = [flush EXCEPT ![f] = r] /\ retries' = retries
        BY <1>5 DEF ReplayOk
    <2>2. r.on /\ r.todo = Tail(q) /\ r.kept = p
        BY <1>1 DEF Calls, p, q
    <2>3. /\ r \in Calls(n) /\ Mergeable(sent, r)
        <3>1. r \in Calls(n)
            BY <1>1, <1>4 DEF Calls, q
        <3> QED BY <1>2, <1>4, <2>2, <3>1 DEF Mergeable
    <2> HIDE DEF r
    <2>4. Shapes' /\ Unique'
        <3>1. retries' \in Seq(Nat) /\ Len(retries') = Len(retries)
            BY <2>1 DEF Shapes
        <3> QED BY <1>3, <2>1, <2>3, <3>1, OneFlush DEF n
    <2>5. flush'[f].on
        BY <1>1, <2>1, <2>2
    <2> QED BY <1>3, <2>4, <2>5
<1>6. CASE ReplayFails(f)
    <2> DEFINE e == Head(q)
               r == [on |-> TRUE, todo |-> Tail(q),
                     kept |-> IF Kept(e) THEN Append(p, e) ELSE p,
                     shared |-> flush[f].shared]
    <2>1. flush' = [flush EXCEPT ![f] = r] /\ retries' = [retries EXCEPT ![e] = @ + 1]
        BY <1>6 DEF ReplayFails, p, q
    <2>2. /\ r \in Calls(n) /\ r.on /\ Mergeable(sent, r)
        <3>1. CASE Kept(e)
            <4>1. r = [on |-> TRUE, todo |-> Tail(q), kept |-> Append(p, e),
                       shared |-> flush[f].shared]
                BY <3>1
            <4> QED BY <1>1, <1>4, <4>1 DEF Calls, Mergeable
        <3>2. CASE ~Kept(e)
            <4>1. r = [on |-> TRUE, todo |-> Tail(q), kept |-> p, shared |-> flush[f].shared]
                BY <3>2
            <4> QED BY <1>1, <1>2, <1>4, <4>1 DEF Calls, Mergeable
        <3> QED BY <3>1, <3>2
    <2>3. retries' \in Seq(Nat) /\ Len(retries') = Len(retries)
        <3>1. retries \in Seq(Nat) /\ e \in 1..Len(retries)
            BY <1>4 DEF Shapes, n
        <3>2. retries[e] + 1 \in Nat
            BY <3>1, ElementOfSeq
        <3> HIDE DEF e
        <3> QED BY <2>1, <3>1, <3>2, ExceptSeq
    <2> HIDE DEF r
    <2>4. Shapes' /\ Unique'
        BY <1>3, <2>1, <2>2, <2>3, OneFlush DEF n
    <2>5. flush'[f].on
        BY <1>1, <2>1, <2>2
    <2> QED BY <1>3, <2>4, <2>5
<1> QED BY <1>5, <1>6

(* The end of a flush, clear() and a restart.                                 *)
LEMMA Detached ==
    ASSUME NEW n, flush \in [Flushes -> Calls(n)],
           \A f \in Flushes : Mergeable(sent, flush[f])
    PROVE  /\ Unshared \in [Flushes -> Calls(n)]
           /\ \A f \in Flushes : Mergeable(sent, Unshared[f])
<1>1. ASSUME NEW f \in Flushes
      PROVE  Unshared[f] \in Calls(n) /\ Mergeable(sent, Unshared[f])
    <2>1. flush[f] \in Calls(n) /\ Mergeable(sent, flush[f])
        OBVIOUS
    <2>2. Unshared[f] = [flush[f] EXCEPT !.shared = FALSE]
        BY DEF Unshared
    <2> QED BY <2>1, <2>2 DEF Calls, Mergeable
<1>2. Unshared \in [Flushes -> Calls(n)]
    BY <1>1 DEF Unshared
<1> QED BY <1>1, <1>2

LEMMA IdleCall ==
    ASSUME NEW n, NEW s
    PROVE  Idle \in Calls(n) /\ Mergeable(s, Idle)
<1>1. <<>> \in Seq(1..n) /\ DOMAIN <<>> = {}
    BY EmptySeq
<1> QED BY <1>1 DEF Idle, Calls, Mergeable, Clean, Apart

LEMMA EndKeeps ==
    ASSUME Shapes, Unique, NEW f \in Flushes, End(f)
    PROVE  Shapes' /\ Unique'
<1> DEFINE n == Len(sent)
<1>1. /\ flush \in [Flushes -> Calls(n)] /\ flush[f] \in Calls(n)
      /\ \A g \in Flushes : Mergeable(sent, flush[g])
    BY DEF Shapes, Unique
<1>2. flush[f].kept \in Seq(1..n) /\ Clean(sent, flush[f].kept)
    BY <1>1 DEF Calls, Mergeable
<1>3. /\ Unshared \in [Flushes -> Calls(n)] /\ \A g \in Flushes : Mergeable(sent, Unshared[g])
    BY <1>1, Detached
<1>4. /\ sent' = sent /\ retries' = retries /\ saved' = retries /\ boot' = boot
      /\ entries' = flush[f].kept /\ flush' = [Unshared EXCEPT ![f] = Idle]
    BY DEF End
<1>5. timer' \in BOOLEAN
    BY DEF End
<1>6. /\ flush' \in [Flushes -> Calls(n)] /\ \A g \in Flushes : Mergeable(sent, flush'[g])
    <2>1. Idle \in Calls(n) /\ Mergeable(sent, Idle)
        BY IdleCall
    <2> HIDE DEF n
    <2> QED BY <1>3, <1>4, <2>1
<1>7. Shapes'
    BY <1>2, <1>4, <1>5, <1>6 DEF Shapes
<1>8. Unique'
    BY <1>2, <1>4, <1>6 DEF Unique
<1> QED BY <1>7, <1>8

LEMMA ClearKeeps ==
    ASSUME Shapes, Unique, Clear
    PROVE  Shapes' /\ Unique'
<1>1. /\ sent' = sent /\ retries' = retries /\ saved' = retries /\ boot' = boot
      /\ entries' = <<>> /\ flush' = Unshared /\ timer' = FALSE
    BY DEF Clear
<1>2. /\ Unshared \in [Flushes -> Calls(Len(sent))]
      /\ \A f \in Flushes : Mergeable(sent, Unshared[f])
    BY Detached DEF Shapes, Unique
<1>3. <<>> \in Seq(1..Len(sent)) /\ DOMAIN <<>> = {}
    BY EmptySeq
<1>4. Shapes'
    BY <1>1, <1>2, <1>3 DEF Shapes
<1>5. Unique'
    BY <1>1, <1>2, <1>3 DEF Unique, Clean
<1> QED BY <1>4, <1>5

LEMMA RestartKeeps ==
    ASSUME Shapes, Unique, Restart
    PROVE  Shapes' /\ Unique'
<1>1. /\ sent' = sent /\ retries' = saved /\ saved' = saved /\ entries' = entries
      /\ flush' = [f \in Flushes |-> Idle]
    BY DEF Restart
<1>2. boot' \in BOOLEAN /\ timer' \in BOOLEAN
    BY DEF Restart
<1>3. /\ flush' \in [Flushes -> Calls(Len(sent))]
      /\ \A f \in Flushes : Mergeable(sent, flush'[f])
    <2>1. Idle \in Calls(Len(sent)) /\ Mergeable(sent, Idle)
        BY IdleCall
    <2> QED BY <1>1, <2>1
<1>4. Shapes'
    BY <1>1, <1>2, <1>3 DEF Shapes
<1>5. Unique'
    BY <1>1, <1>3 DEF Unique
<1> QED BY <1>4, <1>5

----------------------------------------------------------------------------
LEMMA InitIInv == Init => IInv
<1> SUFFICES ASSUME Init
             PROVE  IInv
    OBVIOUS
<1>1. /\ sent = <<>> /\ retries = <<>> /\ saved = <<>> /\ entries = <<>>
      /\ timer = FALSE /\ boot = FALSE /\ flush = [f \in Flushes |-> Idle]
    BY DEF Init
<1>2. /\ <<>> \in Seq(Endpoints) /\ <<>> \in Seq(Nat) /\ <<>> \in Seq(1..Len(sent))
      /\ DOMAIN <<>> = {}
    BY EmptySeq
<1>3. Idle \in Calls(Len(sent)) /\ Mergeable(sent, Idle)
    BY IdleCall
<1>4. Shapes
    BY <1>1, <1>2, <1>3 DEF Shapes
<1>5. Unique
    BY <1>1, <1>2, <1>3 DEF Unique, Clean
<1>6. Serviced
    BY <1>1 DEF Serviced
<1> QED BY <1>4, <1>5, <1>6 DEF IInv

LEMMA NextIInv == IInv /\ [Next]_vars => IInv'
<1> SUFFICES ASSUME IInv, [Next]_vars
             PROVE  IInv'
    OBVIOUS
<1> USE DEF IInv
<1>1. ASSUME NEW ep \in Workers \cup Saves, Enqueue(ep)
      PROVE  IInv'
    <2>1. Shapes' /\ Unique'
        BY <1>1, EnqueueKeeps DEF Endpoints
    <2>2. Serviced'
        BY <1>1 DEF Serviced, Enqueue
    <2> QED BY <2>1, <2>2
<1>2. ASSUME NEW f \in Flushes, Begin(f), timer' \in BOOLEAN, boot' \in BOOLEAN
      PROVE  IInv'
    <2>1. Shapes' /\ Unique' /\ flush'[f].on
        BY <1>2, BeginKeeps
    <2>2. Serviced'
        BY <2>1 DEF Serviced
    <2> QED BY <2>1, <2>2
<1>3. ASSUME UNCHANGED <<sent, retries, entries, saved, flush>>, entries = <<>>,
             timer' \in BOOLEAN, boot' \in BOOLEAN
      PROVE  IInv'
    <2>1. Shapes' /\ Unique'
        BY <1>3 DEF Shapes, Unique
    <2>2. Serviced'
        BY <1>3 DEF Serviced
    <2> QED BY <2>1, <2>2
<1>4. timer \in BOOLEAN /\ boot \in BOOLEAN
    BY DEF Shapes
<1>5. ASSUME NEW f \in Flushes, TimerFires(f)
      PROVE  IInv'
    <2>1. timer' \in BOOLEAN /\ boot' \in BOOLEAN
        BY <1>4, <1>5 DEF TimerFires
    <2>2. Begin(f) \/ (entries = <<>> /\ UNCHANGED <<sent, retries, entries, saved, flush>>)
        BY <1>5 DEF TimerFires
    <2> QED BY <1>2, <1>3, <2>1, <2>2
<1>6. ASSUME NEW f \in Flushes, BootFlush(f)
      PROVE  IInv'
    <2>1. timer' \in BOOLEAN /\ boot' \in BOOLEAN
        BY <1>4, <1>6 DEF BootFlush
    <2>2. Begin(f) \/ (entries = <<>> /\ UNCHANGED <<sent, retries, entries, saved, flush>>)
        BY <1>6 DEF BootFlush
    <2> QED BY <1>2, <1>3, <2>1, <2>2
<1>7. ASSUME NEW f \in Flushes, ManualFlush(f)
      PROVE  IInv'
    <2>1. timer' \in BOOLEAN /\ boot' \in BOOLEAN /\ Begin(f)
        BY <1>4, <1>7 DEF ManualFlush
    <2> QED BY <1>2, <2>1
<1>8. ASSUME NEW f \in Flushes, ReplayOk(f) \/ ReplayFails(f)
      PROVE  IInv'
    <2>1. /\ Shapes' /\ Unique'
          /\ flush'[f].on /\ entries' = entries /\ timer' = timer /\ boot' = boot
        BY <1>8, ReplayKeeps
    <2>2. Serviced'
        BY <2>1 DEF Serviced
    <2> QED BY <2>1, <2>2
<1>9. ASSUME NEW f \in Flushes, End(f)
      PROVE  IInv'
    <2>1. Shapes' /\ Unique'
        BY <1>9, EndKeeps
    <2>2. entries' # <<>> => timer'
        BY <1>9 DEF End
    <2> QED BY <2>1, <2>2 DEF Serviced
<1>10. ASSUME Clear
       PROVE  IInv'
    <2>1. Shapes' /\ Unique'
        BY <1>10, ClearKeeps
    <2>2. Serviced'
        BY <1>10 DEF Serviced, Clear
    <2> QED BY <2>1, <2>2
<1>11. ASSUME Restart
       PROVE  IInv'
    <2>1. Shapes' /\ Unique'
        BY <1>11, RestartKeeps
    <2>2. entries' # <<>> => boot'
        BY <1>11 DEF Restart
    <2> QED BY <2>1, <2>2 DEF Serviced
<1>12. ASSUME UNCHANGED vars
       PROVE  IInv'
    BY <1>12 DEF vars, Shapes, Unique, Serviced
<1> QED BY <1>1, <1>5, <1>6, <1>7, <1>8, <1>9, <1>10, <1>11, <1>12 DEF Next

LEMMA Inductive == Spec => []IInv
<1> QED BY InitIInv, NextIInv, PTL DEF Spec

(* Every field has its shape, and what is queued, left to replay or kept      *)
(* names requests that were made.                                             *)
THEOREM TypeCorrect == Spec => []TypeOK
<1>1. IInv => TypeOK
    <2> SUFFICES ASSUME Shapes
                 PROVE  TypeOK
        BY DEF IInv
    <2>1. /\ sent \in Seq(Workers \cup Saves)
          /\ timer \in BOOLEAN /\ boot \in BOOLEAN
        BY DEF Shapes, Endpoints
    <2>2. retries \in [Request -> Nat] /\ saved \in [Request -> Nat]
        BY LenProperties DEF Shapes, Request
    <2>3. ASSUME NEW q \in Seq(Request)
          PROVE  Elements(q) \subseteq Request
        BY LenProperties, ElementOfSeq DEF Elements
    <2>4. \A f \in Flushes : flush[f] \in Calls(Len(sent))
        BY DEF Shapes
    <2>5. /\ entries \in Seq(Request)
          /\ \A f \in Flushes : /\ flush[f].todo \in Seq(Request)
                                 /\ flush[f].kept \in Seq(Request)
                                 /\ flush[f].on \in BOOLEAN /\ flush[f].shared \in BOOLEAN
        BY <2>4 DEF Shapes, Request, Calls
    <2>6. \A q \in {entries} \cup {flush[f].todo : f \in Flushes}
                  \cup {flush[f].kept : f \in Flushes} : Elements(q) \subseteq Request
        BY <2>3, <2>5
    <2> QED BY <2>1, <2>2, <2>5, <2>6 DEF TypeOK
<1> QED BY <1>1, Inductive, PTL

(* At most one entry per request and one PATCH per worker, however enqueue,   *)
(* flush, clear and restarts interleave (outbox.ts:74-90, 108-166).           *)
THEOREM OnePatch == Spec => []OnePatchPerWorker
<1>1. IInv => OnePatchPerWorker
    BY DEF IInv, Unique, Clean, Clash, OnePatchPerWorker
<1> QED BY <1>1, Inductive, PTL

(* No entry is left without a timer, a flush or the start-up flush.           *)
THEOREM AlwaysServiced == Spec => []Serviced
<1>1. IInv => Serviced
    BY DEF IInv
<1> QED BY <1>1, Inductive, PTL
=============================================================================
