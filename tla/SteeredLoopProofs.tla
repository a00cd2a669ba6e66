------------------------- MODULE SteeredLoopProofs -------------------------
(***************************************************************************)
(* The agent loop between its two queues, proved for queues, turns and     *)
(* conversations of any length and any number of tasks: notices stay with  *)
(* their conversation, no guidance is stranded, none is lost, and a turn   *)
(* submits it in order.                                                    *)
(***************************************************************************)
EXTENDS SteeredLoop, InputQueueProofs, TLAPS

-----------------------------------------------------------------------------
(* What a transition does to the entries of a steering queue               *)

\* A steering queue. What a dismissal does to the budget can leave it negative
\* in no state of the loop, but nothing here depends on that.
SteeringQueue ==
    [epoch : Nat, entries : Seq(Entry), deferred : Seq(Entry), count : Int, bytes : Int,
     omitted : BOOLEAN, closed : BOOLEAN, reserved : Nat, active : BOOLEAN]

\* The entries E and the deferred entries D of a queue, counted through.
At(E, D, i) == IF i <= Len(E) THEN E[i] ELSE D[i - Len(E)]
Total(E, D) == Len(E) + Len(D)

\* f tells where the entries of the queue (E1, D1) were in the queue (E, D). Their
\* order is kept and deferred entries were deferred. The first d entries were
\* taken, the next p keep their order, others are missing only if their key is in L.
\* An entry is awake if it was, and if it was deferred.
Follows(f, E1, D1, E, D, d, p, L) ==
    /\ f \in [1..Total(E1, D1) -> 1..Total(E, D)]
    /\ \A i, j \in 1..Total(E1, D1) : i < j => f[i] < f[j]
    /\ \A i \in 1..Total(E1, D1) :
        /\ At(E1, D1, i).input = At(E, D, f[i]).input /\ At(E1, D1, i).key = At(E, D, f[i]).key
        /\ i > Len(E1) => f[i] > Len(E)
        /\ i <= Len(E1) /\ (f[i] <= Len(E) => E[f[i]].wake) => E1[i].wake
        /\ f[i] > d /\ (i > p => f[i] > p + d)
        /\ i <= p => f[i] = i + d
    /\ \A j \in 1..Total(E, D) :
        j > d /\ At(E, D, j).key \notin L => \E i \in 1..Total(E1, D1) : f[i] = j
    /\ p <= Len(E1) /\ p + d <= Len(E)

Derived(E1, D1, E, D, d, p, L) == \E f : Follows(f, E1, D1, E, D, d, p, L)

LEMMA TotalType ==
    ASSUME NEW E \in Seq(Entry), NEW D \in Seq(Entry)
    PROVE  /\ Len(E) \in Nat /\ Len(D) \in Nat /\ Total(E, D) \in Nat
           /\ \A i \in 1..Total(E, D) : At(E, D, i) \in Entry
BY DEF Total, At

\* A promotion after another transition.
LEMMA DerivedThen ==
    ASSUME NEW E \in Seq(Entry), NEW D \in Seq(Entry),
           NEW E1 \in Seq(Entry), NEW D1 \in Seq(Entry),
           NEW E2 \in Seq(Entry), NEW D2 \in Seq(Entry),
           NEW d \in Nat, NEW p \in Nat, NEW p2 \in Nat, NEW L, p <= p2,
           Derived(E1, D1, E, D, d, p, L), Derived(E2, D2, E1, D1, 0, p2, {})
    PROVE  Derived(E2, D2, E, D, d, p, L)
<1>1. PICK f : Follows(f, E1, D1, E, D, d, p, L)
  BY DEF Derived
<1>2. PICK g : Follows(g, E2, D2, E1, D1, 0, p2, {})
  BY DEF Derived
<1> DEFINE h == [i \in 1..Total(E2, D2) |-> f[g[i]]]
<1>3. PICK t \in Nat : t = Total(E, D)
  BY TotalType
<1>4. PICK t1 \in Nat : t1 = Total(E1, D1)
  BY TotalType
<1>5. PICK t2 \in Nat : t2 = Total(E2, D2)
  BY TotalType
<1>6. f \in [1..t1 -> 1..t] /\ g \in [1..t2 -> 1..t1]
  BY <1>1, <1>2, <1>3, <1>4, <1>5 DEF Follows
<1>7. h \in [1..t2 -> 1..t] /\ \A i \in 1..t2 : h[i] = f[g[i]] /\ g[i] \in 1..t1
  BY <1>5, <1>6
<1> HIDE DEF h
<1>l. Len(E1) \in Nat /\ Len(E2) \in Nat /\ Len(E) \in Nat
  BY TotalType
<1>8. \A i, j \in 1..t2 : i < j => h[i] < h[j]
  BY <1>1, <1>2, <1>4, <1>5, <1>7, SMTT(20) DEF Follows
<1>9. ASSUME NEW i \in 1..t2
      PROVE  /\ At(E2, D2, i).input = At(E, D, h[i]).input /\ At(E2, D2, i).key = At(E, D, h[i]).key
             /\ i > Len(E2) => h[i] > Len(E)
             /\ i <= Len(E2) /\ (h[i] <= Len(E) => E[h[i]].wake) => E2[i].wake
             /\ h[i] > d /\ (i > p => h[i] > p + d)
             /\ i <= p => h[i] = i + d
  <2>1. g[i] \in 1..t1 /\ h[i] = f[g[i]] /\ h[i] \in 1..t
    BY <1>7
  <2>2. /\ At(E2, D2, i).input = At(E1, D1, g[i]).input /\ At(E2, D2, i).key = At(E1, D1, g[i]).key
        /\ i > Len(E2) => g[i] > Len(E1)
        /\ i <= Len(E2) /\ (g[i] <= Len(E1) => E1[g[i]].wake) => E2[i].wake
        /\ g[i] > 0 /\ (i > p2 => g[i] > p2 + 0)
        /\ i <= p2 => g[i] = i + 0
    BY <1>2, <1>5 DEF Follows
  <2>3. /\ At(E1, D1, g[i]).input = At(E, D, h[i]).input /\ At(E1, D1, g[i]).key = At(E, D, h[i]).key
        /\ g[i] > Len(E1) => h[i] > Len(E)
        /\ g[i] <= Len(E1) /\ (h[i] <= Len(E) => E[h[i]].wake) => E1[g[i]].wake
        /\ h[i] > d /\ (g[i] > p => h[i] > p + d)
        /\ g[i] <= p => h[i] = g[i] + d
    BY <1>1, <1>4, <2>1, SMTT(20) DEF Follows
  <2>4. /\ At(E2, D2, i).input = At(E, D, h[i]).input /\ At(E2, D2, i).key = At(E, D, h[i]).key
    BY <2>2, <2>3
  <2>5. i > Len(E2) => h[i] > Len(E)
    BY <2>2, <2>3
  <2>6. i <= Len(E2) /\ (h[i] <= Len(E) => E[h[i]].wake) => E2[i].wake
    BY <2>2, <2>3
  <2>7. h[i] > d /\ (i > p => h[i] > p + d) /\ (i <= p => h[i] = i + d)
    <3>1. (i > p2 => g[i] > p2 + 0) /\ (i <= p2 => g[i] = i + 0)
      BY <2>2
    <3>2. h[i] > d /\ (g[i] > p => h[i] > p + d) /\ (g[i] <= p => h[i] = g[i] + d)
      BY <2>3
    <3>3. PICK x \in Nat : x = g[i]
      BY <2>1
    <3>4. PICK y \in Nat : y = h[i]
      BY <2>1
    <3>5. /\ (i > p2 => x > p2) /\ (i <= p2 => x = i)
          /\ y > d /\ (x > p => y > p + d) /\ (x <= p => y = x + d)
      BY <3>1, <3>2, <3>3, <3>4
    <3>6. i \in Nat
      OBVIOUS
    <3>7. y > d /\ (i > p => y > p + d) /\ (i <= p => y = i + d)
      BY <3>5, <3>6
    <3> QED
      BY <3>4, <3>7
  <2> QED
    BY <2>4, <2>5, <2>6, <2>7
<1>10. ASSUME NEW j \in 1..t, j > d, At(E, D, j).key \notin L
       PROVE  \E i \in 1..t2 : h[i] = j
  <2>1. PICK k \in 1..t1 : f[k] = j
    BY <1>1, <1>3, <1>4, <1>10 DEF Follows
  <2>2. k > 0
    OBVIOUS
  <2>3. PICK i \in 1..t2 : g[i] = k
    BY <1>2, <1>4, <1>5, <2>2 DEF Follows
  <2> QED
    BY <1>7, <2>1, <2>3
<1>11. p <= Len(E2) /\ p + d <= Len(E)
  BY <1>1, <1>2, <1>l DEF Follows
<1>12. Follows(h, E2, D2, E, D, d, p, L)
  BY <1>3, <1>5, <1>7, <1>8, <1>9, <1>10, <1>11 DEF Follows
<1> QED
  BY <1>12 DEF Derived

\* A finite set of naturals has a greatest element.
LEMMA NatGreatest ==
    ASSUME NEW b \in Nat, NEW S \in SUBSET (0..b), S # {}
    PROVE  \E x \in S : \A y \in S : y <= x
<1> DEFINE T == {b - x : x \in S}
<1>a. \A x \in S : x \in 0..b /\ b - x \in Nat
  OBVIOUS
<1>b. PICK x0 \in S : TRUE
  OBVIOUS
<1>1. T \in SUBSET Nat /\ b - x0 \in T
  BY <1>a
<1>2. PICK z \in T : \A y \in T : z <= y
  BY <1>1, NatLeast
<1>3. PICK x \in S : z = b - x
  OBVIOUS
<1>4. ASSUME NEW y \in S PROVE y <= x
  <2>1. z <= b - y
    BY <1>2
  <2> QED
    BY <1>3, <2>1
<1> QED
  BY <1>4

\* A prefix of the deferred entries is promoted.
LEMMA PromotedParts ==
    ASSUME NEW q \in SteeringQueue
    PROVE  \E n \in 0..Len(q.deferred) : \E w \in Seq(Entry) : \E r \in SteeringQueue :
             /\ Promoted(q) = r /\ Len(w) = n
             /\ \A i \in 1..n : /\ w[i].input = q.deferred[i].input /\ w[i].key = q.deferred[i].key
                                /\ w[i].wake
             /\ r.entries = q.entries \o w /\ r.deferred = Drop(q.deferred, n)
             /\ r.epoch = q.epoch /\ r.closed = q.closed /\ r.reserved = q.reserved
<1> DEFINE fitting == {0} \cup {m \in 1..Len(q.deferred) : Fits(q, Take(q.deferred, m))}
           n == CHOOSE most \in fitting : \A m \in fitting : m <= most
           w == [i \in 1..n |-> [q.deferred[i] EXCEPT !.wake = TRUE]]
<1>1. q.deferred \in Seq(Entry) /\ Len(q.deferred) \in Nat
  BY DEF SteeringQueue
<1>2. fitting \in SUBSET (0..Len(q.deferred)) /\ fitting # {}
  BY <1>1
<1> HIDE DEF fitting
<1>3. \E x \in fitting : \A y \in fitting : y <= x
  BY <1>1, <1>2, NatGreatest
<1>4. n \in fitting
  BY <1>3
<1>a. Promoted(q) = [Appended(q, w) EXCEPT !.deferred = Drop(@, n)]
  BY Zenon DEF Promoted, fitting
<1> HIDE DEF n
<1>5. n \in 0..Len(q.deferred) /\ n \in Nat
  BY <1>1, <1>2, <1>4
<1>b. Appended(q, w).deferred = q.deferred
  BY DEF Appended, SteeringQueue
<1>6. Promoted(q) = [Appended(q, w) EXCEPT !.deferred = Drop(q.deferred, n)]
  BY <1>a, <1>b, Zenon
<1>7. \A i \in 1..n : q.deferred[i] \in Entry
  BY <1>1, <1>5
<1>c. \A i \in 1..n : [q.deferred[i] EXCEPT !.wake = TRUE] \in Entry
  BY <1>7 DEF Entry
<1>8. w \in Seq(Entry) /\ Len(w) = n
  BY <1>5, <1>c
<1>9. \A i \in 1..n : /\ w[i].input = q.deferred[i].input /\ w[i].key = q.deferred[i].key
                      /\ w[i].wake
  BY <1>5, <1>7 DEF Entry
<1> HIDE DEF w
<1>10. Bytes(w) \in Nat
  BY <1>8, BytesType
<1>11. Drop(q.deferred, n) \in Seq(Entry)
  BY <1>1, <1>5 DEF Drop
<1> DEFINE r == [q EXCEPT !.entries = q.entries \o w, !.count = q.count + n,
                          !.bytes = q.bytes + Bytes(w), !.deferred = Drop(q.deferred, n)]
<1>12. Promoted(q) = r
  <2>1. Appended(q, w) = [q EXCEPT !.entries = q.entries \o w, !.count = q.count + n,
                                   !.bytes = q.bytes + Bytes(w)]
    BY <1>8, Zenon DEF Appended
  <2> QED
    BY <1>6, <2>1 DEF SteeringQueue
<1>d. q.entries \in Seq(Entry)
  BY DEF SteeringQueue
<1>e. q.entries \o w \in Seq(Entry)
  BY <1>8, <1>d, ConcatFacts
<1>13. PICK x \in Seq(Entry) : x = q.entries \o w
  BY <1>e
<1>14. PICK y \in Seq(Entry) : y = Drop(q.deferred, n)
  BY <1>11
<1>15. PICK z \in Int : z = q.bytes + Bytes(w)
  BY <1>10 DEF SteeringQueue
<1>16. PICK c \in Int : c = q.count + n
  BY <1>5 DEF SteeringQueue
<1>17. r = [q EXCEPT !.entries = x, !.count = c, !.bytes = z, !.deferred = y]
  BY <1>13, <1>14, <1>15, <1>16
<1> HIDE DEF r
<1>18. r \in SteeringQueue /\ r.entries = x /\ r.deferred = y /\ r.epoch = q.epoch
       /\ r.closed = q.closed /\ r.reserved = q.reserved
  BY <1>17 DEF SteeringQueue
<1>19. r.entries = q.entries \o w /\ r.deferred = Drop(q.deferred, n)
  BY <1>13, <1>14, <1>18
<1>20. /\ Promoted(q) = r /\ Len(w) = n
       /\ \A i \in 1..n : /\ w[i].input = q.deferred[i].input /\ w[i].key = q.deferred[i].key
                          /\ w[i].wake
       /\ r.entries = q.entries \o w /\ r.deferred = Drop(q.deferred, n)
       /\ r.epoch = q.epoch /\ r.closed = q.closed /\ r.reserved = q.reserved
  BY <1>8, <1>9, <1>12, <1>18, <1>19
<1> QED
  BY <1>5, <1>8, <1>18, <1>20, Zenon

LEMMA PromotedDerives ==
    ASSUME NEW q \in SteeringQueue
    PROVE  /\ Promoted(q) \in SteeringQueue
           /\ Promoted(q).epoch = q.epoch /\ Promoted(q).closed = q.closed
           /\ Promoted(q).reserved = q.reserved
           /\ \A p \in 0..Len(q.entries) :
                Derived(Promoted(q).entries, Promoted(q).deferred, q.entries, q.deferred, 0, p, {})
<1>1. PICK n \in 0..Len(q.deferred) : \E w \in Seq(Entry) : \E r \in SteeringQueue :
             /\ Promoted(q) = r /\ Len(w) = n
             /\ \A i \in 1..n : /\ w[i].input = q.deferred[i].input /\ w[i].key = q.deferred[i].key
                                /\ w[i].wake
             /\ r.entries = q.entries \o w /\ r.deferred = Drop(q.deferred, n)
             /\ r.epoch = q.epoch /\ r.closed = q.closed /\ r.reserved = q.reserved
  BY PromotedParts
<1>2. PICK w \in Seq(Entry) : \E r \in SteeringQueue :
             /\ Promoted(q) = r /\ Len(w) = n
             /\ \A i \in 1..n : /\ w[i].input = q.deferred[i].input /\ w[i].key = q.deferred[i].key
                                /\ w[i].wake
             /\ r.entries = q.entries \o w /\ r.deferred = Drop(q.deferred, n)
             /\ r.epoch = q.epoch /\ r.closed = q.closed /\ r.reserved = q.reserved
  BY <1>1
<1> DEFINE r == Promoted(q)
<1>3. /\ r \in SteeringQueue /\ Len(w) = n
      /\ \A i \in 1..n : /\ w[i].input = q.deferred[i].input /\ w[i].key = q.deferred[i].key
                         /\ w[i].wake
      /\ r.entries = q.entries \o w /\ r.deferred = Drop(q.deferred, n)
      /\ r.epoch = q.epoch /\ r.closed = q.closed /\ r.reserved = q.reserved
  BY <1>2
<1> HIDE DEF r
<1>4. PICK E \in Seq(Entry) : E = q.entries
  BY DEF SteeringQueue
<1>5. PICK D \in Seq(Entry) : D = q.deferred
  BY DEF SteeringQueue
<1>6. PICK e \in Nat : e = Len(E)
  OBVIOUS
<1>7. PICK m \in Nat : m = Len(D)
  OBVIOUS
<1>11. n \in 0..m /\ n \in Nat
  BY <1>5, <1>7
<1> DEFINE E1 == E \o w
           D1 == Drop(D, n)
<1>8. /\ E1 \in Seq(Entry) /\ Len(E1) = e + n
      /\ \A i \in 1..(e + n) : /\ i <= e => E1[i] = E[i]
                               /\ i > e => E1[i] = w[i - e]
  <2>1. Len(w) = n
    BY <1>3
  <2> QED
    BY <2>1, <1>6, <1>11
<1>9. /\ D1 \in Seq(Entry) /\ Len(D1) = m - n
      /\ \A i \in 1..(m - n) : D1[i] = D[i + n]
  BY <1>7, <1>11 DEF Drop
<1>10. \A i \in 1..n : w[i].input = D[i].input /\ w[i].key = D[i].key /\ w[i].wake
  BY <1>3, <1>5
<1> HIDE DEF E1, D1
<1>12. Total(E1, D1) = e + m /\ Total(E, D) = e + m
  BY <1>6, <1>7, <1>8, <1>9, <1>11 DEF Total
<1> DEFINE f == [i \in 1..(e + m) |-> i]
<1>13. ASSUME NEW i \in 1..(e + m)
       PROVE  /\ At(E1, D1, i).input = At(E, D, i).input /\ At(E1, D1, i).key = At(E, D, i).key
              /\ i > e + n => i > e
              /\ i <= e + n /\ (i <= e => E[i].wake) => E1[i].wake
  <2>1. CASE i <= e
    BY <1>6, <1>8, <1>11, <2>1 DEF At
  <2>2. CASE i > e /\ i <= e + n
    <3>1. At(E1, D1, i) = w[i - e] /\ At(E, D, i) = D[i - e] /\ i - e \in 1..n /\ E1[i] = w[i - e]
      <4>1. i - e \in 1..n /\ i \in 1..(e + n) /\ ~(i <= e)
        BY <1>11, <2>2
      <4>2. E1[i] = w[i - e]
        BY <1>8, <2>2, <4>1
      <4>3. At(E1, D1, i) = E1[i]
        BY <1>8, <2>2, Zenon DEF At
      <4>4. At(E, D, i) = D[i - e]
        BY <1>6, <4>1, Zenon DEF At
      <4> QED
        BY <4>1, <4>2, <4>3, <4>4
    <3> QED
      BY <1>10, <3>1, <2>2
  <2>3. CASE i > e + n
    <3>1. i - (e + n) \in 1..(m - n)
      BY <1>11, <2>3
    <3>2. D1[i - (e + n)] = D[i - (e + n) + n]
      BY <1>9, <3>1
    <3>3. At(E1, D1, i) = D1[i - (e + n)] /\ At(E, D, i) = D[i - e]
      BY <1>6, <1>8, <1>11, <2>3 DEF At
    <3>4. i - (e + n) + n = i - e
      BY <1>11
    <3>5. At(E1, D1, i) = At(E, D, i)
      BY <3>2, <3>3, <3>4
    <3> QED
      BY <1>11, <2>3, <3>5
  <2> QED
    BY <2>1, <2>2, <2>3, <1>11
<1>14. ASSUME NEW p \in 0..e PROVE Follows(f, E1, D1, E, D, 0, p, {})
  <2>1. /\ f \in [1..Total(E1, D1) -> 1..Total(E, D)]
        /\ \A i, j \in 1..Total(E1, D1) : i < j => f[i] < f[j]
        /\ \A i \in 1..Total(E1, D1) : f[i] = i
    BY <1>12
  <2>2. \A j \in 1..Total(E, D) : \E i \in 1..Total(E1, D1) : f[i] = j
    BY <1>12
  <2> HIDE DEF f
  <2>3. \A i \in 1..Total(E1, D1) :
        /\ At(E1, D1, i).input = At(E, D, f[i]).input /\ At(E1, D1, i).key = At(E, D, f[i]).key
        /\ i > Len(E1) => f[i] > Len(E)
        /\ i <= Len(E1) /\ (f[i] <= Len(E) => E[f[i]].wake) => E1[i].wake
    BY <2>1, <1>6, <1>8, <1>12, <1>13
  <2>4. \A i \in 1..Total(E1, D1) :
            f[i] > 0 /\ (i > p => f[i] > p + 0) /\ (i <= p => f[i] = i + 0)
    BY <2>1, <1>12
  <2>5. p <= Len(E1) /\ p + 0 <= Len(E)
    BY <1>6, <1>8, <1>11
  <2> QED
    BY <2>1, <2>2, <2>3, <2>4, <2>5 DEF Follows
<1>15. \A p \in 0..Len(q.entries) : Derived(E1, D1, E, D, 0, p, {})
  BY <1>4, <1>6, <1>14 DEF Derived
<1>16. r.entries = E1 /\ r.deferred = D1
  BY <1>3, <1>4, <1>5 DEF E1, D1
<1> QED
  BY <1>3, <1>4, <1>5, <1>15, <1>16 DEF r

\* Acknowledged entries are taken from the front.
LEMMA DropDerives ==
    ASSUME NEW E \in Seq(Entry), NEW D \in Seq(Entry), NEW d \in 0..Len(E)
    PROVE  /\ Drop(E, d) \in Seq(Entry) /\ Len(Drop(E, d)) = Len(E) - d
           /\ \A p \in 0..(Len(E) - d) : Derived(Drop(E, d), D, E, D, d, p, {})
<1>1. PICK e \in Nat : e = Len(E)
  OBVIOUS
<1>2. PICK m \in Nat : m = Len(D)
  OBVIOUS
<1>3. d \in Nat /\ d <= e
  BY <1>1
<1>4. PICK k \in Nat : k = e - d
  BY <1>3
<1> DEFINE E1 == Drop(E, d)
<1>5. E1 \in Seq(Entry) /\ Len(E1) = k /\ \A i \in 1..k : E1[i] = E[i + d]
  <2>1. E1 = SubSeq(E, d + 1, e)
    BY <1>1 DEF Drop
  <2>2. Len(E1) = e - (d + 1) + 1 /\ E1 \in Seq(Entry)
    BY <1>1, <1>3, <2>1
  <2>3. \A i \in 1..k : E1[i] = E[i + d]
    BY <1>1, <1>3, <1>4, <2>1
  <2> QED
    BY <1>3, <1>4, <2>2, <2>3
<1> HIDE DEF E1
<1>6. Total(E1, D) = k + m /\ Total(E, D) = e + m
  BY <1>1, <1>2, <1>5 DEF Total
<1> DEFINE f == [i \in 1..(k + m) |-> i + d]
<1>7. /\ f \in [1..(k + m) -> 1..(e + m)]
      /\ \A i, j \in 1..(k + m) : i < j => f[i] < f[j]
      /\ \A i \in 1..(k + m) : f[i] = i + d
  BY <1>3, <1>4
<1>8. ASSUME NEW i \in 1..(k + m) PROVE At(E1, D, i) = At(E, D, i + d)
  <2>1. CASE i <= k
    BY <1>1, <1>4, <1>5, <2>1 DEF At
  <2>2. CASE i > k
    <3>1. i - k = i + d - e /\ ~(i <= k) /\ ~(i + d <= e)
      BY <1>3, <1>4, <2>2
    <3>2. At(E1, D, i) = D[i - k] /\ At(E, D, i + d) = D[i + d - e]
      BY <1>1, <1>5, <3>1 DEF At
    <3> QED
      BY <3>1, <3>2
  <2> QED
    BY <2>1, <2>2
<1>9. ASSUME NEW i \in 1..(k + m)
      PROVE  /\ i > k => i + d > e
             /\ i <= k => i + d <= e /\ E1[i] = E[i + d]
  BY <1>3, <1>4, <1>5
<1>10. ASSUME NEW j \in 1..(e + m), j > d PROVE \E i \in 1..(k + m) : f[i] = j
  <2>1. j - d \in 1..(k + m) /\ (j - d) + d = j
    BY <1>3, <1>4, <1>10
  <2> QED
    BY <2>1, <1>7
<1> HIDE DEF f
<1>11. ASSUME NEW p \in 0..k PROVE Follows(f, E1, D, E, D, d, p, {})
  <2>1. \A i \in 1..Total(E1, D) :
        /\ At(E1, D, i).input = At(E, D, f[i]).input /\ At(E1, D, i).key = At(E, D, f[i]).key
        /\ i > Len(E1) => f[i] > Len(E)
    BY <1>1, <1>5, <1>6, <1>7, <1>8, <1>9
  <2>2. \A i \in 1..Total(E1, D) :
        i <= Len(E1) /\ (f[i] <= Len(E) => E[f[i]].wake) => E1[i].wake
    <3> SUFFICES ASSUME NEW i \in 1..(k + m), i <= k, f[i] <= e => E[f[i]].wake
                 PROVE  E1[i].wake
      BY <1>1, <1>5, <1>6
    <3>1. f[i] = i + d /\ i + d <= e /\ E1[i] = E[i + d]
      BY <1>7, <1>9
    <3> QED
      BY <3>1
  <2>3. \A i \in 1..Total(E1, D) :
            f[i] > d /\ (i > p => f[i] > p + d) /\ (i <= p => f[i] = i + d)
    BY <1>3, <1>6, <1>7
  <2>4. p <= Len(E1) /\ p + d <= Len(E)
    BY <1>1, <1>3, <1>4, <1>5
  <2> QED
    BY <1>6, <1>7, <1>10, <2>1, <2>2, <2>3, <2>4 DEF Follows
<1>12. \A p \in 0..(Len(E) - d) : Derived(E1, D, E, D, d, p, {})
  BY <1>1, <1>4, <1>11 DEF Derived
<1> QED
  BY <1>1, <1>4, <1>5, <1>12 DEF E1

\* A dismissal leaves out entries with the key k behind the first c.
LEMMA DismissDerives ==
    ASSUME NEW E \in Seq(Entry), NEW D \in Seq(Entry), NEW c \in 0..Len(E), NEW k
    PROVE  /\ Take(E, c) \o WithoutKey(Drop(E, c), k) \in Seq(Entry)
           /\ Len(Take(E, c) \o WithoutKey(Drop(E, c), k)) >= c
           /\ WithoutKey(D, k) \in Seq(Entry)
           /\ \A p \in 0..c :
                Derived(Take(E, c) \o WithoutKey(Drop(E, c), k), WithoutKey(D, k), E, D, 0, p, {k})
<1>1. PICK e \in Nat : e = Len(E)
  OBVIOUS
<1>2. PICK m \in Nat : m = Len(D)
  OBVIOUS
<1>3. c \in Nat /\ c <= e
  BY <1>1
<1>4. PICK A \in Seq(Entry) : A = Take(E, c) /\ Len(A) = c /\ \A i \in 1..c : A[i] = E[i]
  <2>1. Take(E, c) = SubSeq(E, 1, c)
    BY <1>1, <1>3 DEF Take
  <2> QED
    BY <1>1, <1>3, <2>1
<1>5. PICK B \in Seq(Entry) : B = Drop(E, c) /\ Len(B) = e - c /\ \A i \in 1..(e - c) : B[i] = E[i + c]
  <2>1. Drop(E, c) = SubSeq(E, c + 1, e)
    BY <1>1 DEF Drop
  <2>2. Drop(E, c) \in Seq(Entry) /\ Len(Drop(E, c)) = e - c
    BY <1>1, <1>3, <2>1
  <2>3. \A i \in 1..(e - c) : Drop(E, c)[i] = E[i + c]
    BY <1>1, <1>3, <2>1
  <2> QED
    BY <2>2, <2>3
<1> DEFINE K == {i \in 1..Len(B) : B[i].key # k}
           J == {i \in 1..Len(D) : D[i].key # k}
           S == WithoutKey(B, k)
           T == WithoutKey(D, k)
<1>6. S = Selected(B, K) /\ T = Selected(D, J)
  BY DEF WithoutKey
<1>7. S \in Seq(Entry) /\ T \in Seq(Entry)
  BY <1>6, SelectedIndices
<1>8. PICK s \in Nat : s = Len(S)
  BY <1>7
<1>9. PICK t \in Nat : t = Len(T)
  BY <1>7
<1>10. PICK g : Lists(g, s, K, e - c) /\ \A j \in 1..s : S[j] = B[g[j]]
  <2> HIDE DEF S, K
  <2>1. \E g : /\ Lists(g, Len(Selected(B, K)), K, Len(B))
              /\ \A j \in 1..Len(Selected(B, K)) : Selected(B, K)[j] = B[g[j]]
    BY SelectedIndices, SMTT(20)
  <2> QED
    BY <1>5, <1>6, <1>8, <2>1
<1>11. PICK h : Lists(h, t, J, m) /\ \A j \in 1..t : T[j] = D[h[j]]
  <2> HIDE DEF T, J
  <2>1. \E o : /\ Lists(o, Len(Selected(D, J)), J, Len(D))
              /\ \A j \in 1..Len(Selected(D, J)) : Selected(D, J)[j] = D[o[j]]
    BY SelectedIndices
  <2> QED
    BY <1>2, <1>6, <1>9, <2>1
<1>12. /\ g \in [1..s -> 1..(e - c)]
       /\ \A i, j \in 1..s : i < j => g[i] < g[j]
       /\ \A i \in 1..(e - c) : B[i].key # k => \E j \in 1..s : g[j] = i
  BY <1>5, <1>10 DEF Lists
<1>13. /\ h \in [1..t -> 1..m]
       /\ \A i, j \in 1..t : i < j => h[i] < h[j]
       /\ \A i \in 1..m : D[i].key # k => \E j \in 1..t : h[j] = i
  BY <1>2, <1>11 DEF Lists
<1> HIDE DEF S, T, K, J
<1> DEFINE E1 == A \o S
<1>14. /\ E1 \in Seq(Entry) /\ Len(E1) = c + s
       /\ \A i \in 1..(c + s) : /\ i <= c => E1[i] = A[i]
                                /\ i > c => E1[i] = S[i - c]
  <2>1. Len(A) = c /\ Len(S) = s /\ A \in Seq(Entry) /\ S \in Seq(Entry)
    BY <1>4, <1>7, <1>8
  <2> HIDE DEF S
  <2>2. A \o S \in Seq(Entry)
    BY <2>1
  <2>3. Len(A \o S) = c + s
    <3>1. Len(A \o S) = Len(A) + Len(S)
      BY <2>1, ConcatFacts
    <3> QED
      BY <2>1, <3>1, Zenon
  <2>4. ASSUME NEW i \in 1..(c + s), i <= c PROVE (A \o S)[i] = A[i]
    BY <2>1, <2>4, <1>3
  <2>5. ASSUME NEW i \in 1..(c + s), i > c PROVE (A \o S)[i] = S[i - c]
    BY <2>1, <2>5, <1>3
  <2> QED
    BY <2>2, <2>3, <2>4, <2>5
<1> HIDE DEF E1
<1>15. Total(E1, T) = c + s + t /\ Total(E, D) = e + m
  BY <1>1, <1>2, <1>9, <1>14 DEF Total
<1> DEFINE f == [i \in 1..(c + s + t) |->
                   IF i <= c THEN i ELSE IF i <= c + s THEN g[i - c] + c ELSE h[i - (c + s)] + e]
<1>16. ASSUME NEW i \in 1..(c + s + t)
       PROVE  /\ i <= c => f[i] = i
              /\ i > c /\ i <= c + s => /\ i - c \in 1..s /\ g[i - c] \in 1..(e - c)
                                        /\ f[i] = g[i - c] + c
              /\ i > c + s => /\ i - (c + s) \in 1..t /\ h[i - (c + s)] \in 1..m
                              /\ f[i] = h[i - (c + s)] + e
  BY <1>3, <1>12, <1>13
<1> HIDE DEF f
<1>17. ASSUME NEW i \in 1..(c + s + t)
       PROVE  /\ f[i] \in 1..(e + m) /\ f[i] > 0
              /\ i > c => f[i] > c
              /\ i <= c + s => f[i] <= e
              /\ i > c + s => f[i] > e
  <2>1. CASE i <= c
    BY <1>3, <1>16, <2>1
  <2>2. CASE i > c /\ i <= c + s
    <3>1. PICK x \in 1..(e - c) : x = g[i - c] /\ f[i] = x + c
      BY <1>16, <2>2
    <3> QED
      BY <1>3, <2>2, <3>1
  <2>3. CASE i > c + s
    <3>1. PICK x \in 1..m : x = h[i - (c + s)] /\ f[i] = x + e
      BY <1>16, <2>3
    <3> QED
      BY <1>3, <2>3, <3>1
  <2> QED
    BY <1>3, <2>1, <2>2, <2>3
<1>18. f \in [1..(c + s + t) -> 1..(e + m)]
  <2>1. f = [i \in 1..(c + s + t) |-> f[i]]
    BY DEF f
  <2> QED
    BY <1>17, <2>1
<1>19. ASSUME NEW i \in 1..(c + s + t), NEW j \in 1..(c + s + t), i < j PROVE f[i] < f[j]
  <2>1. CASE i <= c
    <3>1. CASE j <= c
      BY <1>16, <1>19, <2>1, <3>1
    <3>2. CASE j > c
      BY <1>3, <1>16, <1>17, <2>1, <3>2
    <3> QED
      BY <1>3, <3>1, <3>2
  <2>2. CASE i > c /\ j <= c + s
    <3>1. /\ i - c \in 1..s /\ j - c \in 1..s /\ i - c < j - c
          /\ f[i] = g[i - c] + c /\ f[j] = g[j - c] + c
      BY <1>3, <1>16, <1>19, <2>2
    <3>2. PICK x \in 1..(e - c) : x = g[i - c]
      BY <1>12, <3>1
    <3>3. PICK y \in 1..(e - c) : y = g[j - c]
      BY <1>12, <3>1
    <3>4. x < y
      BY <1>12, <3>1, <3>2, <3>3
    <3> QED
      BY <1>3, <3>1, <3>2, <3>3, <3>4
  <2>3. CASE i <= c + s /\ j > c + s
    BY <1>17, <2>3, <1>18
  <2>4. CASE i > c + s
    <3>1. /\ i - (c + s) \in 1..t /\ j - (c + s) \in 1..t /\ i - (c + s) < j - (c + s)
          /\ f[i] = h[i - (c + s)] + e /\ f[j] = h[j - (c + s)] + e
      BY <1>3, <1>16, <1>19, <2>4
    <3>2. PICK x \in 1..m : x = h[i - (c + s)]
      BY <1>13, <3>1
    <3>3. PICK y \in 1..m : y = h[j - (c + s)]
      BY <1>13, <3>1
    <3>4. x < y
      BY <1>13, <3>1, <3>2, <3>3
    <3> QED
      BY <3>1, <3>2, <3>3, <3>4
  <2> QED
    BY <1>3, <2>1, <2>2, <2>3, <2>4
<1>20. ASSUME NEW i \in 1..(c + s + t) PROVE At(E1, T, i) = At(E, D, f[i])
  <2>1. CASE i <= c
    <3>1. At(E1, T, i) = E1[i] /\ E1[i] = A[i] /\ A[i] = E[i] /\ i <= e /\ f[i] = i
      BY <1>3, <1>4, <1>14, <1>16, <2>1 DEF At
    <3> QED
      BY <1>1, <3>1 DEF At
  <2>2. CASE i > c /\ i <= c + s
    <3>1. PICK x \in 1..(e - c) : x = g[i - c] /\ f[i] = x + c /\ i - c \in 1..s
      BY <1>16, <2>2
    <3>2. At(E1, T, i) = E1[i] /\ E1[i] = S[i - c]
      BY <1>3, <1>14, <2>2 DEF At
    <3>3. S[i - c] = B[x] /\ B[x] = E[x + c]
      BY <1>5, <1>10, <3>1
    <3>4. x + c <= e
      BY <1>3, <3>1
    <3>5. At(E, D, f[i]) = E[x + c]
      BY <1>1, <3>1, <3>4 DEF At
    <3> QED
      BY <3>2, <3>3, <3>5
  <2>3. CASE i > c + s
    <3>1. PICK x \in 1..m : x = h[i - (c + s)] /\ f[i] = x + e /\ i - (c + s) \in 1..t
      BY <1>16, <2>3
    <3>2. At(E1, T, i) = T[i - (c + s)]
      BY <1>14, <2>3, <1>3 DEF At
    <3>3. T[i - (c + s)] = D[x]
      BY <1>11, <3>1
    <3>4. ~(x + e <= e) /\ x + e - e = x
      BY <3>1
    <3>5. At(E, D, f[i]) = D[x]
      BY <1>1, <3>1, <3>4 DEF At
    <3> QED
      BY <3>2, <3>3, <3>5
  <2> QED
    BY <1>3, <2>1, <2>2, <2>3
<1>21. ASSUME NEW j \in 1..(e + m), At(E, D, j).key # k
       PROVE  \E i \in 1..(c + s + t) : f[i] = j
  <2>1. CASE j <= c
    <3>1. j \in 1..(c + s + t)
      BY <1>3, <2>1
    <3> QED
      BY <1>16, <2>1, <3>1
  <2>2. CASE j > c /\ j <= e
    <3>1. j - c \in 1..(e - c) /\ (j - c) + c = j
      BY <1>3, <2>2
    <3>2. At(E, D, j) = E[j] /\ B[j - c] = E[(j - c) + c]
      BY <1>1, <1>5, <2>2, <3>1 DEF At
    <3>3. PICK l \in 1..s : g[l] = j - c
      BY <1>12, <1>21, <3>1, <3>2
    <3>4. l + c \in 1..(c + s + t) /\ l + c > c /\ l + c <= c + s /\ (l + c) - c = l
      BY <1>3
    <3>5. f[l + c] = g[l] + c
      BY <1>16, <3>4
    <3> QED
      BY <3>1, <3>3, <3>4, <3>5
  <2>3. CASE j > e
    <3>1. j - e \in 1..m /\ (j - e) + e = j
      BY <2>3
    <3>2. At(E, D, j) = D[j - e]
      BY <1>1, <2>3 DEF At
    <3>3. PICK l \in 1..t : h[l] = j - e
      BY <1>13, <1>21, <3>1, <3>2
    <3>4. l + (c + s) \in 1..(c + s + t) /\ l + (c + s) > c + s /\ (l + (c + s)) - (c + s) = l
      BY <1>3
    <3>5. f[l + (c + s)] = h[l] + e
      BY <1>16, <3>4
    <3> QED
      BY <3>1, <3>3, <3>4, <3>5
  <2> QED
    BY <1>3, <2>1, <2>2, <2>3
<1>22. ASSUME NEW p \in 0..c PROVE Follows(f, E1, T, E, D, 0, p, {k})
  <2>1. \A i \in 1..Total(E1, T) :
        /\ At(E1, T, i).input = At(E, D, f[i]).input /\ At(E1, T, i).key = At(E, D, f[i]).key
        /\ i > Len(E1) => f[i] > Len(E)
    BY <1>1, <1>14, <1>15, <1>17, <1>20
  <2>2. \A i \in 1..Total(E1, T) :
        i <= Len(E1) /\ (f[i] <= Len(E) => E[f[i]].wake) => E1[i].wake
    <3> SUFFICES ASSUME NEW i \in 1..(c + s + t), i <= c + s, f[i] <= e => E[f[i]].wake
                 PROVE  E1[i].wake
      BY <1>1, <1>14, <1>15
    <3>1. f[i] <= e
      BY <1>17
    <3>2. At(E1, T, i) = E1[i] /\ At(E, D, f[i]) = E[f[i]]
      BY <1>1, <1>14, <3>1 DEF At
    <3> QED
      BY <1>20, <3>1, <3>2
  <2>3. \A i \in 1..Total(E1, T) :
            f[i] > 0 /\ (i > p => f[i] > p + 0) /\ (i <= p => f[i] = i + 0)
    <3> SUFFICES ASSUME NEW i \in 1..(c + s + t)
                 PROVE  f[i] > 0 /\ (i > p => f[i] > p + 0) /\ (i <= p => f[i] = i + 0)
      BY <1>15
    <3>1. PICK x \in Nat : x = f[i]
      BY <1>17
    <3>2. x > 0 /\ (i <= c => x = i) /\ (i > c => x > c)
      BY <1>16, <1>17, <3>1
    <3>3. x > 0 /\ (i > p => x > p + 0) /\ (i <= p => x = i + 0)
      BY <1>3, <3>2
    <3> QED
      BY <3>1, <3>3
  <2>4. p <= Len(E1) /\ p + 0 <= Len(E)
    BY <1>1, <1>3, <1>14
  <2> QED
    BY <1>15, <1>18, <1>19, <1>21, <2>1, <2>2, <2>3, <2>4 DEF Follows
<1>23. \A p \in 0..c : Derived(E1, T, E, D, 0, p, {k})
  BY <1>22 DEF Derived
<1>24. E1 \in Seq(Entry) /\ Len(E1) >= c /\ T \in Seq(Entry)
  BY <1>3, <1>7, <1>14
<1> QED
  BY <1>4, <1>5, <1>23, <1>24 DEF E1, S, T

\* commitSteeringInputsSTM
LEMMA AcknowledgedDerives ==
    ASSUME NEW q \in SteeringQueue, NEW n \in Nat, q.reserved <= Len(q.entries)
    PROVE  /\ Acknowledged(q, n) \in SteeringQueue
           /\ Acknowledged(q, n).epoch = q.epoch /\ Acknowledged(q, n).closed = q.closed
           /\ Acknowledged(q, n).reserved <= Len(Acknowledged(q, n).entries)
           /\ \E d \in 0..Len(q.entries) :
                /\ d <= n /\ (n <= Len(q.entries) => d = n)
                /\ \A p \in 0..(Len(q.entries) - d) :
                     Derived(Acknowledged(q, n).entries, Acknowledged(q, n).deferred,
                             q.entries, q.deferred, d, p, {})
<1>1. PICK E \in Seq(Entry) : E = q.entries
  BY DEF SteeringQueue
<1>2. PICK D \in Seq(Entry) : D = q.deferred
  BY DEF SteeringQueue
<1>3. PICK e \in Nat : e = Len(E)
  OBVIOUS
<1>4. PICK d \in 0..e : d <= n /\ (n <= e => d = n) /\ d = Len(Take(E, n)) /\ Take(E, n) \in Seq(Entry)
  <2>1. CASE n < e
    <3>1. Take(E, n) = SubSeq(E, 1, n)
      BY <1>3, <2>1 DEF Take
    <3>2. Take(E, n) \in Seq(Entry) /\ Len(Take(E, n)) = n
      BY <1>3, <2>1, <3>1
    <3> QED
      BY <2>1, <3>2
  <2>2. CASE ~(n < e)
    <3>1. Take(E, n) = SubSeq(E, 1, e)
      BY <1>3, <2>2 DEF Take
    <3>2. Take(E, n) \in Seq(Entry) /\ Len(Take(E, n)) = e
      BY <1>3, <3>1
    <3>3. e \in 0..e /\ e <= n /\ (n <= e => e = n)
      BY <2>2
    <3> QED
      BY <3>2, <3>3
  <2> QED
    BY <2>1, <2>2
<1>5. Bytes(Take(E, n)) \in Nat
  BY <1>4, BytesType
<1>6. PICK E1 \in Seq(Entry) : E1 = Drop(E, d) /\ Len(E1) = e - d
  BY <1>3, DropDerives
<1>7. PICK c \in Int : c = Clamped(q.count - d)
  BY DEF Clamped, SteeringQueue
<1>8. PICK b \in Int : b = Clamped(q.bytes - Bytes(Take(E, n)))
  BY <1>5 DEF Clamped, SteeringQueue
<1>9. PICK u \in Nat : u = Clamped(q.reserved - n) /\ u <= e - d
  <2>1. PICK v \in Nat : v = q.reserved
    BY DEF SteeringQueue
  <2>2. v <= e
    BY <1>1, <1>3, <2>1
  <2>3. Clamped(v - n) \in Nat /\ Clamped(v - n) <= e - d
    BY <1>4, <2>2 DEF Clamped
  <2> QED
    BY <2>1, <2>3
<1> DEFINE r == [q EXCEPT !.entries = E1, !.count = c, !.bytes = b, !.reserved = u]
<1>10. Acknowledged(q, n) = Promoted(r)
  BY <1>1, <1>4, <1>6, <1>7, <1>8, <1>9, Zenon DEF Acknowledged
<1>11. /\ r \in SteeringQueue /\ r.entries = E1 /\ r.deferred = D /\ r.epoch = q.epoch
       /\ r.closed = q.closed /\ r.reserved = u
  BY <1>2 DEF SteeringQueue
<1> HIDE DEF r
<1> DEFINE a == Promoted(r)
<1>12. /\ a \in SteeringQueue /\ a.epoch = r.epoch /\ a.closed = r.closed /\ a.reserved = r.reserved
       /\ \A p \in 0..Len(r.entries) : Derived(a.entries, a.deferred, r.entries, r.deferred, 0, p, {})
  BY <1>11, PromotedDerives
<1> HIDE DEF a
<1>13. a.entries \in Seq(Entry) /\ a.deferred \in Seq(Entry)
  BY <1>12 DEF SteeringQueue
<1>a. e - d \in Nat
  OBVIOUS
<1>14. PICK k \in Nat : k = e - d
  BY <1>a
<1>15. ASSUME NEW p \in 0..k PROVE Derived(a.entries, a.deferred, E, D, d, p, {})
  <2>1. Derived(a.entries, a.deferred, E1, D, 0, p, {})
    BY <1>6, <1>11, <1>12, <1>14
  <2>2. Derived(E1, D, E, D, d, p, {})
    BY <1>3, <1>6, <1>14, DropDerives
  <2>3. p \in Nat /\ p <= p /\ d \in Nat
    BY <1>14
  <2> QED
    BY <1>13, <2>1, <2>2, <2>3, DerivedThen
<1>16. k <= Len(a.entries)
  <2>1. k \in 0..k
    BY <1>14
  <2>2. Derived(a.entries, a.deferred, E, D, d, k, {})
    BY <1>15, <2>1
  <2> QED
    BY <2>2 DEF Derived, Follows
<1>17. a.reserved <= Len(a.entries)
  <2>1. PICK l \in Nat : l = Len(a.entries)
    BY <1>13
  <2> QED
    BY <1>9, <1>11, <1>12, <1>14, <1>16, <2>1
<1>18. d \in 0..Len(q.entries) /\ (n <= Len(q.entries) => d = n) /\ Len(q.entries) - d = k
  BY <1>1, <1>3, <1>4, <1>14
<1>19. \A p \in 0..(Len(q.entries) - d) : Derived(a.entries, a.deferred, q.entries, q.deferred, d, p, {})
  BY <1>1, <1>2, <1>15, <1>18
<1>20. a = Acknowledged(q, n)
  BY <1>10 DEF a
<1>21. /\ a \in SteeringQueue /\ a.epoch = q.epoch /\ a.closed = q.closed
  BY <1>11, <1>12
<1>22. \E x \in 0..Len(q.entries) :
          /\ x <= n /\ (n <= Len(q.entries) => x = n)
          /\ \A p \in 0..(Len(q.entries) - x) :
               Derived(a.entries, a.deferred, q.entries, q.deferred, x, p, {})
  BY <1>4, <1>18, <1>19
<1> QED
  BY <1>17, <1>20, <1>21, <1>22

\* dismissBackgroundCompletion
LEMMA DismissedDerives ==
    ASSUME NEW q \in SteeringQueue, NEW k, q.reserved <= Len(q.entries)
    PROVE  /\ Dismissed(q, k) \in SteeringQueue
           /\ Dismissed(q, k).epoch = q.epoch /\ Dismissed(q, k).closed = q.closed
           /\ Dismissed(q, k).reserved = q.reserved
           /\ \A p \in 0..q.reserved :
                Derived(Dismissed(q, k).entries, Dismissed(q, k).deferred,
                        q.entries, q.deferred, 0, p, {k})
<1>1. PICK E \in Seq(Entry) : E = q.entries
  BY DEF SteeringQueue
<1>2. PICK D \in Seq(Entry) : D = q.deferred
  BY DEF SteeringQueue
<1>3. PICK e \in Nat : e = Len(E)
  OBVIOUS
<1>4. PICK u \in Nat : u = q.reserved
  BY DEF SteeringQueue
<1>5. u \in 0..Len(E)
  BY <1>1, <1>3, <1>4
<1>a. /\ Take(E, u) \o WithoutKey(Drop(E, u), k) \in Seq(Entry)
      /\ Len(Take(E, u) \o WithoutKey(Drop(E, u), k)) >= u
  BY <1>5, DismissDerives
<1>6. PICK E1 \in Seq(Entry) : E1 = Take(E, u) \o WithoutKey(Drop(E, u), k) /\ Len(E1) >= u
  BY <1>a, Zenon
<1>7. PICK D1 \in Seq(Entry) : D1 = WithoutKey(D, k)
  BY <1>5, DismissDerives
<1>8. \A p \in 0..u : Derived(E1, D1, E, D, 0, p, {k})
  BY <1>5, <1>6, <1>7, DismissDerives
<1>9. PICK c \in Int : c = q.count - (Len(E) - Len(E1))
  BY DEF SteeringQueue
<1>10. PICK b \in Int : b = Bytes(E1)
  BY BytesType
<1> DEFINE r == [q EXCEPT !.entries = E1, !.count = c, !.bytes = b, !.deferred = D1]
<1>11. Dismissed(q, k) = Promoted(r)
  BY <1>1, <1>2, <1>4, <1>6, <1>7, <1>9, <1>10, Zenon DEF Dismissed
<1>12. /\ r \in SteeringQueue /\ r.entries = E1 /\ r.deferred = D1 /\ r.epoch = q.epoch
       /\ r.closed = q.closed /\ r.reserved = u
  BY <1>4 DEF SteeringQueue
<1> HIDE DEF r
<1> DEFINE a == Promoted(r)
<1>13. /\ a \in SteeringQueue /\ a.epoch = r.epoch /\ a.closed = r.closed /\ a.reserved = r.reserved
       /\ \A p \in 0..Len(r.entries) : Derived(a.entries, a.deferred, r.entries, r.deferred, 0, p, {})
  BY <1>12, PromotedDerives
<1> HIDE DEF a
<1>14. a.entries \in Seq(Entry) /\ a.deferred \in Seq(Entry)
  BY <1>13 DEF SteeringQueue
<1>15. ASSUME NEW p \in 0..u PROVE Derived(a.entries, a.deferred, E, D, 0, p, {k})
  <2>1. p \in 0..Len(E1) /\ p \in Nat /\ p <= p /\ 0 \in Nat
    BY <1>6
  <2>2. Derived(a.entries, a.deferred, E1, D1, 0, p, {})
    BY <1>12, <1>13, <2>1
  <2>3. Derived(E1, D1, E, D, 0, p, {k})
    BY <1>8
  <2> QED
    BY <1>14, <2>1, <2>2, <2>3, DerivedThen
<1>16. a = Dismissed(q, k)
  BY <1>11 DEF a
<1>17. /\ a \in SteeringQueue /\ a.epoch = q.epoch /\ a.closed = q.closed /\ a.reserved = q.reserved
  BY <1>4, <1>12, <1>13
<1>18. \A p \in 0..q.reserved : Derived(a.entries, a.deferred, q.entries, q.deferred, 0, p, {k})
  BY <1>1, <1>2, <1>4, <1>15
<1> QED
  BY <1>16, <1>17, <1>18

-----------------------------------------------------------------------------
(* What is known of the host's queue in every state                        *)

\* NoticesOfConversation
OwnNotices(E, D, ep, own) ==
    \A i \in 1..Total(E, D) :
        At(E, D, i).key # NoKey =>
            /\ own[At(E, D, i).key] = ep
            /\ \A j \in 1..Total(E, D) : At(E, D, j).key = At(E, D, i).key => j = i

\* Notices are not guidance, only notices are deferred, guidance is queued in the
\* order in which it was offered.
GuidanceApart(E, D, G, n) ==
    /\ \A i \in 1..Total(E, D) :
        /\ At(E, D, i).input <= n
        /\ At(E, D, i).key # NoKey => At(E, D, i).input \notin G
        /\ i > Len(E) => At(E, D, i).key # NoKey
    /\ \A i, j \in 1..Total(E, D) :
        i < j /\ At(E, D, i).key = NoKey /\ At(E, D, j).key = NoKey
            => At(E, D, i).input < At(E, D, j).input

OnlyNotices(E) == \A i \in 1..Len(E) : E[i].key # NoKey

HostOK(q, own, G, n) ==
    /\ q \in SteeringQueue /\ q.epoch >= 1 /\ q.reserved <= Len(q.entries)
    /\ OwnNotices(q.entries, q.deferred, q.epoch, own)
    /\ GuidanceApart(q.entries, q.deferred, G, n)
    /\ q.closed => OnlyNotices(q.entries)

\* A transition that only takes entries away or promotes them.
LEMMA HostInherits ==
    ASSUME NEW q, NEW r \in SteeringQueue, NEW own, NEW G, NEW n \in Nat,
           NEW d \in Nat, NEW p \in Nat, NEW L,
           HostOK(q, own, G, n), r.epoch = q.epoch, r.closed = q.closed,
           r.reserved <= Len(r.entries),
           Derived(r.entries, r.deferred, q.entries, q.deferred, d, p, L)
    PROVE  HostOK(r, own, G, n)
<1>1. PICK E \in Seq(Entry) : E = q.entries
  BY DEF HostOK, SteeringQueue
<1>2. PICK D \in Seq(Entry) : D = q.deferred
  BY DEF HostOK, SteeringQueue
<1>3. PICK E1 \in Seq(Entry) : E1 = r.entries
  BY DEF SteeringQueue
<1>4. PICK D1 \in Seq(Entry) : D1 = r.deferred
  BY DEF SteeringQueue
<1>5. PICK f : Follows(f, E1, D1, E, D, d, p, L)
  BY <1>1, <1>2, <1>3, <1>4 DEF Derived
<1>6. PICK t \in Nat : t = Total(E, D)
  BY TotalType
<1>7. PICK t1 \in Nat : t1 = Total(E1, D1)
  BY TotalType
<1>8. /\ f \in [1..t1 -> 1..t]
      /\ \A i, j \in 1..t1 : i < j => f[i] < f[j]
      /\ \A i \in 1..t1 :
           /\ At(E1, D1, i).input = At(E, D, f[i]).input /\ At(E1, D1, i).key = At(E, D, f[i]).key
           /\ i > Len(E1) => f[i] > Len(E)
  BY <1>5, <1>6, <1>7 DEF Follows
<1>9. \A i, j \in 1..t1 : f[i] = f[j] => i = j
  BY <1>8
<1>10. OwnNotices(E, D, q.epoch, own) /\ GuidanceApart(E, D, G, n)
       /\ (q.closed => OnlyNotices(E))
  BY <1>1, <1>2 DEF HostOK
<1>11. OwnNotices(E1, D1, q.epoch, own)
  <2> SUFFICES ASSUME NEW i \in 1..t1, At(E1, D1, i).key # NoKey
               PROVE  /\ own[At(E1, D1, i).key] = q.epoch
                      /\ \A j \in 1..t1 : At(E1, D1, j).key = At(E1, D1, i).key => j = i
    BY <1>7 DEF OwnNotices
  <2>1. f[i] \in 1..t /\ At(E1, D1, i).key = At(E, D, f[i]).key
    BY <1>8
  <2>2. /\ own[At(E, D, f[i]).key] = q.epoch
        /\ \A j \in 1..t : At(E, D, j).key = At(E, D, f[i]).key => j = f[i]
    BY <1>6, <1>10, <2>1 DEF OwnNotices
  <2>3. ASSUME NEW j \in 1..t1, At(E1, D1, j).key = At(E1, D1, i).key PROVE j = i
    <3>1. f[j] \in 1..t /\ At(E, D, f[j]).key = At(E, D, f[i]).key
      BY <1>8, <2>1, <2>3
    <3> QED
      BY <1>9, <2>2, <3>1
  <2> QED
    BY <2>1, <2>2, <2>3
<1>12. GuidanceApart(E1, D1, G, n)
  <2>1. ASSUME NEW i \in 1..t1
        PROVE  /\ At(E1, D1, i).input <= n
               /\ At(E1, D1, i).key # NoKey => At(E1, D1, i).input \notin G
               /\ i > Len(E1) => At(E1, D1, i).key # NoKey
    <3>1. f[i] \in 1..t /\ At(E1, D1, i).key = At(E, D, f[i]).key
          /\ At(E1, D1, i).input = At(E, D, f[i]).input /\ (i > Len(E1) => f[i] > Len(E))
      BY <1>8
    <3>2. /\ At(E, D, f[i]).input <= n
          /\ At(E, D, f[i]).key # NoKey => At(E, D, f[i]).input \notin G
          /\ f[i] > Len(E) => At(E, D, f[i]).key # NoKey
      BY <1>6, <1>10, <3>1 DEF GuidanceApart
    <3> QED
      BY <3>1, <3>2
  <2>2. ASSUME NEW i \in 1..t1, NEW j \in 1..t1,
               i < j, At(E1, D1, i).key = NoKey, At(E1, D1, j).key = NoKey
        PROVE  At(E1, D1, i).input < At(E1, D1, j).input
    <3>1. f[i] \in 1..t /\ f[j] \in 1..t /\ f[i] < f[j]
      BY <1>8, <2>2
    <3>2. /\ At(E1, D1, i).key = At(E, D, f[i]).key /\ At(E1, D1, i).input = At(E, D, f[i]).input
          /\ At(E1, D1, j).key = At(E, D, f[j]).key /\ At(E1, D1, j).input = At(E, D, f[j]).input
      BY <1>8
    <3>3. At(E, D, f[i]).input < At(E, D, f[j]).input
      BY <1>6, <1>10, <2>2, <3>1, <3>2 DEF GuidanceApart
    <3> QED
      BY <3>2, <3>3
  <2> QED
    BY <1>7, <2>1, <2>2 DEF GuidanceApart
<1>13. ASSUME q.closed, NEW i \in 1..Len(E1) PROVE E1[i].key # NoKey
  <2>1. PICK e \in Nat : e = Len(E)
    OBVIOUS
  <2>2. PICK e1 \in Nat : e1 = Len(E1)
    OBVIOUS
  <2>3. i \in 1..t1 /\ i <= e1 /\ At(E1, D1, i) = E1[i]
    BY <1>7, <2>2 DEF Total, At
  <2>4. f[i] \in 1..t /\ E1[i].key = At(E, D, f[i]).key
    BY <1>8, <2>3
  <2>5. CASE f[i] > e
    BY <1>6, <1>10, <2>1, <2>4, <2>5 DEF GuidanceApart
  <2>6. CASE f[i] <= e
    <3>1. f[i] \in 1..Len(E) /\ At(E, D, f[i]) = E[f[i]]
      BY <2>1, <2>4, <2>6 DEF At
    <3> QED
      BY <1>10, <1>13, <2>4, <3>1 DEF OnlyNotices
  <2> QED
    BY <2>1, <2>4, <2>5, <2>6
<1>14. r.closed => OnlyNotices(E1)
  BY <1>13 DEF OnlyNotices
<1>15. r.epoch >= 1
  BY DEF HostOK
<1> QED
  BY <1>3, <1>4, <1>11, <1>12, <1>14, <1>15 DEF HostOK

\* An entry keeps its input and its key, and perhaps no longer wakes the host.
SameTags(s, u) ==
    /\ s \in Seq(Entry) /\ Len(s) = Len(u)
    /\ \A i \in 1..Len(u) : s[i].input = u[i].input /\ s[i].key = u[i].key

\* A transition that changes no input and no key.
LEMMA HostRetagged ==
    ASSUME NEW q, NEW r \in SteeringQueue, NEW own, NEW G, NEW n \in Nat,
           HostOK(q, own, G, n), r.epoch = q.epoch,
           r.reserved <= Len(r.entries), r.closed => OnlyNotices(q.entries),
           SameTags(r.entries, q.entries), SameTags(r.deferred, q.deferred)
    PROVE  HostOK(r, own, G, n)
<1>1. PICK E \in Seq(Entry) : E = q.entries
  BY DEF HostOK, SteeringQueue
<1>2. PICK D \in Seq(Entry) : D = q.deferred
  BY DEF HostOK, SteeringQueue
<1>3. PICK E1 \in Seq(Entry) : E1 = r.entries
  BY DEF SteeringQueue
<1>4. PICK D1 \in Seq(Entry) : D1 = r.deferred
  BY DEF SteeringQueue
<1>5. /\ Len(E1) = Len(E) /\ \A i \in 1..Len(E) : E1[i].input = E[i].input /\ E1[i].key = E[i].key
      /\ Len(D1) = Len(D) /\ \A i \in 1..Len(D) : D1[i].input = D[i].input /\ D1[i].key = D[i].key
  BY <1>1, <1>2, <1>3, <1>4 DEF SameTags
<1>6. Total(E1, D1) = Total(E, D)
  BY <1>5 DEF Total
<1>7. ASSUME NEW i \in 1..Total(E, D)
      PROVE  At(E1, D1, i).input = At(E, D, i).input /\ At(E1, D1, i).key = At(E, D, i).key
  <2>1. PICK e \in Nat : e = Len(E)
    OBVIOUS
  <2>2. PICK m \in Nat : m = Len(D)
    OBVIOUS
  <2>3. i \in 1..(e + m)
    BY <2>1, <2>2 DEF Total
  <2>4. CASE i <= e
    BY <1>5, <2>1, <2>3, <2>4 DEF At
  <2>5. CASE ~(i <= e)
    <3>1. i - e \in 1..m /\ At(E1, D1, i) = D1[i - e] /\ At(E, D, i) = D[i - e]
      BY <1>5, <2>1, <2>2, <2>3, <2>5 DEF At
    <3> QED
      BY <1>5, <2>2, <3>1
  <2> QED
    BY <2>4, <2>5
<1>8. OwnNotices(E, D, q.epoch, own) /\ GuidanceApart(E, D, G, n)
  BY <1>1, <1>2 DEF HostOK
<1>9. OwnNotices(E1, D1, q.epoch, own)
  BY <1>6, <1>7, <1>8 DEF OwnNotices
<1>10. GuidanceApart(E1, D1, G, n)
  BY <1>5, <1>6, <1>7, <1>8 DEF GuidanceApart
<1>11. r.closed => OnlyNotices(E1)
  BY <1>1, <1>5 DEF OnlyNotices
<1>12. r.epoch >= 1
  BY DEF HostOK
<1> QED
  BY <1>3, <1>4, <1>9, <1>10, <1>11, <1>12 DEF HostOK

\* More inputs are offered elsewhere.
LEMMA HostLater ==
    ASSUME NEW q, NEW own, NEW G, NEW n \in Nat, HostOK(q, own, G, n)
    PROVE  HostOK(q, own, G, n + 1)
<1>1. PICK E \in Seq(Entry) : E = q.entries
  BY DEF HostOK, SteeringQueue
<1>2. PICK D \in Seq(Entry) : D = q.deferred
  BY DEF HostOK, SteeringQueue
<1>3. GuidanceApart(E, D, G, n)
  BY <1>1, <1>2 DEF HostOK
<1>4. ASSUME NEW i \in 1..Total(E, D) PROVE At(E, D, i).input <= n + 1
  <2>1. At(E, D, i) \in Entry /\ At(E, D, i).input <= n
    BY <1>3, TotalType DEF GuidanceApart
  <2>2. PICK x \in Nat : x = At(E, D, i).input
    BY <2>1 DEF Entry
  <2> QED
    BY <2>1, <2>2
<1>5. GuidanceApart(E, D, G, n + 1)
  BY <1>3, <1>4 DEF GuidanceApart
<1> QED
  BY <1>1, <1>2, <1>5 DEF HostOK

\* enqueueSteeringInputs, of an input that is accepted.
LEMMA HostSteered ==
    ASSUME NEW q, NEW own, NEW G, NEW n \in Nat, NEW e \in Entry,
           HostOK(q, own, G, n), \A x \in G : x \in Nat /\ x <= n,
           e.input = n + 1, e.key = NoKey, ~q.closed
    PROVE  HostOK(Appended(q, <<e>>), own, G \cup {n + 1}, n + 1)
<1>1. PICK E \in Seq(Entry) : E = q.entries
  BY DEF HostOK, SteeringQueue
<1>2. PICK D \in Seq(Entry) : D = q.deferred
  BY DEF HostOK, SteeringQueue
<1>3. PICK m \in Nat : m = Len(E)
  OBVIOUS
<1>4. PICK l \in Nat : l = Len(D)
  OBVIOUS
<1>a. E \o <<e>> \in Seq(Entry)
  OBVIOUS
<1>5. PICK E1 \in Seq(Entry) : E1 = E \o <<e>>
  BY <1>a, Zenon
<1>6. Len(E1) = m + 1 /\ E1[m + 1] = e /\ \A i \in 1..m : E1[i] = E[i]
  BY <1>3, <1>5
<1>7. <<e>> \in Seq(Entry)
  OBVIOUS
<1>8. Bytes(<<e>>) \in Nat
  BY <1>7, BytesType
<1>9. q \in SteeringQueue
  BY DEF HostOK
<1> DEFINE r == Appended(q, <<e>>)
<1>10. PICK c \in Int : c = q.count + Len(<<e>>)
  BY <1>9 DEF SteeringQueue
<1>11. PICK b \in Int : b = q.bytes + Bytes(<<e>>)
  BY <1>8, <1>9 DEF SteeringQueue
<1>12. r = [q EXCEPT !.entries = E1, !.count = c, !.bytes = b]
  BY <1>1, <1>5, <1>10, <1>11, Zenon DEF Appended
<1> HIDE DEF r
<1>13. /\ r \in SteeringQueue /\ r.entries = E1 /\ r.deferred = D /\ r.epoch = q.epoch
       /\ r.closed = q.closed /\ r.reserved = q.reserved
  BY <1>2, <1>9, <1>12 DEF SteeringQueue
<1>14. Total(E, D) = m + l /\ Total(E1, D) = m + 1 + l
  BY <1>3, <1>4, <1>6 DEF Total
<1> DEFINE g(i) == IF i <= m THEN i ELSE i - 1
<1>15. ASSUME NEW i \in 1..(m + 1 + l), i # m + 1
       PROVE  g(i) \in 1..(m + l) /\ At(E1, D, i) = At(E, D, g(i)) /\ (i > m + 1 => g(i) > m)
  <2>1. CASE i <= m
    BY <1>3, <1>6, <2>1 DEF At
  <2>2. CASE i > m + 1
    <3>1. ~(i <= m) /\ ~(i <= m + 1) /\ ~(i - 1 <= m) /\ i - (m + 1) = (i - 1) - m
      BY <2>2
    <3>2. At(E1, D, i) = D[i - (m + 1)] /\ At(E, D, i - 1) = D[(i - 1) - m]
      BY <1>3, <1>6, <3>1 DEF At
    <3>3. g(i) = i - 1 /\ g(i) \in 1..(m + l) /\ g(i) > m
      BY <3>1, <2>2
    <3> QED
      BY <3>1, <3>2, <3>3
  <2> QED
    BY <1>15, <2>1, <2>2
<1>16. At(E1, D, m + 1) = e
  BY <1>6 DEF At
<1>17. OwnNotices(E, D, q.epoch, own) /\ GuidanceApart(E, D, G, n)
  BY <1>1, <1>2 DEF HostOK
<1>18. \A i, j \in 1..(m + 1 + l) : i # m + 1 /\ j # m + 1 /\ g(i) = g(j) => i = j
  OBVIOUS
<1>19. \A i, j \in 1..(m + 1 + l) : i # m + 1 /\ j # m + 1 /\ i < j => g(i) < g(j)
  OBVIOUS
<1>20. \A i \in 1..(m + 1 + l) : i # m + 1 => g(i) \in 1..(m + l)
  OBVIOUS
<1> HIDE DEF g
<1>21. OwnNotices(E1, D, q.epoch, own)
  <2> SUFFICES ASSUME NEW i \in 1..(m + 1 + l), At(E1, D, i).key # NoKey
               PROVE  /\ own[At(E1, D, i).key] = q.epoch
                      /\ \A j \in 1..(m + 1 + l) : At(E1, D, j).key = At(E1, D, i).key => j = i
    BY <1>14 DEF OwnNotices
  <2>1. i # m + 1
    BY <1>16
  <2>2. g(i) \in 1..(m + l) /\ At(E1, D, i) = At(E, D, g(i))
    BY <1>15, <2>1
  <2>3. /\ own[At(E, D, g(i)).key] = q.epoch
        /\ \A j \in 1..(m + l) : At(E, D, j).key = At(E, D, g(i)).key => j = g(i)
    BY <1>14, <1>17, <2>2 DEF OwnNotices
  <2>4. ASSUME NEW j \in 1..(m + 1 + l), At(E1, D, j).key = At(E1, D, i).key PROVE j = i
    <3>1. j # m + 1
      BY <1>16, <2>4
    <3>2. g(j) \in 1..(m + l) /\ At(E1, D, j) = At(E, D, g(j))
      BY <1>15, <3>1
    <3>3. g(j) = g(i)
      BY <2>2, <2>3, <2>4, <3>2
    <3> QED
      BY <1>18, <2>1, <3>1, <3>3
  <2> QED
    BY <2>2, <2>3, <2>4
<1>22. ASSUME NEW i \in 1..(m + l)
       PROVE  At(E, D, i).input \in Nat /\ At(E, D, i).input <= n
  BY <1>14, <1>17, TotalType DEF GuidanceApart, Entry
<1>23. GuidanceApart(E1, D, G \cup {n + 1}, n + 1)
  <2>1. ASSUME NEW i \in 1..(m + 1 + l)
        PROVE  /\ At(E1, D, i).input <= n + 1
               /\ At(E1, D, i).key # NoKey => At(E1, D, i).input \notin G \cup {n + 1}
               /\ i > m + 1 => At(E1, D, i).key # NoKey
    <3>1. CASE i = m + 1
      BY <1>16, <3>1
    <3>2. CASE i # m + 1
      <4>1. g(i) \in 1..(m + l) /\ At(E1, D, i) = At(E, D, g(i)) /\ (i > m + 1 => g(i) > m)
        BY <1>15, <3>2
      <4>2. /\ At(E, D, g(i)).key # NoKey => At(E, D, g(i)).input \notin G
            /\ g(i) > m => At(E, D, g(i)).key # NoKey
        BY <1>3, <1>14, <1>17, <4>1 DEF GuidanceApart
      <4>3. PICK x \in Nat : x = At(E, D, g(i)).input /\ x <= n
        BY <1>22, <4>1
      <4>4. x <= n + 1 /\ x # n + 1
        BY <4>3
      <4> QED
        BY <4>1, <4>2, <4>3, <4>4
    <3> QED
      BY <3>1, <3>2
  <2>2. ASSUME NEW i \in 1..(m + 1 + l), NEW j \in 1..(m + 1 + l),
               i < j, At(E1, D, i).key = NoKey, At(E1, D, j).key = NoKey
        PROVE  At(E1, D, i).input < At(E1, D, j).input
    <3>1. j <= m + 1 /\ i # m + 1
      BY <2>1, <2>2
    <3>2. g(i) \in 1..(m + l) /\ At(E1, D, i) = At(E, D, g(i))
      BY <1>15, <3>1
    <3>3. CASE j = m + 1
      <4>1. PICK x \in Nat : x = At(E, D, g(i)).input /\ x <= n
        BY <1>22, <3>2
      <4> QED
        BY <1>16, <3>2, <3>3, <4>1
    <3>4. CASE j # m + 1
      <4>1. g(j) \in 1..(m + l) /\ At(E1, D, j) = At(E, D, g(j)) /\ g(i) < g(j)
        BY <1>15, <1>19, <2>2, <3>1, <3>4
      <4> QED
        BY <1>14, <1>17, <2>2, <3>2, <4>1 DEF GuidanceApart
    <3> QED
      BY <3>3, <3>4
  <2> QED
    BY <1>6, <1>14, <2>1, <2>2 DEF GuidanceApart
<1>24. r.reserved <= Len(r.entries)
  <2>1. PICK x \in Nat : x = q.reserved
    BY <1>9 DEF SteeringQueue
  <2>2. x <= m
    BY <1>1, <1>3, <2>1 DEF HostOK
  <2> QED
    BY <1>6, <1>13, <2>1, <2>2
<1>25. r.epoch >= 1
  BY <1>13 DEF HostOK
<1> QED
  BY <1>13, <1>21, <1>23, <1>24, <1>25 DEF HostOK, r

\* A notice of the conversation is deferred, if there is none with its key.
LEMMA HostDeferred ==
    ASSUME NEW q, NEW own, NEW G, NEW n \in Nat, NEW e \in Entry,
           HostOK(q, own, G, n), \A x \in G : x \in Nat /\ x <= n,
           e.input = n + 1, e.key # NoKey, own[e.key] = q.epoch,
           ~HasKey(q.entries, e.key), ~HasKey(q.deferred, e.key)
    PROVE  /\ [q EXCEPT !.deferred = Append(@, e)].epoch = q.epoch
           /\ [q EXCEPT !.deferred = Append(@, e)].closed = q.closed
           /\ [q EXCEPT !.deferred = Append(@, e)].reserved = q.reserved
           /\ [q EXCEPT !.deferred = Append(@, e)].entries = q.entries
           /\ [q EXCEPT !.deferred = Append(@, e)].deferred = Append(q.deferred, e)
           /\ HostOK([q EXCEPT !.deferred = Append(@, e)], own, G, n + 1)
<1>1. PICK E \in Seq(Entry) : E = q.entries
  BY DEF HostOK, SteeringQueue
<1>2. PICK D \in Seq(Entry) : D = q.deferred
  BY DEF HostOK, SteeringQueue
<1>3. PICK m \in Nat : m = Len(E)
  OBVIOUS
<1>4. PICK l \in Nat : l = Len(D)
  OBVIOUS
<1>a. Append(D, e) \in Seq(Entry)
  OBVIOUS
<1>5. PICK D1 \in Seq(Entry) : D1 = Append(D, e)
  BY <1>a, Zenon
<1>6. Len(D1) = l + 1 /\ D1[l + 1] = e /\ \A i \in 1..l : D1[i] = D[i]
  BY <1>4, <1>5
<1>9. q \in SteeringQueue
  BY DEF HostOK
<1> DEFINE r == [q EXCEPT !.deferred = Append(@, e)]
<1>12. r = [q EXCEPT !.deferred = D1]
  BY <1>2, <1>5, Zenon
<1>13. /\ r \in SteeringQueue /\ r.entries = E /\ r.deferred = D1 /\ r.epoch = q.epoch
       /\ r.closed = q.closed /\ r.reserved = q.reserved
  <2> HIDE DEF r
  <2> QED
    BY <1>1, <1>9, <1>12 DEF SteeringQueue
<1> HIDE DEF r
<1>14. Total(E, D) = m + l /\ Total(E, D1) = m + l + 1
  BY <1>3, <1>4, <1>6 DEF Total
<1>15. ASSUME NEW i \in 1..(m + l) PROVE At(E, D1, i) = At(E, D, i)
  <2>1. CASE i <= m
    BY <1>3, <2>1 DEF At
  <2>2. CASE ~(i <= m)
    <3>1. i - m \in 1..l
      BY <2>2
    <3> QED
      BY <1>3, <1>6, <2>2, <3>1 DEF At
  <2> QED
    BY <2>1, <2>2
<1>16. At(E, D1, m + l + 1) = e
  <2>1. ~(m + l + 1 <= m) /\ m + l + 1 - m = l + 1
    OBVIOUS
  <2> QED
    BY <1>3, <1>6, <2>1 DEF At
<1>17. OwnNotices(E, D, q.epoch, own) /\ GuidanceApart(E, D, G, n)
  BY <1>1, <1>2 DEF HostOK
<1>18. ASSUME NEW i \in 1..(m + l) PROVE At(E, D, i).key # e.key
  <2>1. CASE i <= m
    BY <1>1, <1>3, <2>1 DEF At, HasKey
  <2>2. CASE ~(i <= m)
    <3>1. i - m \in 1..l
      BY <2>2
    <3> QED
      BY <1>2, <1>3, <1>4, <2>2, <3>1 DEF At, HasKey
  <2> QED
    BY <2>1, <2>2
<1>19. \A i \in 1..(m + l + 1) : i \in 1..(m + l) \/ i = m + l + 1
  OBVIOUS
<1>20. OwnNotices(E, D1, q.epoch, own)
  <2> SUFFICES ASSUME NEW i \in 1..(m + l + 1), At(E, D1, i).key # NoKey
               PROVE  /\ own[At(E, D1, i).key] = q.epoch
                      /\ \A j \in 1..(m + l + 1) : At(E, D1, j).key = At(E, D1, i).key => j = i
    BY <1>14 DEF OwnNotices
  <2>1. CASE i = m + l + 1
    BY <1>15, <1>16, <1>18, <1>19, <2>1
  <2>2. CASE i \in 1..(m + l)
    <3>1. /\ own[At(E, D, i).key] = q.epoch
          /\ \A j \in 1..(m + l) : At(E, D, j).key = At(E, D, i).key => j = i
      BY <1>14, <1>15, <1>17, <2>2 DEF OwnNotices
    <3> QED
      BY <1>15, <1>16, <1>18, <1>19, <2>2, <3>1
  <2> QED
    BY <1>19, <2>1, <2>2
<1>22. ASSUME NEW i \in 1..(m + l)
       PROVE  At(E, D, i).input \in Nat /\ At(E, D, i).input <= n + 1
  <2>1. At(E, D, i).input \in Nat /\ At(E, D, i).input <= n
    BY <1>14, <1>17, TotalType DEF GuidanceApart, Entry
  <2> QED
    BY <2>1
<1>23. GuidanceApart(E, D1, G, n + 1)
  <2>1. ASSUME NEW i \in 1..(m + l + 1)
        PROVE  /\ At(E, D1, i).input <= n + 1
               /\ At(E, D1, i).key # NoKey => At(E, D1, i).input \notin G
               /\ i > m => At(E, D1, i).key # NoKey
    <3>1. CASE i = m + l + 1
      <4>1. n + 1 \notin G
        OBVIOUS
      <4> QED
        BY <1>16, <3>1, <4>1
    <3>2. CASE i \in 1..(m + l)
      BY <1>3, <1>14, <1>15, <1>17, <1>22, <3>2 DEF GuidanceApart
    <3> QED
      BY <1>19, <3>1, <3>2
  <2>2. ASSUME NEW i \in 1..(m + l + 1), NEW j \in 1..(m + l + 1),
               i < j, At(E, D1, i).key = NoKey, At(E, D1, j).key = NoKey
        PROVE  At(E, D1, i).input < At(E, D1, j).input
    <3>1. i \in 1..(m + l) /\ j \in 1..(m + l)
      BY <1>16, <1>19, <2>2
    <3> QED
      BY <1>14, <1>15, <1>17, <2>2, <3>1 DEF GuidanceApart
  <2> QED
    BY <1>3, <1>14, <2>1, <2>2 DEF GuidanceApart
<1>24. HostOK(r, own, G, n + 1)
  BY <1>1, <1>13, <1>20, <1>23 DEF HostOK
<1> QED
  BY <1>1, <1>2, <1>5, <1>13, <1>24 DEF r

-----------------------------------------------------------------------------
(* The transitions of the host's queue keep this knowledge                 *)

AllWake(s) == \A i \in 1..Len(s) : s[i].wake

LEMMA WakeInherits ==
    ASSUME NEW E \in Seq(Entry), NEW D \in Seq(Entry),
           NEW E1 \in Seq(Entry), NEW D1 \in Seq(Entry), NEW d, NEW p, NEW L,
           Derived(E1, D1, E, D, d, p, L), AllWake(E)
    PROVE  AllWake(E1)
<1>1. PICK f : Follows(f, E1, D1, E, D, d, p, L)
  BY DEF Derived
<1>2. PICK e \in Nat : e = Len(E)
  OBVIOUS
<1>3. PICK e1 \in Nat : e1 = Len(E1)
  OBVIOUS
<1> SUFFICES ASSUME NEW i \in 1..e1 PROVE E1[i].wake
  BY <1>3 DEF AllWake
<1>4. PICK t \in Nat : t = Total(E, D)
  BY TotalType
<1>a. Total(E1, D1) \in Nat /\ e1 <= Total(E1, D1)
  <2>1. PICK l \in Nat : l = Len(D1)
    OBVIOUS
  <2> QED
    BY <1>3, <2>1 DEF Total
<1>5. PICK t1 \in Nat : t1 = Total(E1, D1) /\ e1 <= t1
  BY <1>a
<1>b. i \in 1..t1
  BY <1>5
<1>6. f[i] \in 1..t /\ (i <= e1 /\ (f[i] <= e => E[f[i]].wake) => E1[i].wake)
  BY <1>1, <1>2, <1>3, <1>4, <1>5, <1>b DEF Follows
<1>7. ASSUME f[i] <= e PROVE E[f[i]].wake
  BY <1>2, <1>6, <1>7 DEF AllWake
<1>8. i <= e1
  OBVIOUS
<1> QED
  BY <1>6, <1>7, <1>8

LEMMA HostPromoted ==
    ASSUME NEW q, NEW own, NEW G, NEW n \in Nat, HostOK(q, own, G, n)
    PROVE  /\ HostOK(Promoted(q), own, G, n)
           /\ AllWake(q.entries) => AllWake(Promoted(q).entries)
<1>1. q \in SteeringQueue /\ q.reserved <= Len(q.entries)
  BY DEF HostOK
<1> DEFINE r == Promoted(q)
<1>2. /\ r \in SteeringQueue /\ r.epoch = q.epoch /\ r.closed = q.closed /\ r.reserved = q.reserved
      /\ \A p \in 0..Len(q.entries) : Derived(r.entries, r.deferred, q.entries, q.deferred, 0, p, {})
  BY <1>1, PromotedDerives
<1> HIDE DEF r
<1>3. PICK E \in Seq(Entry) : E = q.entries
  BY <1>1 DEF SteeringQueue
<1>4. PICK E1 \in Seq(Entry) : E1 = r.entries
  BY <1>2 DEF SteeringQueue
<1>5. q.deferred \in Seq(Entry) /\ r.deferred \in Seq(Entry)
  BY <1>1, <1>2 DEF SteeringQueue
<1>6. PICK e \in Nat : e = Len(E)
  OBVIOUS
<1>7. Derived(E1, r.deferred, E, q.deferred, 0, e, {})
  BY <1>2, <1>3, <1>4, <1>6
<1>8. e <= Len(E1)
  BY <1>7 DEF Derived, Follows
<1>9. r.reserved <= Len(r.entries)
  <2>1. PICK x \in Nat : x = Len(E1)
    OBVIOUS
  <2>2. PICK y \in Nat : y = q.reserved
    BY <1>1 DEF SteeringQueue
  <2>3. y <= e /\ e <= x
    BY <1>1, <1>3, <1>6, <1>8, <2>1, <2>2
  <2> QED
    BY <1>2, <1>4, <2>1, <2>2, <2>3
<1>10. HostOK(r, own, G, n)
  <2>1. 0 \in Nat /\ Derived(r.entries, r.deferred, q.entries, q.deferred, 0, e, {})
    BY <1>3, <1>4, <1>7
  <2> QED
    BY <1>2, <1>9, <2>1, HostInherits
<1>11. AllWake(E) => AllWake(E1)
  BY <1>5, <1>7, WakeInherits
<1> QED
  BY <1>3, <1>4, <1>10, <1>11 DEF r

LEMMA HostAcknowledged ==
    ASSUME NEW q, NEW own, NEW G, NEW n \in Nat, NEW k \in Nat, HostOK(q, own, G, n)
    PROVE  /\ HostOK(Acknowledged(q, k), own, G, n)
           /\ AllWake(q.entries) => AllWake(Acknowledged(q, k).entries)
<1>1. q \in SteeringQueue /\ q.reserved <= Len(q.entries)
  BY DEF HostOK
<1> DEFINE r == Acknowledged(q, k)
<1>2. /\ r \in SteeringQueue /\ r.epoch = q.epoch /\ r.closed = q.closed
      /\ r.reserved <= Len(r.entries)
      /\ \E d \in 0..Len(q.entries) : \A p \in 0..(Len(q.entries) - d) :
           Derived(r.entries, r.deferred, q.entries, q.deferred, d, p, {})
  BY <1>1, AcknowledgedDerives
<1> HIDE DEF r
<1>3. PICK E \in Seq(Entry) : E = q.entries
  BY <1>1 DEF SteeringQueue
<1>4. PICK E1 \in Seq(Entry) : E1 = r.entries
  BY <1>2 DEF SteeringQueue
<1>5. q.deferred \in Seq(Entry) /\ r.deferred \in Seq(Entry)
  BY <1>1, <1>2 DEF SteeringQueue
<1>6. PICK e \in Nat : e = Len(E)
  OBVIOUS
<1>7. PICK d \in 0..e : \A p \in 0..(e - d) :
           Derived(E1, r.deferred, E, q.deferred, d, p, {})
  BY <1>2, <1>3, <1>4, <1>6
<1>8. 0 \in 0..(e - d) /\ d \in Nat
  OBVIOUS
<1>9. Derived(E1, r.deferred, E, q.deferred, d, 0, {})
  BY <1>7, <1>8
<1>10. HostOK(r, own, G, n)
  BY <1>2, <1>3, <1>4, <1>8, <1>9, HostInherits
<1>11. AllWake(E) => AllWake(E1)
  BY <1>5, <1>9, WakeInherits
<1> QED
  BY <1>3, <1>4, <1>10, <1>11 DEF r

LEMMA HostDismissed ==
    ASSUME NEW q, NEW own, NEW G, NEW n \in Nat, NEW k, HostOK(q, own, G, n)
    PROVE  /\ HostOK(Dismissed(q, k), own, G, n)
           /\ AllWake(q.entries) => AllWake(Dismissed(q, k).entries)
<1>1. q \in SteeringQueue /\ q.reserved <= Len(q.entries)
  BY DEF HostOK
<1> DEFINE r == Dismissed(q, k)
<1>2. /\ r \in SteeringQueue /\ r.epoch = q.epoch /\ r.closed = q.closed
      /\ r.reserved = q.reserved
      /\ \A p \in 0..q.reserved :
           Derived(r.entries, r.deferred, q.entries, q.deferred, 0, p, {k})
  BY <1>1, DismissedDerives
<1> HIDE DEF r
<1>3. PICK E \in Seq(Entry) : E = q.entries
  BY <1>1 DEF SteeringQueue
<1>4. PICK E1 \in Seq(Entry) : E1 = r.entries
  BY <1>2 DEF SteeringQueue
<1>5. q.deferred \in Seq(Entry) /\ r.deferred \in Seq(Entry)
  BY <1>1, <1>2 DEF SteeringQueue
<1>6. PICK x \in Nat : x = q.reserved
  BY <1>1 DEF SteeringQueue
<1>7. Derived(E1, r.deferred, E, q.deferred, 0, x, {k})
  <2>1. x \in 0..q.reserved
    BY <1>6
  <2> QED
    BY <1>2, <1>3, <1>4, <2>1
<1>8. x <= Len(E1)
  BY <1>7 DEF Derived, Follows
<1>9. r.reserved <= Len(r.entries)
  BY <1>2, <1>4, <1>6, <1>8
<1>10. HostOK(r, own, G, n)
  <2>1. 0 \in Nat /\ Derived(r.entries, r.deferred, q.entries, q.deferred, 0, x, {k})
    BY <1>3, <1>4, <1>7
  <2> QED
    BY <1>2, <1>9, <2>1, HostInherits
<1>11. AllWake(E) => AllWake(E1)
  BY <1>5, <1>7, WakeInherits
<1> QED
  BY <1>3, <1>4, <1>10, <1>11 DEF r

LEMMA HostCompleted ==
    ASSUME NEW q, NEW own, NEW G, NEW n \in Nat, NEW e \in Entry, NEW ep,
           HostOK(q, own, G, n), \A x \in G : x \in Nat /\ x <= n,
           e.input = n + 1, e.key # NoKey, own[e.key] = ep
    PROVE  /\ HostOK(Completed(q, ep, e), own, G, n + 1)
           /\ AllWake(q.entries) => AllWake(Completed(q, ep, e).entries)
<1> DEFINE refused == \/ ep # q.epoch
                      \/ HasKey(q.entries, e.key) \/ HasKey(q.deferred, e.key)
                      \/ e.bytes > ByteLimit
           r == [q EXCEPT !.deferred = Append(@, e)]
<1>1. Completed(q, ep, e) = IF refused THEN q ELSE Promoted(r)
  BY Zenon DEF Completed
<1>2. CASE refused
  <2>1. Completed(q, ep, e) = q
    BY <1>1, <1>2
  <2> QED
    BY <2>1, HostLater
<1>3. CASE ~refused
  <2>1. HostOK(r, own, G, n + 1) /\ r.entries = q.entries
    BY <1>3, HostDeferred
  <2> HIDE DEF r
  <2>2. n + 1 \in Nat
    OBVIOUS
  <2>3. HostOK(Promoted(r), own, G, n + 1) /\ (AllWake(r.entries) => AllWake(Promoted(r).entries))
    BY <2>1, <2>2, HostPromoted
  <2>4. Completed(q, ep, e) = Promoted(r)
    BY <1>1, <1>3
  <2> QED
    BY <2>1, <2>3, <2>4
<1> QED
  BY <1>2, <1>3

LEMMA HostReserved ==
    ASSUME NEW q, NEW own, NEW G, NEW n \in Nat, HostOK(q, own, G, n)
    PROVE  /\ HostOK(Reserved(q), own, G, n) /\ HostOK(Closed(q), own, G, n)
           /\ Reserved(q).entries = q.entries /\ Closed(q).entries = q.entries
           /\ Reserved(q).deferred = q.deferred /\ Closed(q).deferred = q.deferred
           /\ Reserved(q).reserved = Len(q.entries) /\ Closed(q).reserved = Len(q.entries)
<1>1. q \in SteeringQueue
  BY DEF HostOK
<1>2. PICK E \in Seq(Entry) : E = q.entries
  BY <1>1 DEF SteeringQueue
<1>3. PICK e \in Nat : e = Len(E)
  OBVIOUS
<1>4. Reserved(q) = [q EXCEPT !.reserved = e]
  BY <1>2, <1>3 DEF Reserved
<1>5. /\ Reserved(q) \in SteeringQueue /\ Reserved(q).entries = E
      /\ Reserved(q).deferred = q.deferred /\ Reserved(q).epoch = q.epoch
      /\ Reserved(q).closed = q.closed /\ Reserved(q).reserved = e
  BY <1>1, <1>2, <1>4 DEF SteeringQueue
<1>6. HostOK(Reserved(q), own, G, n)
  BY <1>2, <1>3, <1>5 DEF HostOK
<1>7. CASE E # <<>>
  <2>1. Closed(q) = Reserved(q)
    BY <1>2, <1>7 DEF Closed
  <2> QED
    BY <1>2, <1>3, <1>5, <1>6, <2>1
<1>8. CASE E = <<>>
  <2>1. Closed(q) = [Reserved(q) EXCEPT !.closed = TRUE]
    BY <1>2, <1>8 DEF Closed
  <2>2. /\ Closed(q) \in SteeringQueue /\ Closed(q).entries = E
        /\ Closed(q).deferred = q.deferred /\ Closed(q).epoch = q.epoch
        /\ Closed(q).reserved = e
    <3> HIDE DEF Reserved
    <3> QED
      BY <1>5, <2>1 DEF SteeringQueue
  <2>3. OnlyNotices(E)
    BY <1>8 DEF OnlyNotices
  <2>4. HostOK(Closed(q), own, G, n)
    BY <1>2, <1>3, <2>2, <2>3 DEF HostOK
  <2> QED
    BY <1>2, <1>3, <1>5, <1>6, <2>2, <2>4
<1> QED
  BY <1>7, <1>8

\* The entries of s with their wake flags changed.
LEMMA QuietTags ==
    ASSUME NEW s \in Seq(Entry)
    PROVE  /\ SameTags(Quiet(s), s)
           /\ SameTags([i \in 1..Len(s) |-> IF s[i].key = NoKey THEN [s[i] EXCEPT !.wake = FALSE]
                                            ELSE s[i]], s)
           /\ SameTags(s, s)
<1>1. PICK m \in Nat : m = Len(s)
  OBVIOUS
<1>2. \A i \in 1..m : s[i] \in Entry
  BY <1>1
<1>3. \A i \in 1..m : /\ [s[i] EXCEPT !.wake = FALSE] \in Entry
                      /\ [s[i] EXCEPT !.wake = FALSE].input = s[i].input
                      /\ [s[i] EXCEPT !.wake = FALSE].key = s[i].key
  BY <1>2 DEF Entry
<1> DEFINE t == [i \in 1..m |-> [s[i] EXCEPT !.wake = FALSE]]
           u == [i \in 1..m |-> IF s[i].key = NoKey THEN [s[i] EXCEPT !.wake = FALSE] ELSE s[i]]
<1>4. t \in Seq(Entry) /\ Len(t) = m
  BY <1>3
<1>5. u \in Seq(Entry) /\ Len(u) = m
  BY <1>2, <1>3
<1>6. SameTags(t, s)
  BY <1>1, <1>3, <1>4 DEF SameTags
<1>7. SameTags(u, s)
  BY <1>1, <1>3, <1>5 DEF SameTags
<1> QED
  BY <1>1, <1>6, <1>7 DEF Quiet, SameTags

LEMMA HostQuieted ==
    ASSUME NEW q, NEW own, NEW G, NEW n \in Nat, HostOK(q, own, G, n)
    PROVE  /\ HostOK(WakeConsumed(q), own, G, n) /\ HostOK(WakeSuppressed(q), own, G, n)
           /\ SameTags(WakeConsumed(q).entries, q.entries)
           /\ SameTags(WakeConsumed(q).deferred, q.deferred)
           /\ SameTags(WakeSuppressed(q).entries, q.entries)
           /\ WakeSuppressed(q).deferred = q.deferred
           /\ WakeConsumed(q).reserved = q.reserved /\ WakeSuppressed(q).reserved = q.reserved
<1>1. q \in SteeringQueue /\ q.reserved <= Len(q.entries) /\ (q.closed => OnlyNotices(q.entries))
  BY DEF HostOK
<1>2. PICK E \in Seq(Entry) : E = q.entries
  BY <1>1 DEF SteeringQueue
<1>3. PICK D \in Seq(Entry) : D = q.deferred
  BY <1>1 DEF SteeringQueue
<1>4. PICK E1 \in Seq(Entry) : E1 = Quiet(E) /\ SameTags(E1, E)
  BY QuietTags DEF SameTags
<1>5. PICK D1 \in Seq(Entry) : D1 = Quiet(D) /\ SameTags(D1, D)
  BY QuietTags DEF SameTags
<1> DEFINE F == [i \in 1..Len(E) |-> IF E[i].key = NoKey THEN [E[i] EXCEPT !.wake = FALSE] ELSE E[i]]
<1>6. SameTags(F, E)
  BY QuietTags
<1>7. WakeConsumed(q) = [q EXCEPT !.entries = E1, !.deferred = D1]
  BY <1>2, <1>3, <1>4, <1>5 DEF WakeConsumed
<1>8. WakeSuppressed(q) = [q EXCEPT !.entries = F]
  BY <1>2, Zenon DEF WakeSuppressed
<1> HIDE DEF F
<1>9. F \in Seq(Entry) /\ Len(F) = Len(E) /\ Len(E1) = Len(E)
  BY <1>4, <1>6 DEF SameTags
<1>10. /\ WakeConsumed(q) \in SteeringQueue /\ WakeConsumed(q).entries = E1
       /\ WakeConsumed(q).deferred = D1 /\ WakeConsumed(q).epoch = q.epoch
       /\ WakeConsumed(q).closed = q.closed /\ WakeConsumed(q).reserved = q.reserved
  BY <1>1, <1>7 DEF SteeringQueue
<1>11. /\ WakeSuppressed(q) \in SteeringQueue /\ WakeSuppressed(q).entries = F
       /\ WakeSuppressed(q).deferred = D /\ WakeSuppressed(q).epoch = q.epoch
       /\ WakeSuppressed(q).closed = q.closed /\ WakeSuppressed(q).reserved = q.reserved
  BY <1>1, <1>3, <1>8, <1>9 DEF SteeringQueue
<1>12. SameTags(D, D)
  BY QuietTags
<1>13. HostOK(WakeConsumed(q), own, G, n)
  BY <1>1, <1>2, <1>3, <1>4, <1>5, <1>9, <1>10, HostRetagged
<1>14. HostOK(WakeSuppressed(q), own, G, n)
  BY <1>1, <1>2, <1>3, <1>6, <1>9, <1>11, <1>12, HostRetagged
<1> QED
  BY <1>2, <1>3, <1>4, <1>5, <1>6, <1>10, <1>11, <1>13, <1>14

\* A queue without entries.
LEMMA HostEmpty ==
    ASSUME NEW q \in SteeringQueue, NEW own, NEW G, NEW n,
           q.entries = <<>>, q.deferred = <<>>, q.reserved = 0, q.epoch >= 1
    PROVE  HostOK(q, own, G, n)
<1>1. Total(<<>>, <<>>) = 0
  BY DEF Total
<1>2. OwnNotices(<<>>, <<>>, q.epoch, own) /\ GuidanceApart(<<>>, <<>>, G, n) /\ OnlyNotices(<<>>)
  BY <1>1 DEF OwnNotices, GuidanceApart, OnlyNotices
<1> QED
  BY <1>2 DEF HostOK

-----------------------------------------------------------------------------
(* The report queue                                                        *)

\* Reports are not guidance.
ReportsOK(q, G, n) ==
    /\ q \in SteeringQueue /\ q.reserved <= Len(q.entries)
    /\ \A i \in 1..Total(q.entries, q.deferred) :
        /\ At(q.entries, q.deferred, i).input <= n
        /\ At(q.entries, q.deferred, i).input \notin G

LEMMA ReportsInherit ==
    ASSUME NEW q, NEW r \in SteeringQueue, NEW G, NEW n, NEW d, NEW p, NEW L,
           ReportsOK(q, G, n), r.reserved <= Len(r.entries),
           Derived(r.entries, r.deferred, q.entries, q.deferred, d, p, L)
    PROVE  ReportsOK(r, G, n)
<1>1. PICK f : Follows(f, r.entries, r.deferred, q.entries, q.deferred, d, p, L)
  BY DEF Derived
<1>2. \A i \in 1..Total(r.entries, r.deferred) :
        /\ f[i] \in 1..Total(q.entries, q.deferred)
        /\ At(r.entries, r.deferred, i).input = At(q.entries, q.deferred, f[i]).input
  BY <1>1 DEF Follows
<1> QED
  BY <1>2 DEF ReportsOK

LEMMA ReportsAcknowledged ==
    ASSUME NEW q, NEW G, NEW n \in Nat, NEW k \in Nat, ReportsOK(q, G, n)
    PROVE  ReportsOK(Acknowledged(q, k), G, n)
<1>1. q \in SteeringQueue /\ q.reserved <= Len(q.entries)
  BY DEF ReportsOK
<1> DEFINE r == Acknowledged(q, k)
<1>2. /\ r \in SteeringQueue /\ r.reserved <= Len(r.entries)
      /\ \E d \in 0..Len(q.entries) : \A p \in 0..(Len(q.entries) - d) :
           Derived(r.entries, r.deferred, q.entries, q.deferred, d, p, {})
  BY <1>1, AcknowledgedDerives
<1> HIDE DEF r
<1>3. PICK e \in Nat : e = Len(q.entries)
  BY <1>1 DEF SteeringQueue
<1>4. PICK d \in 0..e : \A p \in 0..(e - d) :
           Derived(r.entries, r.deferred, q.entries, q.deferred, d, p, {})
  BY <1>2, <1>3
<1>5. 0 \in 0..(e - d)
  OBVIOUS
<1>6. Derived(r.entries, r.deferred, q.entries, q.deferred, d, 0, {})
  BY <1>4, <1>5
<1> QED
  BY <1>2, <1>6, ReportsInherit DEF r

\* deliverToLoop
LEMMA ReportsDelivered ==
    ASSUME NEW q, NEW G, NEW n \in Nat, NEW e \in Entry, ReportsOK(q, G, n),
           \A x \in G : x \in Nat /\ x <= n, e.input = n + 1
    PROVE  /\ [q EXCEPT !.deferred = Append(@, e)] \in SteeringQueue
           /\ [q EXCEPT !.deferred = Append(@, e)].entries = q.entries
           /\ [q EXCEPT !.deferred = Append(@, e)].deferred = Append(q.deferred, e)
           /\ ReportsOK(Promoted([q EXCEPT !.deferred = Append(@, e)]), G, n + 1)
<1>1. q \in SteeringQueue /\ q.reserved <= Len(q.entries)
  BY DEF ReportsOK
<1>2. PICK E \in Seq(Entry) : E = q.entries
  BY <1>1 DEF SteeringQueue
<1>3. PICK D \in Seq(Entry) : D = q.deferred
  BY <1>1 DEF SteeringQueue
<1>4. PICK m \in Nat : m = Len(E)
  OBVIOUS
<1>5. PICK l \in Nat : l = Len(D)
  OBVIOUS
<1>a. Append(D, e) \in Seq(Entry)
  OBVIOUS
<1>6. PICK D1 \in Seq(Entry) : D1 = Append(D, e)
  BY <1>a, Zenon
<1>7. Len(D1) = l + 1 /\ D1[l + 1] = e /\ \A i \in 1..l : D1[i] = D[i]
  BY <1>5, <1>6
<1> DEFINE r == [q EXCEPT !.deferred = Append(@, e)]
<1>8. r = [q EXCEPT !.deferred = D1]
  BY <1>3, <1>6, Zenon
<1>9. /\ r \in SteeringQueue /\ r.entries = E /\ r.deferred = D1 /\ r.reserved = q.reserved
  <2> HIDE DEF r
  <2> QED
    BY <1>1, <1>2, <1>8 DEF SteeringQueue
<1> HIDE DEF r
<1>10. Total(E, D) = m + l /\ Total(E, D1) = m + l + 1
  BY <1>4, <1>5, <1>7 DEF Total
<1>11. ASSUME NEW i \in 1..(m + l + 1)
       PROVE  At(E, D1, i).input <= n + 1 /\ At(E, D1, i).input \notin G
  <2>1. CASE i <= m
    <3>1. At(E, D1, i) = E[i] /\ At(E, D, i) = E[i] /\ i \in 1..(m + l)
      BY <1>4, <2>1 DEF At
    <3>2. At(E, D, i).input <= n /\ At(E, D, i).input \notin G /\ At(E, D, i) \in Entry
      BY <1>2, <1>3, <1>10, <3>1, TotalType DEF ReportsOK
    <3>3. PICK x \in Nat : x = At(E, D, i).input
      BY <3>2 DEF Entry
    <3> QED
      BY <3>1, <3>2, <3>3
  <2>2. CASE i > m /\ i <= m + l
    <3>1. i - m \in 1..l
      BY <2>2
    <3>2. At(E, D1, i) = D1[i - m] /\ At(E, D, i) = D[i - m] /\ i \in 1..(m + l)
      BY <1>4, <2>2 DEF At
    <3>3. At(E, D, i).input <= n /\ At(E, D, i).input \notin G /\ At(E, D, i) \in Entry
      BY <1>2, <1>3, <1>10, <3>2, TotalType DEF ReportsOK
    <3>4. PICK x \in Nat : x = At(E, D, i).input
      BY <3>3 DEF Entry
    <3> QED
      BY <1>7, <3>1, <3>2, <3>3, <3>4
  <2>3. CASE i = m + l + 1
    <3>1. ~(i <= m) /\ i - m = l + 1
      BY <2>3
    <3>2. At(E, D1, i) = e
      BY <1>4, <1>7, <3>1 DEF At
    <3>3. n + 1 \notin G
      OBVIOUS
    <3> QED
      BY <3>2, <3>3
  <2> QED
    BY <2>1, <2>2, <2>3
<1>12. ReportsOK(r, G, n + 1)
  BY <1>1, <1>2, <1>9, <1>10, <1>11 DEF ReportsOK
<1> DEFINE a == Promoted(r)
<1>13. /\ a \in SteeringQueue /\ a.reserved = r.reserved
       /\ \A p \in 0..Len(r.entries) : Derived(a.entries, a.deferred, r.entries, r.deferred, 0, p, {})
  BY <1>9, PromotedDerives
<1> HIDE DEF a
<1>14. Derived(a.entries, a.deferred, E, D1, 0, m, {})
  BY <1>4, <1>9, <1>13
<1>15. m <= Len(a.entries)
  BY <1>14 DEF Derived, Follows
<1>16. a.reserved <= Len(a.entries)
  <2>1. PICK x \in Nat : x = Len(a.entries)
    BY <1>13 DEF SteeringQueue
  <2>2. PICK y \in Nat : y = q.reserved
    BY <1>1 DEF SteeringQueue
  <2>3. y <= m /\ m <= x
    BY <1>1, <1>2, <1>4, <1>15, <2>1, <2>2
  <2> QED
    BY <1>9, <1>13, <2>1, <2>2, <2>3
<1>17. ReportsOK(a, G, n + 1)
  BY <1>9, <1>12, <1>13, <1>14, <1>16, ReportsInherit
<1> QED
  BY <1>2, <1>3, <1>6, <1>9, <1>17 DEF r, a

-----------------------------------------------------------------------------
(* The invariant that all properties rest on                               *)

LoopTypes ==
    /\ conf \in Configurations /\ pc \in Points
    /\ first \in Seq(Nat) /\ pending \in [inputs : Seq(Nat), ack : Nat]
    /\ hostShare \in Nat /\ turns \in Nat /\ incomplete \in BOOLEAN /\ cancel \in BOOLEAN
    /\ result \in {"none", "answered", "failed", "cancelled"}
    /\ history \in Seq(Nat) /\ base \in Nat /\ next \in Nat
    /\ guidance \in SUBSET Nat /\ notices \in SUBSET Nat
    /\ \A x \in guidance : x \in Nat /\ x <= next
    /\ hook \in Nat /\ owner \in [Keys -> Nat]

\* While the answer is given, and after it, all that is queued wakes the host.
Awake ==
    /\ pc = "closing" \/ (pc \in {"ending", "idle"} /\ result = "answered") => AllWake(host.entries)
    /\ pc = "resetting" => result = "none"

LoopInvariant ==
    /\ LoopTypes /\ Awake
    /\ HostOK(host, owner, guidance, next)
    /\ ReportsOK(reports, guidance, next)

LEMMA InputsFacts ==
    ASSUME NEW s \in Seq(Entry)
    PROVE  /\ Inputs(s) \in Seq(Nat) /\ Len(Inputs(s)) = Len(s)
           /\ \A i \in 1..Len(s) : Inputs(s)[i] = s[i].input
<1>1. PICK m \in Nat : m = Len(s)
  OBVIOUS
<1>a. \A i \in 1..m : s[i] \in Entry
  BY <1>1
<1>2. \A i \in 1..m : s[i].input \in Nat
  BY <1>a DEF Entry
<1> DEFINE t == [i \in 1..m |-> s[i].input]
<1>3. t \in Seq(Nat) /\ Len(t) = m /\ \A i \in 1..m : t[i] = s[i].input
  BY <1>2
<1> QED
  BY <1>1, <1>3 DEF Inputs

\* loopReadSteering
LEMMA ReadFacts ==
    ASSUME LoopInvariant
    PROVE  /\ Read \in Seq(Nat)
           /\ ~conf.reports => Read = Inputs(host.entries)
           /\ conf.reports => Read = Inputs(host.entries) \o Inputs(reports.entries)
<1>1. host.entries \in Seq(Entry) /\ reports.entries \in Seq(Entry)
  BY DEF LoopInvariant, HostOK, ReportsOK, SteeringQueue
<1>2. Inputs(host.entries) \in Seq(Nat) /\ Inputs(reports.entries) \in Seq(Nat)
  BY <1>1, InputsFacts
<1>3. PICK s \in Seq(Nat) : s = Inputs(host.entries)
  BY <1>2
<1>4. PICK u \in Seq(Nat) : u = Inputs(reports.entries)
  BY <1>2
<1>5. /\ ~conf.reports => Read = s \o <<>>
      /\ conf.reports => Read = s \o u
  BY <1>3, <1>4 DEF Read
<1>6. s \o <<>> = s /\ s \o u \in Seq(Nat)
  OBVIOUS
<1>7. CASE conf.reports
  BY <1>3, <1>4, <1>5, <1>6, <1>7
<1>8. CASE ~conf.reports
  BY <1>3, <1>4, <1>5, <1>6, <1>8
<1> QED
  BY <1>7, <1>8

\* The state of the loop keeps its types.
LEMMA TypesStep ==
    ASSUME LoopInvariant, [Next]_vars
    PROVE  LoopTypes'
<1>1. LoopTypes
  BY DEF LoopInvariant
<1>2. host.entries \in Seq(Entry) /\ reports.entries \in Seq(Entry) /\ host.epoch \in Nat
  BY DEF LoopInvariant, HostOK, ReportsOK, SteeringQueue
<1>3. Inputs(host.entries) \in Seq(Nat) /\ Inputs(reports.entries) \in Seq(Nat)
      /\ Len(host.entries) \in Nat
  BY <1>2, InputsFacts
<1>4. Read \in Seq(Nat)
  BY ReadFacts
<1>5. Len(Read) \in Nat /\ first \o Read \in Seq(Nat)
  BY <1>1, <1>4 DEF LoopTypes
<1>6. pending.inputs \in Seq(Nat) /\ pending.ack \in Nat
  BY <1>1 DEF LoopTypes
<1>7. history \o pending.inputs \in Seq(Nat)
  BY <1>1, <1>6 DEF LoopTypes
<1>8. pending.inputs \o Drop(Read, pending.ack) \in Seq(Nat)
  <2>1. Drop(Read, pending.ack) \in Seq(Nat)
    BY <1>4, <1>6 DEF Drop
  <2> QED
    BY <1>6, <2>1
<1>9. NoPending \in [inputs : Seq(Nat), ack : Nat]
  BY DEF NoPending
<1> USE DEF LoopTypes, Points
<1>10. CASE UNCHANGED vars
  BY <1>1, <1>10 DEF vars, queueVars, loopVars, convVars, taskVars
<1>11. ASSUME Offered PROVE next' \in Nat /\ \A x \in guidance : x <= next'
  BY <1>1, <1>11 DEF Offered
<1>12. ASSUME NEW n \in Sizes, EnqueueSteering(n) PROVE LoopTypes'
  <2>1. guidance' \in SUBSET Nat /\ \A x \in guidance' : x \in Nat /\ x <= next'
    <3>1. next' = next + 1 /\ next \in Nat
      BY <1>1, <1>12 DEF EnqueueSteering, Offered
    <3>2. guidance' = guidance \/ guidance' = guidance \cup {next + 1}
      BY <1>12 DEF EnqueueSteering, InputEntry
    <3>3. next + 1 \in Nat /\ \A x \in guidance : x \in Nat /\ x <= next + 1
      BY <1>1, <3>1
    <3>4. guidance \in SUBSET Nat
      BY <1>1
    <3>5. CASE guidance' = guidance
      BY <3>1, <3>3, <3>4, <3>5
    <3>6. CASE guidance' = guidance \cup {next + 1}
      BY <3>1, <3>3, <3>4, <3>6
    <3> QED
      BY <3>2, <3>5, <3>6
  <2> QED
    BY <1>1, <1>11, <1>12, <2>1 DEF EnqueueSteering, Offered, loopVars, taskVars
<1>13. ASSUME NEW n \in Sizes, Report(n) PROVE LoopTypes'
  <2>1. notices' \in SUBSET Nat
    BY <1>1, <1>13 DEF Report, InputEntry
  <2> QED
    BY <1>1, <1>11, <1>13, <2>1 DEF Report, Offered, loopVars, taskVars
<1>14. ASSUME NEW k \in Keys, Launch(k) PROVE LoopTypes'
  BY <1>1, <1>14 DEF Launch, loopVars, convVars
<1>15. ASSUME NEW k \in Keys, DismissTask(k) PROVE LoopTypes'
  <2>1. notices' \in SUBSET Nat
    BY <1>1, <1>15 DEF DismissTask
  <2> QED
    BY <1>1, <1>15, <2>1 DEF DismissTask, loopVars, taskVars
<1>16. ASSUME NEW k \in Keys, NEW n \in Sizes, CompleteTask(k, n) PROVE LoopTypes'
  <2>1. notices' = notices \/ notices' = notices \cup {next + 1}
    <3>1. [InputEntry(next + 1, n, "none") EXCEPT !.key = k].input = next + 1
      BY DEF InputEntry
    <3> QED
      BY <1>16, <3>1 DEF CompleteTask
  <2>2. notices' \in SUBSET Nat
    <3>1. notices \in SUBSET Nat /\ next + 1 \in Nat
      BY <1>1
    <3> QED
      BY <2>1, <3>1
  <2> QED
    BY <1>1, <1>11, <1>16, <2>2 DEF CompleteTask, Offered, loopVars, taskVars
<1>17. CASE RequestCancel
  BY <1>1, <1>17 DEF RequestCancel, loopVars, convVars, taskVars
<1>18. CASE Prompt
  <2>1. <<next + 1>> \in Seq(Nat)
    BY <1>1
  <2> QED
    BY <1>1, <1>11, <1>18, <2>1 DEF Prompt, Goto, Offered, convVars, taskVars
<1>19. CASE Wake
  BY <1>1, <1>19 DEF Wake, Goto, convVars, taskVars
<1>20. CASE StartWoken
  <2>1. pc' \in Points
    BY <1>20 DEF StartWoken, Goto
  <2>2. first' \in Seq(Nat)
    BY <1>20 DEF StartWoken
  <2> QED
    BY <1>1, <1>20, <2>1, <2>2 DEF StartWoken, convVars, taskVars
<1>21. CASE ResetSession
  BY <1>1, <1>21 DEF ResetSession, Goto, taskVars
<1>22. CASE InstallHooks
  BY <1>1, <1>2, <1>22 DEF InstallHooks, Goto, convVars
<1>23. CASE Recover
  <2>1. history' \in Seq(Nat)
    BY <1>1, <1>7, <1>23 DEF Recover
  <2> QED
    <3>1. /\ first' = <<>> /\ pending' = NoPending /\ hostShare' = 0
          /\ turns' = 0 /\ incomplete' = FALSE /\ base' = 0 /\ pc' = "idle"
          /\ UNCHANGED <<conf, result, cancel, guidance, notices, next, taskVars>>
      BY <1>23 DEF Recover, TurnOver
    <3>2. first' \in Seq(Nat) /\ pending' \in [inputs : Seq(Nat), ack : Nat]
      BY <1>9, <3>1
    <3> QED
      BY <1>1, <2>1, <3>1, <3>2 DEF taskVars
<1>24. CASE BeginTurn
  <2>1. pending' \in [inputs : Seq(Nat), ack : Nat] /\ hostShare' \in Nat /\ base' \in Nat
    BY <1>1, <1>3, <1>5, <1>24 DEF BeginTurn, ReadSteering
  <2> QED
    BY <1>1, <1>24, <2>1 DEF BeginTurn, Goto, taskVars
<1>25. CASE Submit
  BY <1>1, <1>25 DEF Submit, Ends, Goto, convVars, taskVars
<1>26. ASSUME Salvage \/ NoSalvage
       PROVE  /\ pending' \in [inputs : Seq(Nat), ack : Nat] /\ history' \in Seq(Nat)
              /\ UNCHANGED <<hostShare, base, guidance, notices>>
  BY <1>1, <1>7, <1>9, <1>26 DEF Salvage, NoSalvage, convVars
<1>27. CASE Steered
  BY <1>1, <1>26, <1>27 DEF Steered, Goto, taskVars
<1>28. CASE Aborted
  BY <1>1, <1>26, <1>28 DEF Aborted, Ends, Goto, taskVars
<1>29. CASE ContinueSteered
  <2>1. pending' \in [inputs : Seq(Nat), ack : Nat] /\ hostShare' \in Nat
    <3>1. PICK s \in Seq(Nat) : s = pending.inputs \o Drop(Read, pending.ack)
      BY <1>8
    <3>2. PICK a \in Nat : a = Len(Read)
      BY <1>5
    <3>3. CASE UNCHANGED <<queueVars, pending, hostShare>>
      BY <1>1, <3>3
    <3>4. CASE ReadSteering /\ pending' = [inputs |-> s, ack |-> a]
      <4>1. hostShare' = Len(host.entries)
        BY <3>4 DEF ReadSteering
      <4>2. pending' \in [inputs : Seq(Nat), ack : Nat]
        BY <3>4
      <4> QED
        BY <1>3, <4>1, <4>2
    <3> QED
      BY <1>29, <3>1, <3>2, <3>3, <3>4 DEF ContinueSteered
  <2> QED
    BY <1>1, <1>29, <2>1 DEF ContinueSteered, Ends, Goto, convVars, taskVars
<1>30. CASE Absorb
  <2>1. pending' \in [inputs : Seq(Nat), ack : Nat]
    <3>1. PICK a \in Nat : a = pending.ack
      BY <1>6
    <3>2. pending' = [inputs |-> <<>>, ack |-> a]
      BY <1>1, <1>30, <3>1 DEF Absorb
    <3> QED
      BY <3>2
  <2>2. pc' \in Points /\ result' \in {"none", "answered", "failed", "cancelled"}
    BY <1>1, <1>30 DEF Absorb, Ends, Goto
  <2> QED
    BY <1>1, <1>30, <2>1, <2>2 DEF Absorb, convVars, taskVars
<1>31. CASE Acknowledge
  BY <1>1, <1>31 DEF Acknowledge, Goto, convVars, taskVars
<1>32. CASE ClearAcknowledgement
  BY <1>1, <1>32 DEF ClearAcknowledgement, Goto, convVars, taskVars
<1>33. ASSUME NEW s \in Seq(Nat), Continue(s)
       PROVE  /\ pending' \in [inputs : Seq(Nat), ack : Nat] /\ turns' \in Nat /\ pc' \in Points
              /\ result' = result
  BY <1>1, <1>33 DEF Continue, Goto
<1>34. CASE Close
  <2>1. CASE \E s \in Seq(Nat) : Continue(s) /\ hostShare' \in Nat
    BY <1>1, <1>33, <1>34, <2>1 DEF Close, convVars, taskVars
  <2>2. CASE Ends("answered") /\ UNCHANGED <<pending, turns>> /\ hostShare' \in Nat
    BY <1>1, <1>34, <2>2 DEF Close, Ends, Goto, convVars, taskVars
  <2>3. /\ (IF conf.reports THEN Inputs(reports.entries) ELSE <<>>) \in Seq(Nat)
    BY <1>3
  <2> QED
    BY <1>3, <1>34, <2>1, <2>2, <2>3, SMTT(20) DEF Close
<1>35. CASE Kill
  BY <1>1, <1>35 DEF Kill, Ends, Goto, convVars, taskVars
<1>36. ASSUME NEW b \in BOOLEAN, Returned(b) PROVE LoopTypes'
  BY <1>1, <1>7, <1>36 DEF Returned, Goto, taskVars
<1>37. ASSUME NEW b \in BOOLEAN, Advance(b) PROVE LoopTypes'
  <2>1. CASE Continue(Read) /\ ReadSteering
    <3>1. hostShare' \in Nat
      BY <1>3, <2>1 DEF ReadSteering
    <3> QED
      BY <1>1, <1>4, <1>33, <1>37, <2>1, <3>1 DEF Advance, convVars, taskVars
  <2>2. CASE Goto("closing") /\ UNCHANGED <<pending, turns, result>> /\ ReadSteering
    BY <1>1, <1>3, <1>37, <2>2 DEF Advance, ReadSteering, Goto, convVars, taskVars
  <2>3. CASE Ends("cancelled") /\ UNCHANGED <<queueVars, pending, hostShare, turns>>
    BY <1>1, <1>37, <2>3 DEF Advance, Ends, Goto, convVars, taskVars
  <2> QED
    BY <1>37, <2>1, <2>2, <2>3 DEF Advance
<1> QED
  BY <1>10, <1>12, <1>13, <1>14, <1>15, <1>16, <1>17, <1>18, <1>19, <1>20, <1>21, <1>22, <1>23,
     <1>24, <1>25, <1>27, <1>28, <1>29, <1>30, <1>31, <1>32, <1>34, <1>35, <1>36, <1>37
  DEF Next, Producers, Host, Loop

\* loopCommitSteering, without the report queue.
LEMMA SalvageHost ==
    ASSUME LoopInvariant, NEW n \in Nat, CommitSteering(n)
    PROVE  \E m \in Nat : /\ host' = Acknowledged(host, m) /\ m = (IF n < hostShare THEN n ELSE hostShare)
<1>1. hostShare \in Nat
  BY DEF LoopInvariant, LoopTypes
<1>2. PICK m \in Nat : m = (IF n < hostShare THEN n ELSE hostShare)
  BY <1>1
<1> QED
  BY <1>2 DEF CommitSteering

\* The host's queue stays as HostOK describes it.
LEMMA HostStep ==
    ASSUME LoopInvariant, [Next]_vars
    PROVE  HostOK(host', owner', guidance', next')
<1>1. /\ HostOK(host, owner, guidance, next) /\ next \in Nat
      /\ \A x \in guidance : x \in Nat /\ x <= next
  BY DEF LoopInvariant, LoopTypes
<1>t. owner \in [Keys -> Nat] /\ hook \in Nat /\ hostShare \in Nat /\ pending.ack \in Nat
  BY DEF LoopInvariant, LoopTypes
<1>2. ASSUME UNCHANGED <<host, owner, guidance, next>>
      PROVE  HostOK(host', owner', guidance', next')
  BY <1>1, <1>2
<1>3. ASSUME next' = next + 1, UNCHANGED <<host, owner, guidance>>
      PROVE  HostOK(host', owner', guidance', next')
  BY <1>1, <1>3, HostLater
<1>4. ASSUME NEW n \in Nat, host' = Acknowledged(host, n), UNCHANGED <<owner, guidance, next>>
      PROVE  HostOK(host', owner', guidance', next')
  BY <1>1, <1>4, HostAcknowledged
<1>5. ASSUME host' = Reserved(host), UNCHANGED <<owner, guidance, next>>
      PROVE  HostOK(host', owner', guidance', next')
  BY <1>1, <1>5, HostReserved
<1>10. CASE UNCHANGED vars
  BY <1>2, <1>10 DEF vars, queueVars, convVars, taskVars
<1>12. ASSUME NEW n \in Sizes, EnqueueSteering(n) PROVE HostOK(host', owner', guidance', next')
  <2>1. n \in Nat
    BY LoopAssumption
  <2>2. PICK e : e = InputEntry(next + 1, n, "none")
    OBVIOUS
  <2>3. e \in Entry /\ e.input = next + 1 /\ e.key = NoKey
    BY <1>1, <2>1, <2>2 DEF InputEntry, Entry
  <2>4. /\ next' = next + 1 /\ owner' = owner /\ host' = Steer(host, e)
        /\ guidance' = IF host' = host THEN guidance ELSE guidance \cup {e.input}
    BY <1>12, <2>2 DEF EnqueueSteering, Offered, taskVars
  <2>5. CASE host' = host
    BY <1>3, <2>4, <2>5
  <2>6. CASE host' # host
    <3>1. ~host.closed /\ host' = Appended(host, <<e>>)
      BY <2>4, <2>6 DEF Steer
    <3>2. HostOK(Appended(host, <<e>>), owner, guidance \cup {next + 1}, next + 1)
      BY <1>1, <2>3, <3>1, HostSteered
    <3>3. guidance' = guidance \cup {next + 1}
      BY <2>3, <2>4, <2>6
    <3> QED
      BY <2>4, <3>1, <3>2, <3>3
  <2> QED
    BY <2>5, <2>6
<1>13. ASSUME NEW n \in Sizes, Report(n) PROVE HostOK(host', owner', guidance', next')
  BY <1>3, <1>13 DEF Report, Offered, taskVars
<1>14. ASSUME NEW k \in Keys, Launch(k) PROVE HostOK(host', owner', guidance', next')
  <2>1. /\ owner[k] = 0 /\ owner' = [owner EXCEPT ![k] = hook]
        /\ host' = host /\ guidance' = guidance /\ next' = next
    BY <1>14 DEF Launch, queueVars, convVars
  <2>2. host \in SteeringQueue /\ host.epoch >= 1 /\ host.epoch \in Nat
        /\ OwnNotices(host.entries, host.deferred, host.epoch, owner)
    BY <1>1 DEF HostOK, SteeringQueue
  <2>3. PICK E \in Seq(Entry) : E = host.entries
    BY <2>2 DEF SteeringQueue
  <2>4. PICK D \in Seq(Entry) : D = host.deferred
    BY <2>2 DEF SteeringQueue
  <2>5. PICK ep \in Nat : ep = host.epoch
    BY <2>2
  <2>6. ASSUME NEW i \in 1..Total(E, D), At(E, D, i).key # NoKey
        PROVE  /\ owner'[At(E, D, i).key] = ep
               /\ \A j \in 1..Total(E, D) : At(E, D, j).key = At(E, D, i).key => j = i
    <3>1. At(E, D, i) \in Entry
      BY TotalType
    <3>2. At(E, D, i).key \in Keys
      BY <2>6, <3>1 DEF Entry
    <3>3. PICK x \in Keys : x = At(E, D, i).key
      BY <3>2
    <3>4. owner[x] = ep /\ \A j \in 1..Total(E, D) : At(E, D, j).key = x => j = i
      BY <2>2, <2>3, <2>4, <2>5, <2>6, <3>3 DEF OwnNotices
    <3>5. x # k
      BY <2>1, <2>2, <2>5, <3>4
    <3>6. owner'[x] = ep
      BY <1>t, <2>1, <3>4, <3>5
    <3> QED
      BY <3>3, <3>4, <3>6
  <2>7. OwnNotices(host.entries, host.deferred, host.epoch, owner')
    BY <2>3, <2>4, <2>5, <2>6 DEF OwnNotices
  <2> QED
    BY <1>1, <2>1, <2>7 DEF HostOK
<1>15. ASSUME NEW k \in Keys, DismissTask(k) PROVE HostOK(host', owner', guidance', next')
  <2>1. host' = Dismissed(host, k) /\ UNCHANGED <<owner, guidance, next>>
    BY <1>15 DEF DismissTask, taskVars
  <2> QED
    BY <1>1, <2>1, HostDismissed
<1>16. ASSUME NEW k \in Keys, NEW n \in Sizes, CompleteTask(k, n)
       PROVE  HostOK(host', owner', guidance', next')
  <2>1. n \in Nat /\ k # NoKey
    BY LoopAssumption, KeyAssumption
  <2>2. PICK e : e = [InputEntry(next + 1, n, "none") EXCEPT !.key = k]
    OBVIOUS
  <2>3. e \in Entry /\ e.input = next + 1 /\ e.key = k
    <3>1. e = [input |-> next + 1, bytes |-> n, kind |-> "none", key |-> k, wake |-> TRUE]
      BY <2>2 DEF InputEntry
    <3>2. next + 1 \in Nat
      BY <1>1
    <3> QED
      BY <2>1, <3>1, <3>2 DEF Entry
  <2>4. /\ next' = next + 1 /\ owner' = owner /\ host' = Completed(host, owner[k], e)
        /\ guidance' = guidance
    BY <1>16, <2>2 DEF CompleteTask, Offered, taskVars
  <2>5. HostOK(Completed(host, owner[k], e), owner, guidance, next + 1)
    BY <1>1, <2>1, <2>3, HostCompleted
  <2> QED
    BY <2>4, <2>5
<1>17. CASE RequestCancel
  BY <1>2, <1>17 DEF RequestCancel, queueVars, convVars, taskVars
<1>18. CASE Prompt
  BY <1>3, <1>18 DEF Prompt, Offered, queueVars, convVars, taskVars
<1>19. CASE Wake
  <2>1. host' = WakeConsumed(host) /\ UNCHANGED <<owner, guidance, next>>
    BY <1>19 DEF Wake, convVars, taskVars
  <2> QED
    BY <1>1, <2>1, HostQuieted
<1>20. CASE StartWoken
  BY <1>5, <1>20 DEF StartWoken, convVars, taskVars
<1>21. CASE ResetSession
  <2>1. host' = Cleared(host) /\ UNCHANGED <<owner, next>>
    BY <1>21 DEF ResetSession, taskVars
  <2>2. host.epoch \in Nat /\ host.active \in BOOLEAN /\ host.epoch >= 1
    BY <1>1 DEF HostOK, SteeringQueue
  <2>3. PICK x \in Nat : x = host.epoch
    BY <2>2
  <2>4. PICK a \in BOOLEAN : a = host.active
    BY <2>2
  <2>5. host' = [epoch |-> x + 1, entries |-> <<>>, deferred |-> <<>>, count |-> 0, bytes |-> 0,
                 omitted |-> FALSE, closed |-> FALSE, reserved |-> 0, active |-> a]
    BY <2>1, <2>3, <2>4 DEF Cleared, EmptyQueue
  <2>6. host' \in SteeringQueue
    BY <2>5 DEF SteeringQueue
  <2>7. host'.entries = <<>> /\ host'.deferred = <<>> /\ host'.reserved = 0 /\ host'.epoch >= 1
    BY <2>5
  <2> QED
    BY <2>6, <2>7, HostEmpty
<1>22. CASE InstallHooks
  BY <1>2, <1>22 DEF InstallHooks, queueVars, convVars
<1>23. CASE Recover
  <2>1. PICK orphans \in BOOLEAN :
          LET fromHost == IF pending.ack < hostShare THEN pending.ack ELSE hostShare
              settled == IF orphans THEN Acknowledged(host, fromHost) ELSE host
          IN  host' = IF result = "cancelled" THEN WakeSuppressed(settled) ELSE settled
    BY <1>23 DEF Recover
  <2>2. PICK m \in Nat : m = (IF pending.ack < hostShare THEN pending.ack ELSE hostShare)
    BY <1>t
  <2>3. PICK q : /\ q = IF orphans THEN Acknowledged(host, m) ELSE host
                 /\ host' = IF result = "cancelled" THEN WakeSuppressed(q) ELSE q
    BY <2>1, <2>2, Zenon
  <2>4. HostOK(q, owner, guidance, next)
    BY <1>1, <2>3, HostAcknowledged
  <2>5. HostOK(host', owner, guidance, next)
    BY <1>1, <2>3, <2>4, HostQuieted
  <2> QED
    BY <1>23, <2>5 DEF Recover, taskVars
<1>24. CASE BeginTurn
  BY <1>5, <1>24 DEF BeginTurn, ReadSteering, taskVars
<1>25. CASE Submit
  BY <1>2, <1>25 DEF Submit, queueVars, convVars, taskVars
<1>26. ASSUME Salvage \/ NoSalvage, UNCHANGED <<owner, next>>
       PROVE  HostOK(host', owner', guidance', next')
  <2>1. CASE Salvage
    <3>1. CommitSteering(pending.ack) /\ guidance' = guidance
      BY <2>1 DEF Salvage
    <3>2. PICK m \in Nat : host' = Acknowledged(host, m)
      BY <1>t, <3>1, SalvageHost
    <3> QED
      BY <1>4, <1>26, <3>1, <3>2
  <2>2. CASE NoSalvage
    BY <1>2, <1>26, <2>2 DEF NoSalvage, queueVars, convVars
  <2> QED
    BY <1>26, <2>1, <2>2
<1>27. CASE Steered
  BY <1>26, <1>27 DEF Steered, taskVars
<1>28. CASE Aborted
  BY <1>26, <1>28 DEF Aborted, taskVars
<1>29. CASE ContinueSteered
  BY <1>2, <1>5, <1>29 DEF ContinueSteered, ReadSteering, queueVars, convVars, taskVars
<1>30. CASE Absorb
  BY <1>2, <1>30 DEF Absorb, queueVars, convVars, taskVars
<1>31. CASE Acknowledge
  <2>1. CommitSteering(pending.ack) /\ UNCHANGED <<owner, guidance, next>>
    BY <1>31 DEF Acknowledge, convVars, taskVars
  <2>2. PICK m \in Nat : host' = Acknowledged(host, m)
    BY <1>t, <2>1, SalvageHost
  <2> QED
    BY <1>4, <2>1, <2>2
<1>32. CASE ClearAcknowledgement
  BY <1>2, <1>32 DEF ClearAcknowledgement, queueVars, convVars, taskVars
<1>34. CASE Close
  <2>1. UNCHANGED <<owner, guidance, next>> /\ host' \in {host, Closed(host)}
    BY <1>34 DEF Close, convVars, taskVars
  <2> QED
    BY <1>1, <2>1, HostReserved
<1>35. CASE Kill
  BY <1>2, <1>35 DEF Kill, queueVars, convVars, taskVars
<1>36. ASSUME NEW b \in BOOLEAN, Returned(b) PROVE HostOK(host', owner', guidance', next')
  BY <1>2, <1>36 DEF Returned, queueVars, taskVars
<1>37. ASSUME NEW b \in BOOLEAN, Advance(b) PROVE HostOK(host', owner', guidance', next')
  BY <1>2, <1>5, <1>37 DEF Advance, ReadSteering, queueVars, convVars, taskVars
<1> QED
  BY <1>10, <1>12, <1>13, <1>14, <1>15, <1>16, <1>17, <1>18, <1>19, <1>20, <1>21, <1>22, <1>23,
     <1>24, <1>25, <1>27, <1>28, <1>29, <1>30, <1>31, <1>32, <1>34, <1>35, <1>36, <1>37
  DEF Next, Producers, Host, Loop

\* The report queue stays as ReportsOK describes it.
LEMMA ReportsStep ==
    ASSUME LoopInvariant, [Next]_vars
    PROVE  ReportsOK(reports', guidance', next')
<1>1. /\ ReportsOK(reports, guidance, next) /\ next \in Nat
      /\ \A x \in guidance : x \in Nat /\ x <= next
  BY DEF LoopInvariant, LoopTypes
<1>t. hostShare \in Nat /\ pending.ack \in Nat
  BY DEF LoopInvariant, LoopTypes
<1>s. \A n \in Nat : n - (IF n < hostShare THEN n ELSE hostShare) \in Nat
  BY <1>t
<1>2. ASSUME UNCHANGED <<reports, guidance, next>>
      PROVE  ReportsOK(reports', guidance', next')
  BY <1>1, <1>2
<1>3. ASSUME next' = next + 1, reports' = reports, guidance' \subseteq guidance \cup {next + 1}
      PROVE  ReportsOK(reports', guidance', next')
  <2>1. reports \in SteeringQueue
    BY <1>1 DEF ReportsOK
  <2>2. PICK E \in Seq(Entry) : E = reports.entries
    BY <2>1 DEF SteeringQueue
  <2>3. PICK D \in Seq(Entry) : D = reports.deferred
    BY <2>1 DEF SteeringQueue
  <2>4. ASSUME NEW i \in 1..Total(E, D)
        PROVE  At(E, D, i).input <= next + 1 /\ At(E, D, i).input \notin guidance'
    <3>1. At(E, D, i) \in Entry
      BY TotalType
    <3>2. PICK x \in Nat : x = At(E, D, i).input
      BY <3>1 DEF Entry
    <3>3. x <= next /\ x \notin guidance
      BY <1>1, <2>2, <2>3, <3>2 DEF ReportsOK
    <3>4. x <= next + 1 /\ x # next + 1
      BY <1>1, <3>3
    <3> QED
      BY <1>3, <3>2, <3>3, <3>4
  <2> QED
    BY <1>1, <1>3, <2>2, <2>3, <2>4 DEF ReportsOK
<1>4. ASSUME NEW n \in Nat, reports' = Acknowledged(reports, n), UNCHANGED <<guidance, next>>
      PROVE  ReportsOK(reports', guidance', next')
  BY <1>1, <1>4, ReportsAcknowledged
<1>10. CASE UNCHANGED vars
  BY <1>2, <1>10 DEF vars, queueVars, convVars
<1>12. ASSUME NEW n \in Sizes, EnqueueSteering(n) PROVE ReportsOK(reports', guidance', next')
  <2>1. InputEntry(next + 1, n, "none").input = next + 1
    BY DEF InputEntry
  <2>2. /\ next' = next + 1 /\ reports' = reports
        /\ guidance' = guidance \/ guidance' = guidance \cup {next + 1}
    BY <1>12, <2>1 DEF EnqueueSteering, Offered
  <2> QED
    BY <1>3, <2>2
<1>13. ASSUME NEW n \in Sizes, Report(n) PROVE ReportsOK(reports', guidance', next')
  <2>1. n \in Nat
    BY LoopAssumption
  <2>2. PICK e : e = InputEntry(next + 1, n, "subagent")
    OBVIOUS
  <2>3. e \in Entry /\ e.input = next + 1
    BY <1>1, <2>1, <2>2 DEF InputEntry, Entry
  <2>4. /\ next' = next + 1 /\ guidance' = guidance
        /\ reports' = Promoted([reports EXCEPT !.deferred = Append(@, e)])
    BY <1>13, <2>2 DEF Report, Offered
  <2>5. ReportsOK(Promoted([reports EXCEPT !.deferred = Append(@, e)]), guidance, next + 1)
    BY <1>1, <2>3, ReportsDelivered
  <2> QED
    BY <2>4, <2>5
<1>14. ASSUME NEW k \in Keys, Launch(k) PROVE ReportsOK(reports', guidance', next')
  BY <1>2, <1>14 DEF Launch, queueVars, convVars
<1>15. ASSUME NEW k \in Keys, DismissTask(k) PROVE ReportsOK(reports', guidance', next')
  BY <1>2, <1>15 DEF DismissTask
<1>16. ASSUME NEW k \in Keys, NEW n \in Sizes, CompleteTask(k, n)
       PROVE  ReportsOK(reports', guidance', next')
  BY <1>3, <1>16 DEF CompleteTask, Offered
<1>17. CASE RequestCancel
  BY <1>2, <1>17 DEF RequestCancel, queueVars, convVars
<1>18. CASE Prompt
  BY <1>3, <1>18 DEF Prompt, Offered, queueVars, convVars
<1>19. CASE Wake
  BY <1>2, <1>19 DEF Wake, convVars
<1>20. CASE StartWoken
  BY <1>2, <1>20 DEF StartWoken, convVars
<1>21. CASE ResetSession
  <2>1. reports' = reports /\ guidance' = {} /\ next' = next
    BY <1>21 DEF ResetSession
  <2> QED
    BY <1>1, <2>1 DEF ReportsOK
<1>22. CASE InstallHooks
  BY <1>2, <1>22 DEF InstallHooks, queueVars, convVars
<1>23. CASE Recover
  <2>1. reports' = reports \/ \E m \in Nat : reports' = Acknowledged(reports, m)
    BY <1>t, <1>s, <1>23 DEF Recover
  <2>2. UNCHANGED <<guidance, next>>
    BY <1>23 DEF Recover
  <2> QED
    BY <1>2, <1>4, <2>1, <2>2
<1>24. CASE BeginTurn
  BY <1>2, <1>24 DEF BeginTurn, ReadSteering
<1>25. CASE Submit
  BY <1>2, <1>25 DEF Submit, queueVars, convVars
<1>x. ASSUME CommitSteering(pending.ack), UNCHANGED <<guidance, next>>
      PROVE  ReportsOK(reports', guidance', next')
  BY <1>2, <1>4, <1>s, <1>t, <1>x DEF CommitSteering
<1>26. ASSUME Salvage \/ NoSalvage, UNCHANGED next
       PROVE  ReportsOK(reports', guidance', next')
  BY <1>2, <1>x, <1>26 DEF Salvage, NoSalvage, queueVars, convVars
<1>27. CASE Steered
  BY <1>26, <1>27 DEF Steered
<1>28. CASE Aborted
  BY <1>26, <1>28 DEF Aborted
<1>29. CASE ContinueSteered
  BY <1>2, <1>29 DEF ContinueSteered, ReadSteering, queueVars, convVars
<1>30. CASE Absorb
  BY <1>2, <1>30 DEF Absorb, queueVars, convVars
<1>31. CASE Acknowledge
  BY <1>x, <1>31 DEF Acknowledge, convVars
<1>32. CASE ClearAcknowledgement
  BY <1>2, <1>32 DEF ClearAcknowledgement, queueVars, convVars
<1>34. CASE Close
  BY <1>2, <1>34 DEF Close, convVars
<1>35. CASE Kill
  BY <1>2, <1>35 DEF Kill, queueVars, convVars
<1>36. ASSUME NEW b \in BOOLEAN, Returned(b) PROVE ReportsOK(reports', guidance', next')
  BY <1>2, <1>36 DEF Returned, queueVars
<1>37. ASSUME NEW b \in BOOLEAN, Advance(b) PROVE ReportsOK(reports', guidance', next')
  BY <1>2, <1>37 DEF Advance, ReadSteering, queueVars, convVars
<1> QED
  BY <1>10, <1>12, <1>13, <1>14, <1>15, <1>16, <1>17, <1>18, <1>19, <1>20, <1>21, <1>22, <1>23,
     <1>24, <1>25, <1>27, <1>28, <1>29, <1>30, <1>31, <1>32, <1>34, <1>35, <1>36, <1>37
  DEF Next, Producers, Host, Loop

\* What is queued when the answer is given wakes the host.
LEMMA AwakeStep ==
    ASSUME LoopInvariant, [Next]_vars
    PROVE  Awake'
<1>1. HostOK(host, owner, guidance, next) /\ next \in Nat /\ Awake /\ pc \in Points
      /\ host.entries \in Seq(Entry)
  BY DEF LoopInvariant, LoopTypes, HostOK, SteeringQueue
<1>t. hostShare \in Nat /\ pending.ack \in Nat /\ pc \in Points
  BY DEF LoopInvariant, LoopTypes
<1>2. ASSUME UNCHANGED <<pc, result>>, AllWake(host.entries) => AllWake(host'.entries)
      PROVE  Awake'
  BY <1>1, <1>2 DEF Awake
<1>3. ASSUME pc' \notin {"closing", "ending", "idle", "resetting"} PROVE Awake'
  BY <1>3 DEF Awake
<1>4. ASSUME pc' = "ending", result' # "answered" PROVE Awake'
  BY <1>4 DEF Awake
<1>5. ASSUME NEW m \in Nat PROVE AllWake(host.entries) => AllWake(Acknowledged(host, m).entries)
  BY <1>1, HostAcknowledged
<1>10. CASE UNCHANGED vars
  BY <1>2, <1>10 DEF vars, queueVars, loopVars
<1>12. ASSUME NEW n \in Sizes, EnqueueSteering(n) PROVE Awake'
  <2>1. PICK e : e = InputEntry(next + 1, n, "none")
    OBVIOUS
  <2>2. e.wake = TRUE
    BY <2>1 DEF InputEntry
  <2>3. host' = Steer(host, e) /\ UNCHANGED <<pc, result>>
    BY <1>12, <2>1 DEF EnqueueSteering, loopVars
  <2>4. Appended(host, <<e>>).entries = host.entries \o <<e>>
    <3>1. host \in SteeringQueue
      BY <1>1 DEF HostOK
    <3>2. DOMAIN host = DOMAIN EmptyQueue
      BY <3>1 DEF SteeringQueue, EmptyQueue
    <3> QED
      BY <3>1 DEF Appended, SteeringQueue
  <2>5. ASSUME AllWake(host.entries) PROVE AllWake(host.entries \o <<e>>)
    <3>1. PICK m \in Nat : m = Len(host.entries)
      BY <1>1
    <3>2. PICK s \in Seq(Entry) : s = host.entries
      BY <1>1
    <3>3. Len(s \o <<e>>) = m + 1 /\ (s \o <<e>>)[m + 1] = e
          /\ \A i \in 1..m : (s \o <<e>>)[i] = s[i]
      BY <3>1, <3>2
    <3>4. \A i \in 1..m : s[i].wake
      BY <2>5, <3>1, <3>2 DEF AllWake
    <3>5. \A i \in 1..(m + 1) : (s \o <<e>>)[i].wake
      BY <2>2, <3>3, <3>4
    <3> QED
      BY <3>2, <3>3, <3>5 DEF AllWake
  <2>6. AllWake(host.entries) => AllWake(host'.entries)
    BY <2>3, <2>4, <2>5 DEF Steer
  <2> QED
    BY <1>2, <2>3, <2>6
<1>13. ASSUME NEW n \in Sizes, Report(n) PROVE Awake'
  BY <1>2, <1>13 DEF Report, loopVars
<1>14. ASSUME NEW k \in Keys, Launch(k) PROVE Awake'
  BY <1>2, <1>14 DEF Launch, loopVars, queueVars
<1>15. ASSUME NEW k \in Keys, DismissTask(k) PROVE Awake'
  <2>1. host' = Dismissed(host, k) /\ UNCHANGED <<pc, result>>
    BY <1>15 DEF DismissTask, loopVars
  <2> QED
    BY <1>1, <1>2, <2>1, HostDismissed
<1>16. ASSUME NEW k \in Keys, NEW n \in Sizes, CompleteTask(k, n) PROVE Awake'
  <2>1. n \in Nat /\ k # NoKey /\ next + 1 \in Nat
    BY <1>1, LoopAssumption, KeyAssumption
  <2>2. PICK e : e = [InputEntry(next + 1, n, "none") EXCEPT !.key = k]
    OBVIOUS
  <2>3. e = [input |-> next + 1, bytes |-> n, kind |-> "none", key |-> k, wake |-> TRUE]
    BY <2>2 DEF InputEntry
  <2>4. e \in Entry /\ e.input = next + 1 /\ e.key = k
    BY <2>1, <2>3 DEF Entry
  <2>5. host' = Completed(host, owner[k], e) /\ UNCHANGED <<pc, result>>
    BY <1>16, <2>2 DEF CompleteTask, loopVars
  <2>6. \A x \in guidance : x \in Nat /\ x <= next
    BY DEF LoopInvariant, LoopTypes
  <2>7. AllWake(host.entries) => AllWake(Completed(host, owner[k], e).entries)
    BY <1>1, <2>1, <2>4, <2>6, HostCompleted
  <2> QED
    BY <1>2, <2>5, <2>7
<1>17. CASE RequestCancel
  BY <1>2, <1>17 DEF RequestCancel, queueVars, loopVars
<1>18. CASE Prompt
  BY <1>3, <1>18 DEF Prompt, Goto
<1>19. CASE Wake
  BY <1>3, <1>19 DEF Wake, Goto
<1>20. CASE StartWoken
  <2>1. CASE host.entries = <<>>
    <3>1. pc' = "idle" /\ host'.entries = <<>>
      BY <1>1, <1>20, <2>1, HostReserved DEF StartWoken, Goto
    <3> QED
      BY <3>1 DEF Awake, AllWake
  <2>2. CASE host.entries # <<>>
    BY <1>3, <1>20, <2>2 DEF StartWoken, Goto
  <2> QED
    BY <2>1, <2>2
<1>21. CASE ResetSession
  BY <1>21 DEF ResetSession, Goto, Awake
<1>22. CASE InstallHooks
  BY <1>1, <1>22 DEF InstallHooks, Goto, Awake
<1>23. CASE Recover
  <2>1. pc = "ending" /\ pc' = "idle" /\ result' = result
    BY <1>23 DEF Recover, TurnOver
  <2>2. ASSUME result = "answered"
        PROVE  host' = host \/ \E m \in Nat : host' = Acknowledged(host, m)
    <3>1. PICK m \in Nat : m = (IF pending.ack < hostShare THEN pending.ack ELSE hostShare)
      BY <1>t
    <3> QED
      BY <1>23, <2>2, <3>1 DEF Recover
  <2>3. result = "answered" => AllWake(host'.entries)
    BY <1>1, <1>5, <2>1, <2>2 DEF Awake
  <2> QED
    BY <2>1, <2>3 DEF Awake
<1>24. CASE BeginTurn
  BY <1>3, <1>24 DEF BeginTurn, Goto
<1>25. CASE Submit
  BY <1>3, <1>4, <1>25 DEF Submit, Ends, Goto
<1>27. CASE Steered
  BY <1>3, <1>27 DEF Steered, Goto
<1>28. CASE Aborted
  BY <1>4, <1>28 DEF Aborted, Ends, Goto
<1>29. CASE ContinueSteered
  BY <1>3, <1>4, <1>29 DEF ContinueSteered, Ends, Goto
<1>30. CASE Absorb
  BY <1>3, <1>4, <1>30 DEF Absorb, Ends, Goto
<1>31. CASE Acknowledge
  BY <1>3, <1>31 DEF Acknowledge, Goto
<1>32. CASE ClearAcknowledgement
  BY <1>3, <1>32 DEF ClearAcknowledgement, Goto
<1>34. CASE Close
  <2>1. CASE pc' = "ready"
    BY <1>3, <2>1
  <2>2. CASE pc' = "ending"
    <3>1. host'.entries = host.entries
      BY <1>1, <1>34, HostReserved DEF Close
    <3>2. AllWake(host.entries)
      BY <1>1, <1>34 DEF Close, Awake
    <3> QED
      BY <2>2, <3>1, <3>2 DEF Awake
  <2> QED
    BY <1>34, <2>1, <2>2 DEF Close, Continue, Ends, Goto
<1>35. CASE Kill
  BY <1>4, <1>35 DEF Kill, Ends, Goto
<1>36. ASSUME NEW b \in BOOLEAN, Returned(b) PROVE Awake'
  BY <1>3, <1>36 DEF Returned, Goto
<1>37. ASSUME NEW b \in BOOLEAN, Advance(b) PROVE Awake'
  <2>1. CASE pc' = "closing"
    <3>1. Read = <<>> /\ host' = Reserved(host)
      BY <1>37, <2>1 DEF Advance, Continue, Ends, Goto, ReadSteering
    <3>2. host.entries = <<>>
      <4>1. PICK s \in Seq(Nat) : s = Inputs(host.entries) /\ Len(s) = Len(host.entries)
        BY <1>1, InputsFacts
      <4>2. reports.entries \in Seq(Entry)
        BY DEF LoopInvariant, ReportsOK, SteeringQueue
      <4>3. PICK u \in Seq(Nat) : u = Inputs(reports.entries)
        BY <4>2, InputsFacts
      <4>4. s = <<>> \/ s \o u = <<>>
        BY <3>1, <4>1, <4>3, ReadFacts
      <4>5. Len(s) = 0
        <5>1. PICK m \in Nat : m = Len(s)
          OBVIOUS
        <5>2. PICK r \in Nat : r = Len(u)
          OBVIOUS
        <5>3. Len(s \o u) = m + r
          BY <5>1, <5>2
        <5>4. m = 0 \/ m + r = 0
          BY <4>4, <5>1, <5>3
        <5> QED
          BY <5>1, <5>4
      <4>6. PICK E \in Seq(Entry) : E = host.entries
        BY <1>1
      <4>7. Len(E) = 0
        BY <4>1, <4>5, <4>6
      <4>8. E = <<>>
        BY <4>7
      <4> QED
        BY <4>6, <4>8
    <3>3. host'.entries = <<>>
      BY <1>1, <3>1, <3>2, HostReserved
    <3> QED
      BY <2>1, <3>3 DEF Awake, AllWake
  <2>2. CASE pc' = "ending"
    BY <1>4, <1>37, <2>2 DEF Advance, Continue, Ends, Goto
  <2>3. CASE pc' = "ready"
    BY <1>3, <2>3
  <2> QED
    BY <1>37, <2>1, <2>2, <2>3 DEF Advance, Continue, Ends, Goto
<1> QED
  BY <1>10, <1>12, <1>13, <1>14, <1>15, <1>16, <1>17, <1>18, <1>19, <1>20, <1>21, <1>22, <1>23,
     <1>24, <1>25, <1>27, <1>28, <1>29, <1>30, <1>31, <1>32, <1>34, <1>35, <1>36, <1>37
  DEF Next, Producers, Host, Loop

LEMMA LoopInitially == Init => LoopInvariant
<1> SUFFICES ASSUME Init PROVE LoopInvariant
  OBVIOUS
<1>1. LoopTypes
  <2>1. /\ first \in Seq(Nat) /\ history \in Seq(Nat) /\ pending \in [inputs : Seq(Nat), ack : Nat]
        /\ owner \in [Keys -> Nat]
    <3>1. <<>> \in Seq(Nat) /\ [k \in Keys |-> 0] \in [Keys -> Nat]
      OBVIOUS
    <3>2. [inputs |-> <<>>, ack |-> 0] \in [inputs : Seq(Nat), ack : Nat]
      BY <3>1
    <3> QED
      BY <3>1, <3>2 DEF Init, NoPending
  <2>2. /\ pc \in Points /\ hostShare \in Nat /\ turns \in Nat /\ incomplete \in BOOLEAN
        /\ cancel \in BOOLEAN /\ result = "none" /\ base \in Nat /\ next \in Nat /\ hook \in Nat
        /\ guidance = {} /\ notices = {} /\ conf \in Configurations
    BY DEF Init, Points
  <2> QED
    BY <2>1, <2>2 DEF LoopTypes
<1>2. Awake
  BY DEF Init, Awake
<1>3. HostOK(host, owner, guidance, next)
  <2>1. host = [epoch |-> 1, entries |-> <<>>, deferred |-> <<>>, count |-> 0, bytes |-> 0,
                omitted |-> FALSE, closed |-> FALSE, reserved |-> 0, active |-> FALSE]
    BY DEF Init, EmptyQueue
  <2>2. host \in SteeringQueue /\ host.entries = <<>> /\ host.deferred = <<>>
        /\ host.reserved = 0 /\ host.epoch >= 1
    BY <2>1 DEF SteeringQueue
  <2> QED
    BY <2>2, HostEmpty
<1>4. ReportsOK(reports, guidance, next)
  <2>1. reports = EmptyQueue
    BY DEF Init
  <2>2. reports \in SteeringQueue /\ reports.entries = <<>> /\ reports.deferred = <<>>
        /\ reports.reserved = 0
    BY <2>1 DEF EmptyQueue, SteeringQueue
  <2>3. Total(<<>>, <<>>) = 0
    BY DEF Total
  <2> QED
    BY <2>2, <2>3 DEF ReportsOK
<1> QED
  BY <1>1, <1>2, <1>3, <1>4 DEF LoopInvariant

LEMMA LoopKept == LoopInvariant /\ [Next]_vars => LoopInvariant'
<1> SUFFICES ASSUME LoopInvariant, [Next]_vars PROVE LoopInvariant'
  OBVIOUS
<1>1. LoopTypes' /\ Awake'
  BY TypesStep, AwakeStep
<1>2. HostOK(host', owner', guidance', next')
  BY HostStep
<1>3. ReportsOK(reports', guidance', next')
  BY ReportsStep
<1> QED
  BY <1>1, <1>2, <1>3 DEF LoopInvariant

LEMMA LoopHolds == Spec => []LoopInvariant
BY LoopInitially, LoopKept, PTL DEF Spec

\* Entries and deferred entries counted through are the two sequences put
\* together.
LEMMA ConcatAt ==
    ASSUME NEW E \in Seq(Entry), NEW D \in Seq(Entry)
    PROVE  /\ Len(E \o D) = Total(E, D)
           /\ \A i \in 1..Total(E, D) : (E \o D)[i] = At(E, D, i)
<1>1. PICK m \in Nat : m = Len(E)
  OBVIOUS
<1>2. PICK r \in Nat : r = Len(D)
  OBVIOUS
<1>3. Len(E \o D) = m + r /\ Total(E, D) = m + r
  BY <1>1, <1>2 DEF Total
<1>4. ASSUME NEW i \in 1..(m + r) PROVE (E \o D)[i] = At(E, D, i)
  BY <1>1, <1>2 DEF At
<1> QED
  BY <1>3, <1>4

-----------------------------------------------------------------------------
(* Notices and wakes                                                       *)

\* The late completion of a task reaches no conversation but its own: with any
\* number of tasks and conversations, a queued notice belongs to the task's
\* conversation, and a task has one at most.
THEOREM NoticesStay == Spec => []NoticesOfConversation
<1>1. LoopInvariant => NoticesOfConversation
  <2> SUFFICES ASSUME LoopInvariant PROVE NoticesOfConversation
    OBVIOUS
  <2>1. host \in SteeringQueue /\ OwnNotices(host.entries, host.deferred, host.epoch, owner)
    BY DEF LoopInvariant, HostOK
  <2>2. PICK E \in Seq(Entry) : E = host.entries
    BY <2>1 DEF SteeringQueue
  <2>3. PICK D \in Seq(Entry) : D = host.deferred
    BY <2>1 DEF SteeringQueue
  <2>4. /\ Len(E \o D) = Total(E, D)
        /\ \A i \in 1..Total(E, D) : (E \o D)[i] = At(E, D, i)
    BY ConcatAt
  <2>5. \A i \in 1..Total(E, D) :
          At(E, D, i).key # NoKey =>
            /\ owner[At(E, D, i).key] = host.epoch
            /\ \A j \in 1..Total(E, D) : At(E, D, j).key = At(E, D, i).key => j = i
    BY <2>1, <2>2, <2>3 DEF OwnNotices
  <2>6. \A i \in 1..Len(E \o D) :
          (E \o D)[i].key # NoKey =>
            /\ owner[(E \o D)[i].key] = host.epoch
            /\ \A j \in 1..Len(E \o D) : (E \o D)[j].key = (E \o D)[i].key => j = i
    BY <2>4, <2>5
  <2> QED
    BY <2>2, <2>3, <2>6 DEF NoticesOfConversation
<1> QED
  BY <1>1, LoopHolds, PTL

\* After an answer all that is queued wakes the idle host, and a closed queue
\* holds no guidance.
THEOREM NoneStranded == Spec => []NothingStranded
<1>1. LoopInvariant => NothingStranded
  <2> SUFFICES ASSUME LoopInvariant PROVE NothingStranded
    OBVIOUS
  <2>1. ASSUME pc = "idle", result = "answered"
        PROVE  \A i \in 1..Len(host.entries) : host.entries[i].wake
    BY <2>1 DEF LoopInvariant, Awake, AllWake
  <2>2. ASSUME host.closed PROVE ~GuidanceAfter(host, 0)
    <3>1. OnlyNotices(host.entries)
      BY <2>2 DEF LoopInvariant, HostOK
    <3> QED
      BY <3>1 DEF OnlyNotices, GuidanceAfter
  <2> QED
    BY <2>1, <2>2 DEF NothingStranded
<1> QED
  BY <1>1, LoopHolds, PTL

-----------------------------------------------------------------------------
(* What the loop read                                                      *)

\* While the loop works, the host's queue keeps its reserved prefix and gains
\* guidance only behind it: r follows q after input n.
Grows(q, r, n) ==
    /\ r.reserved = q.reserved
    /\ \A i \in 1..q.reserved : r.entries[i].input = q.entries[i].input
    /\ \A p \in 0..q.reserved : \A i \in 1..Len(r.entries) :
        i > p /\ r.entries[i].key = NoKey =>
            \/ r.entries[i].input = n + 1
            \/ \E j \in 1..Len(q.entries) :
                j > p /\ q.entries[j].key = NoKey /\ q.entries[j].input = r.entries[i].input

LEMMA DerivedGrows ==
    ASSUME NEW q, NEW r \in SteeringQueue, NEW own, NEW G, NEW n, NEW L, NEW m,
           HostOK(q, own, G, n), r.reserved = q.reserved, r.reserved <= Len(r.entries),
           \A p \in 0..q.reserved : Derived(r.entries, r.deferred, q.entries, q.deferred, 0, p, L)
    PROVE  Grows(q, r, m)
<1>1. q \in SteeringQueue /\ q.reserved <= Len(q.entries) /\ q.reserved \in Nat
      /\ GuidanceApart(q.entries, q.deferred, G, n)
  BY DEF HostOK, SteeringQueue
<1>2. PICK E \in Seq(Entry) : E = q.entries
  BY <1>1 DEF SteeringQueue
<1>3. PICK D \in Seq(Entry) : D = q.deferred
  BY <1>1 DEF SteeringQueue
<1>4. PICK E1 \in Seq(Entry) : E1 = r.entries
  BY DEF SteeringQueue
<1>5. PICK D1 \in Seq(Entry) : D1 = r.deferred
  BY DEF SteeringQueue
<1>6. PICK c \in Nat : c = q.reserved
  BY <1>1
<1>7. PICK m0 \in Nat : m0 = Len(E)
  OBVIOUS
<1>8. PICK m1 \in Nat : m1 = Len(E1)
  OBVIOUS
<1>9. PICK t \in Nat : t = Total(E, D) /\ m0 <= t
  BY <1>7 DEF Total
<1>10. PICK t1 \in Nat : t1 = Total(E1, D1) /\ m1 <= t1
  BY <1>8 DEF Total
<1>11. c <= m0 /\ c <= m1
  BY <1>1, <1>2, <1>4, <1>6, <1>7, <1>8
<1>12. ASSUME NEW p \in 0..c, NEW i \in 1..m1
       PROVE  \E j \in 1..t :
                /\ E1[i].input = At(E, D, j).input /\ E1[i].key = At(E, D, j).key
                /\ i > p => j > p
                /\ i <= p => j = i
  <2>1. Derived(E1, D1, E, D, 0, p, L)
    BY <1>2, <1>3, <1>4, <1>5, <1>6, <1>12
  <2>2. PICK f : Follows(f, E1, D1, E, D, 0, p, L)
    BY <2>1 DEF Derived
  <2>3. i \in 1..t1 /\ At(E1, D1, i) = E1[i]
    BY <1>8, <1>10 DEF At
  <2>4. f[i] \in 1..t
    BY <1>9, <1>10, <2>2, <2>3 DEF Follows
  <2>5. /\ At(E1, D1, i).input = At(E, D, f[i]).input /\ At(E1, D1, i).key = At(E, D, f[i]).key
        /\ (i > p => f[i] > p + 0) /\ (i <= p => f[i] = i + 0)
    BY <1>10, <2>2, <2>3 DEF Follows
  <2>6. PICK j \in 1..t : j = f[i]
    BY <2>4
  <2>7. (i > p => j > p) /\ (i <= p => j = i)
    BY <2>5, <2>6
  <2> QED
    BY <2>3, <2>5, <2>6, <2>7
<1>13. ASSUME NEW i \in 1..c PROVE E1[i].input = E[i].input
  <2>1. i \in 1..m1 /\ c \in 0..c /\ i <= c /\ i <= m0
    BY <1>11
  <2>2. E1[i].input = At(E, D, i).input
    BY <1>12, <2>1
  <2>3. At(E, D, i) = E[i]
    BY <1>7, <2>1 DEF At
  <2> QED
    BY <2>2, <2>3
<1>14. ASSUME NEW p \in 0..c, NEW i \in 1..m1, i > p, E1[i].key = NoKey
       PROVE  \E j \in 1..m0 : j > p /\ E[j].key = NoKey /\ E[j].input = E1[i].input
  <2>1. PICK j \in 1..t : /\ E1[i].input = At(E, D, j).input /\ E1[i].key = At(E, D, j).key
                          /\ i > p => j > p
    BY <1>12
  <2>2. j > Len(E) => At(E, D, j).key # NoKey
    BY <1>1, <1>2, <1>3, <1>9 DEF GuidanceApart
  <2>3. j <= m0
    BY <1>7, <1>14, <2>1, <2>2
  <2>4. At(E, D, j) = E[j] /\ j \in 1..m0
    BY <1>7, <2>3 DEF At
  <2> QED
    BY <1>14, <2>1, <2>4
<1> QED
  BY <1>2, <1>4, <1>6, <1>7, <1>8, <1>13, <1>14 DEF Grows

LEMMA GrowsSame ==
    ASSUME NEW q, NEW r, NEW n, q.reserved \in Nat, r.reserved = q.reserved,
           q.reserved <= Len(q.entries),
           Len(r.entries) = Len(q.entries), Len(q.entries) \in Nat,
           \A i \in 1..Len(q.entries) : /\ r.entries[i].input = q.entries[i].input
                                        /\ r.entries[i].key = q.entries[i].key
    PROVE  Grows(q, r, n)
<1>1. PICK m \in Nat : m = Len(q.entries)
  OBVIOUS
<1>2. PICK c \in Nat : c = q.reserved /\ c <= m
  BY <1>1
<1>3. \A i \in 1..c : r.entries[i].input = q.entries[i].input
  BY <1>1, <1>2
<1>4. ASSUME NEW p \in 0..c, NEW i \in 1..m, i > p, r.entries[i].key = NoKey
      PROVE  \E j \in 1..m : j > p /\ q.entries[j].key = NoKey /\ q.entries[j].input = r.entries[i].input
  BY <1>1, <1>4
<1> QED
  BY <1>1, <1>2, <1>3, <1>4 DEF Grows

\* enqueueSteeringInputsSTM
LEMMA SteerGrows ==
    ASSUME NEW q, NEW own, NEW G, NEW n \in Nat, NEW e \in Entry, HostOK(q, own, G, n),
           e.input = n + 1
    PROVE  Grows(q, Steer(q, e), n)
<1>1. q \in SteeringQueue /\ q.reserved <= Len(q.entries)
  BY DEF HostOK
<1>2. PICK E \in Seq(Entry) : E = q.entries
  BY <1>1 DEF SteeringQueue
<1>3. PICK c \in Nat : c = q.reserved
  BY <1>1 DEF SteeringQueue
<1>4. PICK m \in Nat : m = Len(E)
  OBVIOUS
<1>5. c <= m
  BY <1>1, <1>2, <1>3, <1>4
<1>6. CASE Steer(q, e) = q
  BY <1>2, <1>3, <1>4, <1>5, <1>6, GrowsSame
<1>7. CASE Steer(q, e) = Appended(q, <<e>>)
  <2>1. PICK r : r = Appended(q, <<e>>)
    OBVIOUS
  <2>u. PICK u : u = E \o <<e>>
    OBVIOUS
  <2>2. r.entries = u /\ r.reserved = c
    BY <1>1, <1>2, <1>3, <2>1, <2>u DEF Appended, SteeringQueue
  <2>3. /\ Len(u) = m + 1 /\ u[m + 1] = e
        /\ \A i \in 1..m : u[i] = E[i]
    BY <1>4, <2>u
  <2>4. \A i \in 1..c : u[i].input = E[i].input
    BY <1>5, <2>3
  <2>5. ASSUME NEW p \in 0..c, NEW i \in 1..(m + 1), i > p, u[i].key = NoKey
        PROVE  \/ u[i].input = n + 1
               \/ \E j \in 1..m : j > p /\ E[j].key = NoKey /\ E[j].input = u[i].input
    <3>1. CASE i = m + 1
      BY <2>3, <3>1
    <3>2. CASE i # m + 1
      <4>1. i \in 1..m
        BY <3>2
      <4> QED
        BY <2>3, <2>5, <4>1
    <3> QED
      BY <3>1, <3>2
  <2>6. Grows(q, r, n)
    BY <1>2, <1>3, <1>4, <2>2, <2>3, <2>4, <2>5 DEF Grows
  <2> QED
    BY <1>7, <2>1, <2>6
<1> QED
  BY <1>6, <1>7 DEF Steer

\* enqueueBackgroundCompletionForEpoch
LEMMA CompletedGrows ==
    ASSUME NEW q, NEW own, NEW G, NEW n \in Nat, NEW e \in Entry, NEW ep,
           HostOK(q, own, G, n), \A x \in G : x \in Nat /\ x <= n,
           e.input = n + 1, e.key # NoKey, own[e.key] = ep
    PROVE  Grows(q, Completed(q, ep, e), n)
<1>1. q \in SteeringQueue /\ q.reserved <= Len(q.entries) /\ q.reserved \in Nat
      /\ q.entries \in Seq(Entry)
  BY DEF HostOK, SteeringQueue
<1>2. CASE Completed(q, ep, e) = q
  BY <1>1, <1>2, GrowsSame
<1>3. CASE Completed(q, ep, e) # q
  <2> DEFINE a == [q EXCEPT !.deferred = Append(@, e)]
             r == Promoted(a)
  <2>1. /\ Completed(q, ep, e) = r /\ own[e.key] = q.epoch
        /\ ~HasKey(q.entries, e.key) /\ ~HasKey(q.deferred, e.key)
    BY <1>3, Zenon DEF Completed
  <2>2. a.reserved = q.reserved /\ a.entries = q.entries /\ HostOK(a, own, G, n + 1)
    BY <2>1, HostDeferred
  <2> HIDE DEF a
  <2>3. a \in SteeringQueue
    BY <2>2 DEF HostOK
  <2>4. /\ r \in SteeringQueue /\ r.reserved = a.reserved
        /\ \A p \in 0..Len(a.entries) : Derived(r.entries, r.deferred, a.entries, a.deferred, 0, p, {})
    BY <2>3, PromotedDerives
  <2> HIDE DEF r
  <2>5. \A p \in 0..a.reserved : Derived(r.entries, r.deferred, a.entries, a.deferred, 0, p, {})
    <3>1. PICK c \in Nat : c = q.reserved
      BY <1>1
    <3>2. PICK m \in Nat : m = Len(q.entries)
      BY <1>1
    <3>3. c <= m
      BY <1>1, <3>1, <3>2
    <3>4. \A p \in 0..c : p \in 0..m
      BY <3>3
    <3> QED
      BY <2>2, <2>4, <3>1, <3>2, <3>4
  <2>6. r.reserved <= Len(r.entries)
    <3>1. HostOK(r, own, G, n + 1)
      BY <2>2, HostPromoted DEF r
    <3> QED
      BY <3>1 DEF HostOK
  <2>7. Grows(a, r, n)
    BY <2>2, <2>4, <2>5, <2>6, DerivedGrows
  <2>8. Grows(q, r, n)
    BY <2>2, <2>7 DEF Grows
  <2> QED
    BY <2>1, <2>8
<1> QED
  BY <1>2, <1>3

\* dismissBackgroundCompletion and awaitSteeringInput
LEMMA ReducedGrows ==
    ASSUME NEW q, NEW own, NEW G, NEW n \in Nat, HostOK(q, own, G, n), NEW k
    PROVE  Grows(q, Dismissed(q, k), n) /\ Grows(q, WakeConsumed(q), n) /\ Grows(q, q, n)
<1>1. q \in SteeringQueue /\ q.reserved <= Len(q.entries) /\ q.reserved \in Nat
      /\ q.entries \in Seq(Entry)
  BY DEF HostOK, SteeringQueue
<1>2. Grows(q, Dismissed(q, k), n)
  <2>1. PICK r : r = Dismissed(q, k)
    OBVIOUS
  <2>2. /\ r \in SteeringQueue /\ r.reserved = q.reserved
        /\ \A p \in 0..q.reserved : Derived(r.entries, r.deferred, q.entries, q.deferred, 0, p, {k})
    BY <1>1, <2>1, DismissedDerives
  <2>3. r.reserved <= Len(r.entries)
    <3>1. HostOK(r, own, G, n)
      BY <2>1, HostDismissed
    <3> QED
      BY <3>1 DEF HostOK
  <2>4. Grows(q, r, n)
    BY <2>2, <2>3, DerivedGrows
  <2> QED
    BY <2>1, <2>4
<1>3. Grows(q, WakeConsumed(q), n)
  <2>1. PICK r : r = WakeConsumed(q)
    OBVIOUS
  <2>2. SameTags(r.entries, q.entries) /\ r.reserved = q.reserved
    BY <2>1, HostQuieted
  <2>3. Len(q.entries) \in Nat
    BY <1>1
  <2>4. Grows(q, r, n)
    BY <1>1, <2>2, <2>3, GrowsSame DEF SameTags
  <2> QED
    BY <2>1, <2>4
<1>4. Grows(q, q, n)
  <2>1. Len(q.entries) \in Nat
    BY <1>1
  <2> QED
    BY <1>1, <2>1, GrowsSame
<1> QED
  BY <1>2, <1>3, <1>4

\* Of the inputs to acknowledge, those of the host's queue.
Share == IF pending.ack < hostShare THEN pending.ack ELSE hostShare

\* Where the acknowledgement is made and not recorded.
Unrecorded ==
    {"acknowledged"} \cup (IF "acknowledged" \in KillPoints THEN {"ending"} ELSE {})

\* What is to be acknowledged was reserved, so no dismissal moves it.
Reading ==
    /\ pc \in {"idle", "woken", "resetting", "begin", "tools", "closing"} => pending.ack = 0
    /\ pc \in {"complete", "acknowledged", "tools", "closing"} => pending.inputs = <<>>
    /\ pc \notin Unrecorded => Share <= host.reserved
    /\ ~conf.reports => pending.ack <= hostShare
    /\ pc = "steered" => conf.preempts

LEMMA ReadingStep ==
    ASSUME LoopInvariant, Reading, [Next]_vars
    PROVE  Reading'
<1>1. /\ hostShare \in Nat /\ pending.ack \in Nat /\ pc \in Points
      /\ host.reserved \in Nat /\ host.entries \in Seq(Entry) /\ next \in Nat
  BY DEF LoopInvariant, LoopTypes, HostOK, SteeringQueue
<1>2. LoopTypes' /\ HostOK(host', owner', guidance', next')
  BY TypesStep, HostStep
<1>3. hostShare' \in Nat /\ pending'.ack \in Nat /\ host'.reserved \in Nat
  BY <1>2 DEF LoopTypes, HostOK, SteeringQueue
<1>h. HostOK(host, owner, guidance, next) /\ \A x \in guidance : x \in Nat /\ x <= next
  BY DEF LoopInvariant, LoopTypes
<1>4. ASSUME UNCHANGED <<conf, pc, pending, hostShare>>, host'.reserved = host.reserved
      PROVE  Reading'
  BY <1>4 DEF Reading, Share
<1>5. ASSUME pending' = NoPending, conf' = conf, pc' # "steered"
      PROVE  Reading'
  <2>1. pending'.ack = 0 /\ pending'.inputs = <<>>
    BY <1>5 DEF NoPending
  <2>2. Share' = 0
    BY <1>3, <2>1 DEF Share
  <2> QED
    BY <1>3, <1>5, <2>1, <2>2 DEF Reading
<1>6. ASSUME pending' = pending, pending.ack = 0, conf' = conf,
             pc' \notin {"steered", "complete", "acknowledged", "tools"},
             pc' = "closing" => pending.inputs = <<>>
      PROVE  Reading'
  <2>1. Share' = 0
    BY <1>3, <1>6 DEF Share
  <2> QED
    BY <1>3, <1>6, <2>1 DEF Reading
<1>7. ASSUME NEW r, pending' = [inputs |-> r, ack |-> hostShare'], conf' = conf, pc' = "ready",
             host'.reserved = hostShare'
      PROVE  Reading'
  <2>1. pending'.ack = hostShare'
    BY <1>7
  <2>2. Share' = hostShare'
    BY <1>3, <2>1 DEF Share
  <2> QED
    BY <1>3, <1>7, <2>1, <2>2 DEF Reading
<1>8. ASSUME NEW s \in Seq(Nat), NEW r, pending' = [inputs |-> r, ack |-> Len(s)],
             conf' = conf, pc' = "ready", conf.reports, hostShare' <= host'.reserved
      PROVE  Reading'
  <2>1. Share' <= hostShare'
    BY <1>3 DEF Share
  <2>2. Share' \in Nat
    BY <1>3 DEF Share
  <2>3. Share' <= host'.reserved
    BY <1>3, <1>8, <2>1, <2>2
  <2> QED
    BY <1>8, <2>3 DEF Reading
<1>9. ASSUME conf' = conf, pc' = "ready", ReadSteering, NEW r,
             pending' = [inputs |-> r, ack |-> Len(Read)]
      PROVE  Reading'
  <2>1. host'.reserved = Len(host.entries) /\ hostShare' = Len(host.entries)
    BY <1>h, <1>1, <1>9, HostReserved DEF ReadSteering
  <2>2. CASE conf.reports
    <3>1. hostShare' <= host'.reserved
      BY <1>3, <2>1
    <3>2. PICK s \in Seq(Nat) : s = Read
      BY ReadFacts
    <3> QED
      BY <1>8, <1>9, <2>2, <3>1, <3>2
  <2>3. CASE ~conf.reports
    <3>1. Len(Read) = Len(host.entries)
      BY <1>1, <2>3, ReadFacts, InputsFacts
    <3> QED
      BY <1>7, <1>9, <2>1, <3>1
  <2> QED
    BY <2>2, <2>3
<1>10. CASE UNCHANGED vars
  BY <1>4, <1>10 DEF vars, queueVars, loopVars
<1>11. ASSUME Grows(host, host', next), UNCHANGED <<conf, pc, pending, hostShare>>
       PROVE  Reading'
  BY <1>4, <1>11 DEF Grows
<1>12. ASSUME NEW n \in Sizes, EnqueueSteering(n) PROVE Reading'
  <2>1. n \in Nat /\ next + 1 \in Nat
    BY <1>1, LoopAssumption
  <2>2. PICK e : e = InputEntry(next + 1, n, "none")
    OBVIOUS
  <2>3. e \in Entry /\ e.input = next + 1
    BY <2>1, <2>2 DEF InputEntry, Entry
  <2>4. host' = Steer(host, e) /\ UNCHANGED <<conf, pc, pending, hostShare>>
    BY <1>12, <2>2 DEF EnqueueSteering, loopVars
  <2>5. Grows(host, Steer(host, e), next)
    BY <1>1, <1>h, <2>3, SteerGrows
  <2> QED
    BY <1>11, <2>4, <2>5
<1>13. ASSUME NEW n \in Sizes, Report(n) PROVE Reading'
  BY <1>4, <1>13 DEF Report, loopVars
<1>14. ASSUME NEW k \in Keys, Launch(k) PROVE Reading'
  BY <1>4, <1>14 DEF Launch, loopVars, queueVars
<1>15. ASSUME NEW k \in Keys, DismissTask(k) PROVE Reading'
  <2>1. host' = Dismissed(host, k) /\ UNCHANGED <<conf, pc, pending, hostShare>>
    BY <1>15 DEF DismissTask, loopVars
  <2>2. Grows(host, Dismissed(host, k), next)
    BY <1>1, <1>h, ReducedGrows
  <2> QED
    BY <1>11, <2>1, <2>2
<1>16. ASSUME NEW k \in Keys, NEW n \in Sizes, CompleteTask(k, n) PROVE Reading'
  <2>1. n \in Nat /\ k # NoKey /\ next + 1 \in Nat
    BY <1>1, LoopAssumption, KeyAssumption
  <2>2. PICK e : e = [InputEntry(next + 1, n, "none") EXCEPT !.key = k]
    OBVIOUS
  <2>3. e = [input |-> next + 1, bytes |-> n, kind |-> "none", key |-> k, wake |-> TRUE]
    BY <2>2 DEF InputEntry
  <2>4. e \in Entry /\ e.input = next + 1 /\ e.key = k
    BY <2>1, <2>3 DEF Entry
  <2>5. host' = Completed(host, owner[k], e) /\ UNCHANGED <<conf, pc, pending, hostShare>>
    BY <1>16, <2>2 DEF CompleteTask, loopVars
  <2>6. Grows(host, Completed(host, owner[k], e), next)
    BY <1>1, <1>h, <2>1, <2>4, CompletedGrows
  <2> QED
    BY <1>11, <2>5, <2>6
<1>17. CASE RequestCancel
  BY <1>4, <1>17 DEF RequestCancel, queueVars, loopVars
<1>18. CASE Prompt
  BY <1>6, <1>18 DEF Prompt, Goto, Reading
<1>19. CASE Wake
  BY <1>6, <1>19 DEF Wake, Goto, Reading
<1>20. CASE StartWoken
  BY <1>6, <1>20 DEF StartWoken, Goto, Reading
<1>21. CASE ResetSession
  BY <1>6, <1>21 DEF ResetSession, Goto, Reading
<1>22. CASE InstallHooks
  BY <1>6, <1>22 DEF InstallHooks, Goto, Reading
<1>23. CASE Recover
  BY <1>5, <1>23 DEF Recover, TurnOver
<1>24. CASE BeginTurn
  BY <1>9, <1>24 DEF BeginTurn, Goto
<1>25. CASE Submit
  <2>1. UNCHANGED <<conf, pending, hostShare, host>> /\ pc = "ready" /\ pc' \in {"ending", "submit"}
    BY <1>25 DEF Submit, Ends, Goto, queueVars
  <2>2. "ready" \notin Unrecorded
    BY DEF Unrecorded
  <2> QED
    BY <2>1, <2>2 DEF Reading, Share
<1>26. ASSUME Salvage \/ NoSalvage, pc = "submit", conf' = conf, pc' \in {"steered", "ending"},
              pc' = "steered" => conf.preempts
       PROVE  Reading'
  <2>1. CASE Salvage
    <3>1. pending'.ack = 0 /\ hostShare' \in Nat
      BY <1>3, <2>1 DEF Salvage, NoPending
    <3>2. Share' = 0
      BY <3>1 DEF Share
    <3> QED
      BY <1>3, <1>26, <3>1, <3>2 DEF Reading
  <2>2. CASE NoSalvage
    <3>1. UNCHANGED <<conf, pending, hostShare, host>>
      BY <1>26, <2>2 DEF NoSalvage, queueVars
    <3>2. "submit" \notin Unrecorded
      BY DEF Unrecorded
    <3> QED
      BY <1>26, <3>1, <3>2 DEF Reading, Share
  <2> QED
    BY <1>26, <2>1, <2>2
<1>27. CASE Steered
  BY <1>26, <1>27 DEF Steered, Goto
<1>28. CASE Aborted
  BY <1>26, <1>28 DEF Aborted, Ends, Goto
<1>29. CASE ContinueSteered
  <2>1. CASE ~cancel
    BY <1>9, <1>29, <2>1 DEF ContinueSteered, Goto
  <2>2. CASE cancel
    <3>1. UNCHANGED <<conf, pending, hostShare, host>> /\ pc = "steered" /\ pc' = "ending"
      BY <1>29, <2>2 DEF ContinueSteered, Ends, Goto, queueVars
    <3>2. "steered" \notin Unrecorded
      BY DEF Unrecorded
    <3> QED
      BY <3>1, <3>2 DEF Reading, Share
  <2> QED
    BY <2>1, <2>2
<1>30. CASE Absorb
  <2>1. PICK x : x = <<>>
    OBVIOUS
  <2>2. /\ pending' = [pending EXCEPT !.inputs = x]
        /\ UNCHANGED <<conf, hostShare, host>> /\ pc = "returned" /\ pc' \in {"ending", "complete"}
    BY <1>30, <2>1 DEF Absorb, Ends, Goto, queueVars
  <2>3. pending \in [inputs : Seq(Nat), ack : Nat]
    BY DEF LoopInvariant, LoopTypes
  <2>4. pending'.ack = pending.ack /\ pending'.inputs = x
    BY <2>2, <2>3
  <2>5. "returned" \notin Unrecorded
    BY DEF Unrecorded
  <2>6. Share' = Share
    BY <2>2, <2>4 DEF Share
  <2> QED
    BY <2>1, <2>2, <2>4, <2>5, <2>6 DEF Reading
<1>31. CASE Acknowledge
  <2>1. UNCHANGED <<conf, pending, hostShare>> /\ pc = "complete" /\ pc' = "acknowledged"
    BY <1>31 DEF Acknowledge, Goto
  <2>2. "acknowledged" \in Unrecorded
    BY DEF Unrecorded
  <2> QED
    BY <2>1, <2>2 DEF Reading
<1>32. CASE ClearAcknowledgement
  <2>1. /\ pending' = [pending EXCEPT !.ack = 0]
        /\ UNCHANGED <<conf, hostShare, host>> /\ pc = "acknowledged" /\ pc' = "tools"
    BY <1>32 DEF ClearAcknowledgement, Goto, queueVars
  <2>2. pending \in [inputs : Seq(Nat), ack : Nat]
    BY DEF LoopInvariant, LoopTypes
  <2>3. pending'.ack = 0 /\ pending'.inputs = pending.inputs
    BY <2>1, <2>2
  <2>4. Share' = 0
    BY <1>3, <2>3 DEF Share
  <2> QED
    BY <1>3, <2>1, <2>3, <2>4 DEF Reading
<1>34. CASE Close
  <2>1. pc = "closing" /\ conf' = conf /\ pending.ack = 0
    BY <1>34 DEF Close, Reading
  <2>2. PICK late : late = (IF conf.reports THEN Inputs(reports.entries) ELSE <<>>)
    OBVIOUS
  <2>3. CASE late # <<>>
    <3>1. conf.reports /\ late = Inputs(reports.entries)
      BY <2>2, <2>3
    <3>2. reports.entries \in Seq(Entry)
      BY DEF LoopInvariant, ReportsOK, SteeringQueue
    <3>3. PICK s \in Seq(Nat) : s = late
      BY <3>1, <3>2, InputsFacts
    <3>4. Continue(late) /\ hostShare' = 0
      BY <1>34, <2>2, <2>3 DEF Close
    <3> QED
      BY <1>3, <1>8, <2>1, <3>1, <3>3, <3>4 DEF Continue, Goto
  <2>4. CASE late = <<>> /\ pc' = "ending"
    <3>1. pending' = pending
      BY <1>34, <2>2, <2>4 DEF Close, Continue, Goto
    <3> QED
      BY <1>6, <2>1, <2>4, <3>1
  <2>5. CASE late = <<>> /\ pc' # "ending"
    <3>1. /\ pending' = [inputs |-> Inputs(host.entries), ack |-> Len(Inputs(host.entries))]
          /\ pc' = "ready" /\ host' = Closed(host) /\ hostShare' = Len(host.entries)
      BY <1>34, <2>2, <2>5 DEF Close, Continue, Ends, Goto
    <3>2. Len(Inputs(host.entries)) = Len(host.entries)
      BY <1>1, InputsFacts
    <3>3. host'.reserved = Len(host.entries)
      BY <1>1, <1>h, <3>1, HostReserved
    <3> QED
      BY <1>7, <2>1, <3>1, <3>2, <3>3
  <2> QED
    BY <2>3, <2>4, <2>5
<1>35. CASE Kill
  <2>1. /\ UNCHANGED <<conf, pending, hostShare, host>> /\ pc \in KillPoints /\ pc' = "ending"
    BY <1>35 DEF Kill, Ends, Goto, queueVars
  <2>2. pc \in Unrecorded => "ending" \in Unrecorded
    BY <2>1 DEF Unrecorded
  <2> QED
    BY <2>1, <2>2 DEF Reading, Share
<1>36. ASSUME NEW b \in BOOLEAN, Returned(b) PROVE Reading'
  <2>1. UNCHANGED <<conf, pending, hostShare, host>> /\ pc = "submit" /\ pc' = "returned"
    BY <1>36 DEF Returned, Goto, queueVars
  <2>2. "submit" \notin Unrecorded
    BY DEF Unrecorded
  <2> QED
    BY <2>1, <2>2 DEF Reading, Share
<1>37. ASSUME NEW b \in BOOLEAN, Advance(b) PROVE Reading'
  <2>1. pc = "tools" /\ pending.ack = 0 /\ conf' = conf
    BY <1>37 DEF Advance, Reading
  <2>2. CASE pc' = "ready"
    BY <1>9, <1>37, <2>1, <2>2 DEF Advance, Continue, Ends, Goto
  <2>3. CASE pc' # "ready"
    <3>1. pending' = pending /\ pc' \in {"closing", "ending"} /\ pending.inputs = <<>>
      BY <1>37, <2>1, <2>3 DEF Advance, Continue, Ends, Goto, Reading
    <3> QED
      BY <1>6, <2>1, <3>1
  <2> QED
    BY <2>2, <2>3
<1> QED
  BY <1>10, <1>12, <1>13, <1>14, <1>15, <1>16, <1>17, <1>18, <1>19, <1>20, <1>21, <1>22, <1>23,
     <1>24, <1>25, <1>27, <1>28, <1>29, <1>30, <1>31, <1>32, <1>34, <1>35, <1>36, <1>37
  DEF Next, Producers, Host, Loop

LEMMA ReadingHolds == Spec => [](LoopInvariant /\ Reading)
<1>1. Init => Reading
  <2> SUFFICES ASSUME Init PROVE Reading
    OBVIOUS
  <2>1. /\ pending.ack = 0 /\ pc = "idle" /\ hostShare = 0 /\ host.reserved = 0
    BY DEF Init, NoPending, EmptyQueue
  <2> QED
    BY <2>1 DEF Reading, Share
<1>2. LoopInvariant /\ Reading /\ [Next]_vars => LoopInvariant' /\ Reading'
  BY LoopKept, ReadingStep
<1> QED
  BY <1>1, <1>2, LoopInitially, PTL DEF Spec

-----------------------------------------------------------------------------
(* The order in which a turn submits guidance                              *)

\* The guidance in T ascends.
InOrder(T, G) ==
    \A i, j \in 1..Len(T) : i < j /\ {T[i], T[j]} \subseteq G => T[i] < T[j]

\* The guidance in the queue behind its first f entries is later than that in T.
Above(T, G, E, f) ==
    \A i \in 1..Len(T) : \A j \in 1..Len(E) :
        T[i] \in G /\ j > f /\ E[j].key = NoKey => T[i] < E[j].input

\* What s adds is guidance of the queue behind its first f entries, in order.
Adds(s, G, E, f) ==
    /\ InOrder(s, G)
    /\ \A i \in 1..Len(s) : s[i] \in G =>
        \E j \in 1..Len(E) : j > f /\ E[j].key = NoKey /\ E[j].input = s[i]

LEMMA OrderExtends ==
    ASSUME NEW T \in Seq(Nat), NEW s \in Seq(Nat), NEW G, NEW E, NEW f,
           InOrder(T, G), Above(T, G, E, f), Adds(s, G, E, f)
    PROVE  InOrder(T \o s, G)
<1>1. PICK m \in Nat : m = Len(T)
  OBVIOUS
<1>2. PICK r \in Nat : r = Len(s)
  OBVIOUS
<1>u. PICK u : u = T \o s
  OBVIOUS
<1>3. /\ Len(u) = m + r
      /\ \A i \in 1..m : u[i] = T[i]
      /\ \A i \in (m + 1)..(m + r) : i - m \in 1..r /\ u[i] = s[i - m]
  BY <1>1, <1>2, <1>u
<1>4. ASSUME NEW i \in 1..(m + r), NEW j \in 1..(m + r), i < j, {u[i], u[j]} \subseteq G
      PROVE  u[i] < u[j]
  <2>1. CASE j <= m
    <3>1. i \in 1..m /\ j \in 1..m
      BY <1>4, <2>1
    <3> QED
      BY <1>1, <1>3, <1>4, <3>1 DEF InOrder
  <2>2. CASE i > m
    <3>1. i \in (m + 1)..(m + r) /\ j \in (m + 1)..(m + r)
      BY <1>4, <2>2
    <3>2. PICK a \in 1..r : a = i - m /\ u[i] = s[a]
      BY <1>3, <3>1
    <3>3. PICK b \in 1..r : b = j - m /\ u[j] = s[b]
      BY <1>3, <3>1
    <3>4. a < b
      BY <1>4, <3>2, <3>3
    <3> QED
      BY <1>2, <1>4, <3>2, <3>3, <3>4 DEF Adds, InOrder
  <2>3. CASE i <= m /\ j > m
    <3>1. i \in 1..m /\ j \in (m + 1)..(m + r)
      BY <2>3
    <3>2. PICK b \in 1..r : u[j] = s[b]
      BY <1>3, <3>1
    <3>3. PICK x \in 1..Len(E) : x > f /\ E[x].key = NoKey /\ E[x].input = s[b]
      BY <1>2, <1>4, <3>2 DEF Adds
    <3>4. T[i] \in G
      BY <1>3, <1>4, <3>1
    <3>5. T[i] < E[x].input
      BY <1>1, <3>1, <3>3, <3>4 DEF Above
    <3> QED
      BY <1>3, <3>1, <3>2, <3>3, <3>5
  <2> QED
    BY <2>1, <2>2, <2>3
<1> QED
  BY <1>3, <1>4, <1>u DEF InOrder

LEMMA Joined ==
    ASSUME NEW s \in Seq(Nat), NEW t \in Seq(Nat)
    PROVE  /\ s \o t \in Seq(Nat) /\ Len(s \o t) = Len(s) + Len(t)
           /\ \A i \in 1..Len(s) : (s \o t)[i] = s[i]
           /\ \A i \in 1..Len(t) : (s \o t)[i + Len(s)] = t[i]
           /\ \A i \in 1..Len(s \o t) : i > Len(s) =>
                \E j \in 1..Len(t) : i = j + Len(s) /\ (s \o t)[i] = t[j]
<1>1. PICK m \in Nat : m = Len(s)
  OBVIOUS
<1>2. PICK r \in Nat : r = Len(t)
  OBVIOUS
<1>3. s \o t \in Seq(Nat) /\ Len(s \o t) = m + r
  BY <1>1, <1>2
<1>4. \A i \in 1..m : (s \o t)[i] = s[i]
  BY <1>1, <1>2
<1>5. ASSUME NEW i \in 1..r PROVE (s \o t)[i + m] = t[i]
  BY <1>1, <1>2
<1>6. ASSUME NEW i \in 1..(m + r), i > m
      PROVE  \E j \in 1..r : i = j + m /\ (s \o t)[i] = t[j]
  <2>1. PICK j \in 1..r : i = j + m
    BY <1>6
  <2> QED
    BY <1>5, <2>1
<1> QED
  BY <1>1, <1>2, <1>3, <1>4, <1>5, <1>6

\* The host's inputs come in the order of the queue; notices and reports are not
\* guidance.
LEMMA ReadAdds ==
    ASSUME LoopInvariant, NEW m \in Nat
    PROVE  /\ Drop(Read, m) \in Seq(Nat) /\ Adds(Drop(Read, m), guidance, host.entries, m)
           /\ Adds(Inputs(host.entries), guidance, host.entries, 0)
           /\ \A i \in 1..Len(Inputs(reports.entries)) : Inputs(reports.entries)[i] \notin guidance
           /\ \A i \in 1..Len(Read) : Read[i] <= next
           /\ \A i \in 1..Len(Inputs(host.entries)) : Inputs(host.entries)[i] <= next
           /\ \A i \in 1..Len(Inputs(reports.entries)) : Inputs(reports.entries)[i] <= next
<1>1. /\ host \in SteeringQueue /\ reports \in SteeringQueue
      /\ GuidanceApart(host.entries, host.deferred, guidance, next)
  BY DEF LoopInvariant, HostOK, ReportsOK
<1>2. PICK E \in Seq(Entry) : E = host.entries
  BY <1>1 DEF SteeringQueue
<1>3. PICK D \in Seq(Entry) : D = host.deferred
  BY <1>1 DEF SteeringQueue
<1>4. PICK R \in Seq(Entry) : R = reports.entries
  BY <1>1 DEF SteeringQueue
<1>5. PICK RD \in Seq(Entry) : RD = reports.deferred
  BY <1>1 DEF SteeringQueue
<1>6. PICK e \in Nat : e = Len(E)
  OBVIOUS
<1>7. PICK r \in Nat : r = Len(R)
  OBVIOUS
<1>8. PICK t \in Nat : t = Total(E, D) /\ e <= t
  <2>1. PICK x \in Nat : x = Len(D)
    OBVIOUS
  <2>2. Total(E, D) = e + x
    BY <1>6, <2>1 DEF Total
  <2> QED
    BY <2>2
<1>9. PICK tr \in Nat : tr = Total(R, RD) /\ r <= tr
  BY <1>7 DEF Total
<1>10. PICK h \in Seq(Nat) : h = Inputs(E) /\ Len(h) = e /\ \A i \in 1..e : h[i] = E[i].input
  BY <1>6, InputsFacts
<1>11. PICK g \in Seq(Nat) : g = Inputs(R) /\ Len(g) = r /\ \A i \in 1..r : g[i] = R[i].input
  BY <1>7, InputsFacts
<1>12. \A i \in 1..e : h[i] <= next /\ (E[i].key # NoKey => h[i] \notin guidance)
  <2> TAKE i \in 1..e
  <2>1. i \in 1..t /\ At(E, D, i) = E[i]
    BY <1>6, <1>8 DEF At
  <2> QED
    BY <1>1, <1>2, <1>3, <1>8, <1>10, <2>1 DEF GuidanceApart
<1>13. \A i, j \in 1..e : i < j /\ E[i].key = NoKey /\ E[j].key = NoKey => h[i] < h[j]
  <2> TAKE i, j \in 1..e
  <2>1. i \in 1..t /\ At(E, D, i) = E[i] /\ j \in 1..t /\ At(E, D, j) = E[j]
    BY <1>6, <1>8 DEF At
  <2> QED
    BY <1>1, <1>2, <1>3, <1>8, <1>10, <2>1 DEF GuidanceApart
<1>14. \A i \in 1..r : g[i] <= next /\ g[i] \notin guidance
  <2> TAKE i \in 1..r
  <2>1. i \in 1..tr /\ At(R, RD, i) = R[i]
    BY <1>7, <1>9 DEF At
  <2>2. \A x \in 1..Total(R, RD) : At(R, RD, x).input <= next /\ At(R, RD, x).input \notin guidance
    BY <1>4, <1>5 DEF LoopInvariant, ReportsOK
  <2> QED
    BY <1>9, <1>11, <2>1, <2>2
<1>15. PICK z \in Seq(Nat) : z = Read
  BY ReadFacts
<1>16. PICK l \in Nat : l = Len(z)
  OBVIOUS
<1>17. e <= l /\ (\A i \in 1..e : z[i] = h[i])
       /\ \A i \in 1..l : i > e => z[i] <= next /\ z[i] \notin guidance
  <2>1. CASE ~conf.reports
    <3>1. z = h
      BY <1>2, <1>10, <1>15, <2>1, ReadFacts
    <3> QED
      BY <1>10, <1>16, <3>1
  <2>2. CASE conf.reports
    <3>1. z = h \o g
      BY <1>2, <1>4, <1>10, <1>11, <1>15, <2>2, ReadFacts
    <3>2. /\ l = e + r /\ \A i \in 1..e : z[i] = h[i]
          /\ \A i \in 1..l : i > e => \E j \in 1..r : i = j + e /\ z[i] = g[j]
      <4>1. /\ Len(h \o g) = Len(h) + Len(g)
            /\ \A i \in 1..Len(h) : (h \o g)[i] = h[i]
            /\ \A i \in 1..Len(h \o g) : i > Len(h) =>
                 \E j \in 1..Len(g) : i = j + Len(h) /\ (h \o g)[i] = g[j]
        BY Joined
      <4>2. Len(h) = e /\ Len(g) = r /\ l = Len(h \o g)
        BY <1>10, <1>11, <1>16, <3>1
      <4> QED
        BY <3>1, <4>1, <4>2
    <3>3. e <= l
      BY <3>2
    <3> QED
      BY <1>14, <3>2, <3>3
  <2> QED
    BY <2>1, <2>2
<1>18. \A i \in 1..l : z[i] <= next
  BY <1>12, <1>17
<1>19. \A i \in 1..l : z[i] \in guidance => i \in 1..e /\ E[i].key = NoKey /\ E[i].input = z[i]
  BY <1>10, <1>12, <1>17
<1>20. ASSUME NEW c \in Nat, NEW s, NEW k \in Nat, k = Len(s), c + k = l \/ k = 0,
              \A i \in 1..k : i + c \in 1..l /\ s[i] = z[i + c]
       PROVE  Adds(s, guidance, host.entries, c)
  <2>1. ASSUME NEW i \in 1..k, s[i] \in guidance
        PROVE  \E j \in 1..e : j > c /\ E[j].key = NoKey /\ E[j].input = s[i] /\ j = i + c
    <3>1. PICK j \in 1..l : j = i + c /\ s[i] = z[j]
      BY <1>20
    <3>2. j \in 1..e /\ E[j].key = NoKey /\ E[j].input = z[j]
      BY <1>19, <2>1, <3>1
    <3>3. j > c
      BY <3>1
    <3> QED
      BY <3>1, <3>2, <3>3
  <2>2. ASSUME NEW i \in 1..k, NEW j \in 1..k, i < j, {s[i], s[j]} \subseteq guidance
        PROVE  s[i] < s[j]
    <3>1. PICK a \in 1..e : E[a].key = NoKey /\ E[a].input = s[i] /\ a = i + c
      BY <2>1, <2>2
    <3>2. PICK b \in 1..e : E[b].key = NoKey /\ E[b].input = s[j] /\ b = j + c
      BY <2>1, <2>2
    <3>3. a < b
      BY <2>2, <3>1, <3>2
    <3>4. h[a] < h[b]
      BY <1>13, <3>1, <3>2, <3>3
    <3> QED
      BY <1>10, <3>1, <3>2, <3>4
  <2> QED
    BY <1>2, <1>6, <1>20, <2>1, <2>2 DEF Adds, InOrder
<1>21. PICK s \in Seq(Nat) : s = Drop(z, m)
  <2>1. SubSeq(z, m + 1, l) \in Seq(Nat)
    BY <1>16
  <2> QED
    BY <1>16, <2>1 DEF Drop
<1>22. /\ m <= l => Len(s) = l - m /\ \A i \in 1..(l - m) : s[i] = z[i + m]
       /\ m > l => Len(s) = 0
  BY <1>16, <1>21 DEF Drop
<1>23. Adds(Drop(Read, m), guidance, host.entries, m)
  <2>1. CASE m <= l
    <3>1. PICK k \in Nat : k = l - m
      BY <2>1
    <3>2. \A i \in 1..k : i + m \in 1..l
      BY <3>1
    <3>3. m + k = l
      BY <3>1
    <3>4. k = Len(s) /\ \A i \in 1..k : s[i] = z[i + m]
      BY <1>22, <2>1, <3>1
    <3>5. Adds(s, guidance, host.entries, m)
      BY <1>20, <3>2, <3>3, <3>4
    <3> QED
      BY <1>15, <1>21, <3>5
  <2>2. CASE m > l
    <3>1. 0 = Len(s)
      BY <1>22, <2>2
    <3>2. Adds(s, guidance, host.entries, m)
      BY <3>1 DEF Adds, InOrder
    <3> QED
      BY <1>15, <1>21, <3>2
  <2> QED
    BY <2>1, <2>2
<1>24. Adds(Inputs(host.entries), guidance, host.entries, 0)
  <2>1. ASSUME NEW i \in 1..e, h[i] \in guidance
        PROVE  \E j \in 1..e : j > 0 /\ E[j].key = NoKey /\ E[j].input = h[i]
    <3>1. E[i].key = NoKey /\ E[i].input = h[i] /\ i > 0
      BY <1>10, <1>12, <2>1
    <3> QED
      BY <3>1
  <2>2. ASSUME NEW i \in 1..e, NEW j \in 1..e, i < j, {h[i], h[j]} \subseteq guidance
        PROVE  h[i] < h[j]
    BY <1>12, <1>13, <2>2
  <2> QED
    BY <1>2, <1>6, <1>10, <2>1, <2>2 DEF Adds, InOrder
<1> QED
  BY <1>2, <1>4, <1>10, <1>11, <1>12, <1>14, <1>15, <1>16, <1>18, <1>21, <1>23, <1>24

LEMMA DropFacts ==
    ASSUME NEW s \in Seq(Nat), NEW b \in Nat, b <= Len(s)
    PROVE  /\ Drop(s, b) \in Seq(Nat) /\ Len(Drop(s, b)) = Len(s) - b
           /\ \A i \in 1..(Len(s) - b) : i + b \in 1..Len(s) /\ Drop(s, b)[i] = s[i + b]
<1>1. PICK m \in Nat : m = Len(s)
  OBVIOUS
<1>b. b <= m
  BY <1>1
<1>2. SubSeq(s, b + 1, m) \in Seq(Nat) /\ Len(SubSeq(s, b + 1, m)) = m - b
      /\ \A i \in 1..(m - b) : i + b \in 1..m /\ SubSeq(s, b + 1, m)[i] = s[i + b]
  <2>1. SubSeq(s, b + 1, m) \in Seq(Nat)
    BY <1>1, <1>b
  <2>2. Len(SubSeq(s, b + 1, m)) = m - b
    BY <1>1, <1>b
  <2>3. ASSUME NEW i \in 1..(m - b) PROVE i + b \in 1..m /\ SubSeq(s, b + 1, m)[i] = s[i + b]
    <3>1. i + b \in 1..m
      BY <1>b
    <3>2. SubSeq(s, b + 1, m)[i] = s[(b + 1) + i - 1]
      BY <1>1, <1>b
    <3>3. (b + 1) + i - 1 = i + b
      BY <1>b
    <3> QED
      BY <3>1, <3>2, <3>3
  <2> QED
    BY <2>1, <2>2, <2>3
<1> QED
  BY <1>1, <1>2 DEF Drop

LEMMA SameSeq ==
    ASSUME NEW s \in Seq(Nat), NEW t \in Seq(Nat), Len(s) = Len(t),
           \A i \in 1..Len(s) : s[i] = t[i]
    PROVE  s = t
OBVIOUS

LEMMA JoinedThrice ==
    ASSUME NEW s \in Seq(Nat), NEW t \in Seq(Nat), NEW u \in Seq(Nat)
    PROVE  (s \o t) \o u = s \o (t \o u)
OBVIOUS

LEMMA DropJoined ==
    ASSUME NEW s \in Seq(Nat), NEW t \in Seq(Nat), NEW b \in Nat, b <= Len(s)
    PROVE  Drop(s \o t, b) = Drop(s, b) \o t
<1>1. PICK m \in Nat : m = Len(s)
  OBVIOUS
<1>2. PICK r \in Nat : r = Len(t)
  OBVIOUS
<1>3. PICK u \in Seq(Nat) : u = s \o t
  BY Joined
<1>4. Len(u) = m + r /\ (\A i \in 1..m : u[i] = s[i]) /\ (\A i \in 1..r : u[i + m] = t[i])
  BY <1>1, <1>2, <1>3, Joined
<1>5. PICK d \in Seq(Nat) : d = Drop(s, b)
  BY DropFacts
<1>6. PICK k \in Nat : k + b = m
  <2>1. b <= m
    BY <1>1
  <2>2. m - b \in Nat /\ (m - b) + b = m
    BY <2>1
  <2> QED
    BY <2>2
<1>7. Len(d) = k /\ \A i \in 1..k : i + b \in 1..m /\ d[i] = s[i + b]
  <2>1. Len(s) - b = k
    BY <1>1, <1>6
  <2> QED
    BY <1>1, <1>5, <2>1, DropFacts
<1>8. PICK x \in Seq(Nat) : x = Drop(u, b)
  <2>1. b <= Len(u)
    BY <1>1, <1>4
  <2> QED
    BY <2>1, DropFacts
<1>9. Len(x) = k + r /\ \A i \in 1..(k + r) : i + b \in 1..(m + r) /\ x[i] = u[i + b]
  <2>1. b <= m + r /\ (m + r) - b = k + r
    BY <1>6
  <2>2. b <= Len(u) /\ Len(u) - b = k + r
    BY <1>4, <2>1
  <2>3. /\ Len(Drop(u, b)) = Len(u) - b
        /\ \A i \in 1..(Len(u) - b) : i + b \in 1..Len(u) /\ Drop(u, b)[i] = u[i + b]
    BY <2>2, DropFacts
  <2> QED
    BY <1>4, <1>8, <2>2, <2>3
<1>10. PICK y \in Seq(Nat) : y = d \o t
  BY Joined
<1>11. Len(y) = k + r /\ (\A i \in 1..k : y[i] = d[i]) /\ (\A i \in 1..r : y[i + k] = t[i])
  <2>1. /\ Len(d \o t) = Len(d) + Len(t) /\ (\A i \in 1..Len(d) : (d \o t)[i] = d[i])
        /\ \A i \in 1..Len(t) : (d \o t)[i + Len(d)] = t[i]
    BY Joined
  <2> QED
    BY <1>2, <1>7, <1>10, <2>1
<1>12. ASSUME NEW i \in 1..(k + r) PROVE x[i] = y[i]
  <2>1. CASE i <= k
    <3>1. i \in 1..k
      BY <2>1
    <3>2. i + b \in 1..m
      BY <1>7, <3>1
    <3> QED
      BY <1>4, <1>7, <1>9, <1>11, <3>1, <3>2
  <2>2. CASE i > k
    <3>1. PICK j \in 1..r : i = j + k
      BY <2>2
    <3>2. i + b = j + m
      BY <1>6, <3>1
    <3> QED
      BY <1>4, <1>9, <1>11, <3>1, <3>2
  <2> QED
    BY <2>1, <2>2
<1>13. x = y
  BY <1>9, <1>11, <1>12, SameSeq
<1> QED
  BY <1>3, <1>5, <1>8, <1>10, <1>13

AllBelow(s, n) == \A i \in 1..Len(s) : s[i] <= n
NoGuidance(s, G) == \A i \in 1..Len(s) : s[i] \notin G

LEMMA BelowJoined ==
    ASSUME NEW s \in Seq(Nat), NEW t \in Seq(Nat), NEW n \in Nat
    PROVE  /\ AllBelow(s, n) /\ AllBelow(t, n) => AllBelow(s \o t, n)
           /\ AllBelow(s, n) => AllBelow(s, n + 1)
           /\ \A b \in Nat : b <= Len(s) /\ AllBelow(s, n) => AllBelow(Drop(s, b), n)
<1>1. ASSUME AllBelow(s, n), AllBelow(t, n) PROVE AllBelow(s \o t, n)
  <2>1. PICK m \in Nat : m = Len(s)
    OBVIOUS
  <2>2. ASSUME NEW i \in 1..Len(s \o t) PROVE (s \o t)[i] <= n
    <3>1. CASE i <= m
      <4>1. i \in 1..Len(s)
        BY <2>1, <3>1
      <4> QED
        BY <1>1, <4>1, Joined DEF AllBelow
    <3>2. CASE i > m
      <4>1. \A x \in 1..Len(s \o t) : x > Len(s) =>
              \E j \in 1..Len(t) : x = j + Len(s) /\ (s \o t)[x] = t[j]
        BY Joined
      <4>2. PICK j \in 1..Len(t) : (s \o t)[i] = t[j]
        BY <2>1, <3>2, <4>1
      <4> QED
        BY <1>1, <4>2 DEF AllBelow
    <3>3. Len(s \o t) \in Nat
      BY Joined
    <3> QED
      BY <3>1, <3>2, <3>3
  <2> QED
    BY <2>2 DEF AllBelow
<1>2. ASSUME AllBelow(s, n) PROVE AllBelow(s, n + 1)
  <2>1. ASSUME NEW i \in 1..Len(s) PROVE s[i] <= n + 1
    <3>1. PICK x \in Nat : x = s[i]
      OBVIOUS
    <3>2. x <= n
      BY <1>2, <3>1 DEF AllBelow
    <3> QED
      BY <3>1, <3>2
  <2> QED
    BY <2>1 DEF AllBelow
<1>3. ASSUME NEW b \in Nat, b <= Len(s), AllBelow(s, n) PROVE AllBelow(Drop(s, b), n)
  <2>1. /\ Len(Drop(s, b)) = Len(s) - b
        /\ \A i \in 1..(Len(s) - b) : i + b \in 1..Len(s) /\ Drop(s, b)[i] = s[i + b]
    BY <1>3, DropFacts
  <2>2. ASSUME NEW i \in 1..(Len(s) - b) PROVE Drop(s, b)[i] <= n
    <3>1. PICK j \in 1..Len(s) : j = i + b /\ Drop(s, b)[i] = s[j]
      BY <2>1
    <3> QED
      BY <1>3, <3>1 DEF AllBelow
  <2> QED
    BY <2>1, <2>2 DEF AllBelow
<1> QED
  BY <1>1, <1>2, <1>3

\* The turn whose inputs are those of hist after the first b, and inp.
InTurn(hist, b, inp, G, E, f) ==
    /\ b <= Len(hist)
    /\ InOrder(Drop(hist, b) \o inp, G) /\ Above(Drop(hist, b) \o inp, G, E, f)

\* Inputs join the turn.
LEMMA TurnAdds ==
    ASSUME NEW hist \in Seq(Nat), NEW b \in Nat, NEW inp \in Seq(Nat), NEW s \in Seq(Nat),
           NEW G, NEW E, NEW f, InTurn(hist, b, inp, G, E, f)
    PROVE  /\ Adds(s, G, E, f) => InTurn(hist, b, inp \o s, G, E, Len(E))
           /\ NoGuidance(s, G) => InTurn(hist, b, inp \o s, G, E, f)
           /\ InTurn(hist \o inp, b, <<>>, G, E, f)
<1>1. b <= Len(hist)
  BY DEF InTurn
<1>2. PICK d \in Seq(Nat) : d = Drop(hist, b)
  BY <1>1, DropFacts
<1>3. PICK T \in Seq(Nat) : T = d \o inp
  BY Joined
<1>4. InOrder(T, G) /\ Above(T, G, E, f)
  BY <1>2, <1>3 DEF InTurn
<1>5. d \o (inp \o s) = T \o s
  BY <1>3, JoinedThrice
<1>6. ASSUME Adds(s, G, E, f) PROVE InTurn(hist, b, inp \o s, G, E, Len(E))
  <2>1. InOrder(T \o s, G)
    BY <1>4, <1>6, OrderExtends
  <2>2. Above(T \o s, G, E, Len(E))
    BY DEF Above
  <2> QED
    BY <1>1, <1>2, <1>5, <2>1, <2>2 DEF InTurn
<1>7. ASSUME NoGuidance(s, G) PROVE InTurn(hist, b, inp \o s, G, E, f)
  <2>1. Adds(s, G, E, f)
    BY <1>7 DEF NoGuidance, Adds, InOrder
  <2>2. InOrder(T \o s, G)
    BY <1>4, <2>1, OrderExtends
  <2>3. ASSUME NEW i \in 1..Len(T \o s), (T \o s)[i] \in G
        PROVE  i \in 1..Len(T) /\ (T \o s)[i] = T[i]
    <3>1. PICK m \in Nat : m = Len(T)
      OBVIOUS
    <3>2. CASE i > m
      <4>1. PICK j \in 1..Len(s) : (T \o s)[i] = s[j]
        BY <3>1, <3>2, Joined
      <4> QED
        BY <1>7, <2>3, <4>1 DEF NoGuidance
    <3>3. CASE i <= m
      <4>1. Len(T \o s) \in Nat
        BY Joined
      <4>2. i \in 1..m
        BY <3>3, <4>1
      <4> QED
        BY <3>1, <4>2, Joined
    <3>4. Len(T \o s) \in Nat
      BY Joined
    <3> QED
      BY <3>1, <3>2, <3>3, <3>4
  <2>4. Above(T \o s, G, E, f)
    BY <1>4, <2>3 DEF Above
  <2> QED
    BY <1>1, <1>2, <1>5, <2>2, <2>4 DEF InTurn
<1>8. InTurn(hist \o inp, b, <<>>, G, E, f)
  <2>1. Drop(hist \o inp, b) = T
    BY <1>1, <1>2, <1>3, DropJoined
  <2>2. T \o <<>> = T
    OBVIOUS
  <2>3. b <= Len(hist \o inp)
    <3>1. Len(hist \o inp) = Len(hist) + Len(inp)
      BY Joined
    <3>2. PICK m \in Nat : m = Len(hist)
      OBVIOUS
    <3>3. PICK r \in Nat : r = Len(inp)
      OBVIOUS
    <3> QED
      BY <1>1, <3>1, <3>2, <3>3
  <2> QED
    BY <1>4, <2>1, <2>2, <2>3 DEF InTurn
<1> QED
  BY <1>6, <1>7, <1>8

\* A turn begins.
LEMMA TurnBegins ==
    ASSUME NEW hist \in Seq(Nat), NEW s \in Seq(Nat), NEW G, NEW E, NEW f, NoGuidance(s, G)
    PROVE  InTurn(hist, Len(hist), s, G, E, f)
<1>1. PICK m \in Nat : m = Len(hist)
  OBVIOUS
<1>2. PICK d \in Seq(Nat) : d = Drop(hist, m) /\ Len(d) = 0
  BY <1>1, DropFacts
<1>3. d = <<>>
  BY <1>2
<1>4. d \o s = s
  BY <1>3
<1>5. InOrder(s, G) /\ Above(s, G, E, f)
  BY DEF NoGuidance, InOrder, Above
<1> QED
  BY <1>1, <1>2, <1>4, <1>5 DEF InTurn

\* The queue grows during the turn.
LEMMA TurnGrows ==
    ASSUME NEW hist \in Seq(Nat), NEW b \in Nat, NEW inp \in Seq(Nat), NEW G, NEW H,
           NEW q, NEW r \in SteeringQueue, NEW n \in Nat, NEW f \in Nat,
           AllBelow(hist, n), AllBelow(inp, n), H = G \/ H = G \cup {n + 1},
           q.reserved \in Nat, f <= q.reserved, Grows(q, r, n),
           InTurn(hist, b, inp, G, q.entries, f)
    PROVE  InTurn(hist, b, inp, H, r.entries, f)
<1>1. b <= Len(hist)
  BY DEF InTurn
<1>2. PICK d \in Seq(Nat) : d = Drop(hist, b)
  BY <1>1, DropFacts
<1>3. PICK T \in Seq(Nat) : T = d \o inp
  BY Joined
<1>4. InOrder(T, G) /\ Above(T, G, q.entries, f)
  BY <1>2, <1>3 DEF InTurn
<1>5. AllBelow(T, n)
  BY <1>1, <1>2, <1>3, BelowJoined
<1>6. \A i \in 1..Len(T) : T[i] \in Nat /\ T[i] <= n /\ (T[i] \in H => T[i] \in G)
  BY <1>5 DEF AllBelow
<1>7. InOrder(T, H)
  BY <1>4, <1>6 DEF InOrder
<1>8. ASSUME NEW i \in 1..Len(T), NEW j \in 1..Len(r.entries), T[i] \in H, j > f,
             r.entries[j].key = NoKey
      PROVE  T[i] < r.entries[j].input
  <2>1. f \in 0..q.reserved
    OBVIOUS
  <2>2. \/ r.entries[j].input = n + 1
        \/ \E x \in 1..Len(q.entries) :
             x > f /\ q.entries[x].key = NoKey /\ q.entries[x].input = r.entries[j].input
    BY <1>8, <2>1 DEF Grows
  <2>3. CASE r.entries[j].input = n + 1
    BY <1>6, <2>3
  <2>4. CASE \E x \in 1..Len(q.entries) :
               x > f /\ q.entries[x].key = NoKey /\ q.entries[x].input = r.entries[j].input
    BY <1>4, <1>6, <1>8, <2>4 DEF Above
  <2> QED
    BY <2>2, <2>3, <2>4
<1>9. Above(T, H, r.entries, f)
  BY <1>8 DEF Above
<1> QED
  BY <1>1, <1>2, <1>3, <1>7, <1>9 DEF InTurn

\* The inputs of the turn are acknowledged.
LEMMA TurnAcknowledged ==
    ASSUME NEW hist \in Seq(Nat), NEW b \in Nat, NEW inp \in Seq(Nat),
           NEW q, NEW own, NEW G, NEW n \in Nat, NEW f \in Nat,
           HostOK(q, own, G, n), f <= q.reserved, InTurn(hist, b, inp, G, q.entries, f)
    PROVE  InTurn(hist, b, inp, G, Acknowledged(q, f).entries, 0)
<1>1. q \in SteeringQueue /\ q.reserved <= Len(q.entries)
      /\ GuidanceApart(q.entries, q.deferred, G, n)
  BY DEF HostOK
<1>2. PICK E \in Seq(Entry) : E = q.entries
  BY <1>1 DEF SteeringQueue
<1>3. PICK D \in Seq(Entry) : D = q.deferred
  BY <1>1 DEF SteeringQueue
<1>4. PICK r \in SteeringQueue : r = Acknowledged(q, f)
  BY <1>1, AcknowledgedDerives
<1>5. PICK E1 \in Seq(Entry) : E1 = r.entries
  BY DEF SteeringQueue
<1>6. PICK D1 \in Seq(Entry) : D1 = r.deferred
  BY DEF SteeringQueue
<1>7. PICK e \in Nat : e = Len(E)
  OBVIOUS
<1>8. f <= e
  <2>1. PICK c \in Nat : c = q.reserved
    BY <1>1 DEF SteeringQueue
  <2> QED
    BY <1>1, <1>2, <1>7, <2>1
<1>9. Derived(E1, D1, E, D, f, 0, {})
  <2>1. \E d \in 0..Len(q.entries) :
          /\ d <= f /\ (f <= Len(q.entries) => d = f)
          /\ \A p \in 0..(Len(q.entries) - d) :
               Derived(Acknowledged(q, f).entries, Acknowledged(q, f).deferred,
                       q.entries, q.deferred, d, p, {})
    BY <1>1, AcknowledgedDerives
  <2>2. PICK d \in 0..e : d = f /\ \A p \in 0..(e - d) : Derived(E1, D1, E, D, d, p, {})
    BY <1>2, <1>3, <1>4, <1>5, <1>6, <1>7, <1>8, <2>1
  <2>3. 0 \in 0..(e - d)
    BY <1>8, <2>2
  <2> QED
    BY <2>2, <2>3
<1>10. PICK g : Follows(g, E1, D1, E, D, f, 0, {})
  BY <1>9 DEF Derived
<1>11. PICK m1 \in Nat : m1 = Len(E1)
  OBVIOUS
<1>12. PICK t \in Nat : t = Total(E, D)
  BY TotalType
<1>13. PICK t1 \in Nat : t1 = Total(E1, D1) /\ m1 <= t1
  <2>1. PICK x \in Nat : x = Len(D1)
    OBVIOUS
  <2>2. Total(E1, D1) = m1 + x
    BY <1>11, <2>1 DEF Total
  <2> QED
    BY <2>2
<1>14. ASSUME NEW j \in 1..m1, E1[j].key = NoKey
       PROVE  \E x \in 1..e : x > f /\ E[x].key = NoKey /\ E[x].input = E1[j].input
  <2>1. j \in 1..t1 /\ At(E1, D1, j) = E1[j]
    BY <1>11, <1>13 DEF At
  <2>2. g[j] \in 1..t
    BY <1>10, <1>12, <1>13, <2>1 DEF Follows
  <2>3. PICK x \in 1..t : x = g[j]
    BY <2>2
  <2>4. At(E, D, x).key = NoKey /\ At(E, D, x).input = E1[j].input /\ x > f
    BY <1>10, <1>13, <1>14, <2>1, <2>3 DEF Follows
  <2>5. x <= Len(E)
    <3>1. x > Len(E) => At(E, D, x).key # NoKey
      BY <1>1, <1>2, <1>3, <1>12 DEF GuidanceApart
    <3> QED
      BY <1>7, <2>4, <3>1
  <2>6. At(E, D, x) = E[x] /\ x \in 1..e
    BY <1>7, <2>5 DEF At
  <2> QED
    BY <2>4, <2>6
<1>15. b <= Len(hist)
  BY DEF InTurn
<1>16. PICK T : T = Drop(hist, b) \o inp
  OBVIOUS
<1>17. InOrder(T, G) /\ Above(T, G, E, f)
  BY <1>2, <1>16 DEF InTurn
<1>18. Above(T, G, E1, 0)
  BY <1>7, <1>11, <1>14, <1>17 DEF Above
<1> QED
  BY <1>4, <1>5, <1>15, <1>16, <1>17, <1>18 DEF InTurn

Working ==
    {"ready", "submit", "steered", "returned", "complete", "acknowledged", "tools", "closing"}

\* The inputs of the request that are not yet in the history.
Unsent == IF pc = "returned" THEN <<>> ELSE pending.inputs

\* The entries at the head of the host's queue that the turn has submitted.
Taken == IF pc = "acknowledged" THEN 0 ELSE Share

Known ==
    /\ AllBelow(first, next) /\ AllBelow(history, next) /\ AllBelow(pending.inputs, next)
    /\ NoGuidance(first, guidance)

Ordered ==
    pc \in Working => InTurn(history, base, Unsent, guidance, host.entries, Taken)

LEMMA KnownStep ==
    ASSUME LoopInvariant, Known, [Next]_vars
    PROVE  Known'
<1>1. /\ next \in Nat /\ first \in Seq(Nat) /\ history \in Seq(Nat) /\ pending.inputs \in Seq(Nat)
      /\ \A x \in guidance : x \in Nat /\ x <= next
  BY DEF LoopInvariant, LoopTypes
<1>2. AllBelow(<<>>, next) /\ NoGuidance(<<>>, guidance)
  BY DEF AllBelow, NoGuidance
<1>3. AllBelow(history \o pending.inputs, next)
  BY <1>1, BelowJoined DEF Known
<1>4. AllBelow(Read, next) /\ AllBelow(Inputs(host.entries), next)
      /\ AllBelow(Inputs(reports.entries), next)
  <2>1. 0 \in Nat
    OBVIOUS
  <2> QED
    BY <2>1, ReadAdds DEF AllBelow
<1>5. Read \in Seq(Nat) /\ AllBelow(Drop(Read, pending.ack), next)
      /\ Drop(Read, pending.ack) \in Seq(Nat)
  <2>1. pending.ack \in Nat
    BY DEF LoopInvariant, LoopTypes
  <2>2. PICK a \in Nat : a = pending.ack
    BY <2>1
  <2>3. PICK z \in Seq(Nat) : z = Read
    BY ReadFacts
  <2>4. CASE a <= Len(z)
    BY <1>1, <1>4, <2>2, <2>3, <2>4, BelowJoined, DropFacts
  <2>5. CASE a > Len(z)
    <3>1. PICK m \in Nat : m = Len(z)
      OBVIOUS
    <3>2. SubSeq(z, a + 1, m) = <<>>
      BY <2>5, <3>1
    <3>3. Drop(z, a) = <<>>
      BY <3>1, <3>2 DEF Drop
    <3>4. <<>> \in Seq(Nat)
      OBVIOUS
    <3> QED
      BY <1>2, <2>2, <2>3, <3>3, <3>4
  <2>6. Len(z) \in Nat
    OBVIOUS
  <2> QED
    BY <2>4, <2>5, <2>6
<1>6. AllBelow(first \o Read, next) /\ AllBelow(pending.inputs \o Drop(Read, pending.ack), next)
  BY <1>1, <1>4, <1>5, BelowJoined DEF Known
<1>7. ASSUME UNCHANGED <<next, guidance, first>>, AllBelow(history', next), AllBelow(pending'.inputs, next)
      PROVE  Known'
  BY <1>7 DEF Known
<1>8. ASSUME next' = next + 1, UNCHANGED <<first, history, pending>>,
             guidance' = guidance \/ guidance' = guidance \cup {next + 1}
      PROVE  Known'
  <2>1. AllBelow(first, next + 1) /\ AllBelow(history, next + 1) /\ AllBelow(pending.inputs, next + 1)
    BY <1>1, BelowJoined DEF Known
  <2>2. NoGuidance(first, guidance')
    <3>1. ASSUME NEW i \in 1..Len(first) PROVE first[i] \notin guidance'
      <4>1. PICK x \in Nat : x = first[i]
        BY <1>1
      <4>2. x <= next /\ x \notin guidance
        BY <4>1 DEF Known, AllBelow, NoGuidance
      <4>3. x # next + 1
        BY <1>1, <4>2
      <4> QED
        BY <1>8, <4>1, <4>2, <4>3
    <3> QED
      BY <3>1 DEF NoGuidance
  <2> QED
    BY <1>8, <2>1, <2>2 DEF Known
<1>9. ASSUME UNCHANGED <<next, guidance, first, history, pending>> PROVE Known'
  BY <1>9 DEF Known
<1>a. ASSUME UNCHANGED <<next, guidance, first, history>>, pending'.inputs = <<>> PROVE Known'
  BY <1>2, <1>a DEF Known
<1>10. CASE UNCHANGED vars
  BY <1>9, <1>10 DEF vars, loopVars, convVars
<1>12. ASSUME NEW n \in Sizes, EnqueueSteering(n) PROVE Known'
  <2>1. InputEntry(next + 1, n, "none").input = next + 1
    BY DEF InputEntry
  <2>2. /\ next' = next + 1 /\ UNCHANGED <<first, history, pending>>
        /\ guidance' = guidance \/ guidance' = guidance \cup {next + 1}
    BY <1>12, <2>1 DEF EnqueueSteering, Offered, loopVars
  <2> QED
    BY <1>8, <2>2
<1>13. ASSUME NEW n \in Sizes, Report(n) PROVE Known'
  BY <1>8, <1>13 DEF Report, Offered, loopVars
<1>14. ASSUME NEW k \in Keys, Launch(k) PROVE Known'
  BY <1>9, <1>14 DEF Launch, loopVars, convVars
<1>15. ASSUME NEW k \in Keys, DismissTask(k) PROVE Known'
  BY <1>9, <1>15 DEF DismissTask, loopVars
<1>16. ASSUME NEW k \in Keys, NEW n \in Sizes, CompleteTask(k, n) PROVE Known'
  BY <1>8, <1>16 DEF CompleteTask, Offered, loopVars
<1>17. CASE RequestCancel
  BY <1>9, <1>17 DEF RequestCancel, loopVars, convVars
<1>18. CASE Prompt
  <2>1. first' = <<next + 1>> /\ next' = next + 1 /\ UNCHANGED <<pending, history, guidance>>
    BY <1>18 DEF Prompt, Offered, convVars
  <2>2. AllBelow(history, next + 1) /\ AllBelow(pending.inputs, next + 1)
    BY <1>1, BelowJoined DEF Known
  <2>3. AllBelow(<<next + 1>>, next + 1)
    BY <1>1 DEF AllBelow
  <2>4. next + 1 \notin guidance
    BY <1>1
  <2>5. NoGuidance(<<next + 1>>, guidance)
    BY <2>4 DEF NoGuidance
  <2> QED
    BY <2>1, <2>2, <2>3, <2>5 DEF Known
<1>19. CASE Wake
  BY <1>9, <1>19 DEF Wake, convVars
<1>20. CASE StartWoken
  BY <1>2, <1>20 DEF StartWoken, convVars, Known
<1>21. CASE ResetSession
  <2>1. /\ UNCHANGED <<first, pending, next>> /\ history' = <<>> /\ guidance' = {}
    BY <1>21 DEF ResetSession
  <2>2. NoGuidance(first, {})
    BY DEF NoGuidance
  <2> QED
    BY <1>2, <2>1, <2>2 DEF Known
<1>22. CASE InstallHooks
  BY <1>9, <1>22 DEF InstallHooks, convVars
<1>23. CASE Recover
  <2>1. /\ UNCHANGED <<next, guidance>> /\ first' = <<>> /\ pending'.inputs = <<>>
        /\ history' = history \/ history' = history \o pending.inputs
    BY <1>23 DEF Recover, TurnOver, NoPending
  <2> QED
    BY <1>2, <1>3, <2>1 DEF Known
<1>24. CASE BeginTurn
  <2>1. pending'.inputs = first \o Read /\ UNCHANGED <<next, guidance, first, history>>
    BY <1>24 DEF BeginTurn
  <2> QED
    BY <1>6, <1>7, <2>1 DEF Known
<1>25. CASE Submit
  BY <1>9, <1>25 DEF Submit, convVars
<1>26. ASSUME Salvage \/ NoSalvage, UNCHANGED <<next, first>> PROVE Known'
  <2>1. \/ history' = history \o pending.inputs /\ pending'.inputs = <<>>
        \/ UNCHANGED <<history, pending>>
    BY <1>26 DEF Salvage, NoSalvage, NoPending, convVars
  <2>2. guidance' = guidance
    BY <1>26 DEF Salvage, NoSalvage, convVars
  <2> QED
    BY <1>2, <1>3, <1>7, <1>9, <1>26, <2>1, <2>2
<1>27. CASE Steered
  BY <1>26, <1>27 DEF Steered
<1>28. CASE Aborted
  BY <1>26, <1>28 DEF Aborted
<1>29. CASE ContinueSteered
  <2>1. /\ UNCHANGED <<next, guidance, first, history>>
        /\ pending' = pending \/ pending'.inputs = pending.inputs \o Drop(Read, pending.ack)
    <3>1. PICK t : t = pending.inputs \o Drop(Read, pending.ack)
      OBVIOUS
    <3>2. UNCHANGED <<next, guidance, first, history>>
      BY <1>29 DEF ContinueSteered, convVars
    <3>3. pending' = pending \/ pending' = [inputs |-> t, ack |-> Len(Read)]
      BY <1>29, <3>1 DEF ContinueSteered
    <3>4. pending' = [inputs |-> t, ack |-> Len(Read)] => pending'.inputs = t
      OBVIOUS
    <3>5. pending' = pending \/ pending'.inputs = t
      BY <3>3, <3>4
    <3> QED
      BY <3>1, <3>2, <3>5, Zenon
  <2> QED
    BY <1>6, <1>7, <1>9, <2>1 DEF Known
<1>30. CASE Absorb
  <2>1. pending \in [inputs : Seq(Nat), ack : Nat]
    BY DEF LoopInvariant, LoopTypes
  <2>2. pending' = [pending EXCEPT !.inputs = <<>>] /\ UNCHANGED <<next, guidance, first, history>>
    BY <1>30 DEF Absorb, convVars
  <2>3. pending'.inputs = <<>>
    BY <2>1, <2>2
  <2> QED
    BY <1>a, <2>2, <2>3
<1>31. CASE Acknowledge
  BY <1>9, <1>31 DEF Acknowledge, convVars
<1>32. CASE ClearAcknowledgement
  <2>1. pending \in [inputs : Seq(Nat), ack : Nat]
    BY DEF LoopInvariant, LoopTypes
  <2>2. pending' = [pending EXCEPT !.ack = 0] /\ UNCHANGED <<next, guidance, first, history>>
    BY <1>32 DEF ClearAcknowledgement, convVars
  <2>3. pending'.inputs = pending.inputs
    BY <2>1, <2>2
  <2> QED
    BY <1>7, <2>2, <2>3 DEF Known
<1>34. CASE Close
  <2>1. /\ UNCHANGED <<next, guidance, first, history>>
        /\ \/ pending' = pending \/ pending'.inputs = Inputs(host.entries)
           \/ pending'.inputs = Inputs(reports.entries)
    <3>1. UNCHANGED <<next, guidance, first, history>>
      BY <1>34 DEF Close, convVars
    <3>2. \/ pending' = pending
          \/ pending' = [inputs |-> Inputs(host.entries), ack |-> Len(Inputs(host.entries))]
          \/ pending' = [inputs |-> Inputs(reports.entries), ack |-> Len(Inputs(reports.entries))]
      BY <1>34 DEF Close, Continue
    <3> QED
      BY <3>1, <3>2
  <2> QED
    BY <1>4, <1>7, <1>9, <2>1 DEF Known
<1>35. CASE Kill
  BY <1>9, <1>35 DEF Kill, convVars
<1>36. ASSUME NEW b \in BOOLEAN, Returned(b) PROVE Known'
  BY <1>3, <1>7, <1>36 DEF Returned, Known
<1>37. ASSUME NEW b \in BOOLEAN, Advance(b) PROVE Known'
  <2>1. /\ UNCHANGED <<next, guidance, first, history>>
        /\ pending' = pending \/ pending'.inputs = Read
    BY <1>37 DEF Advance, Continue, convVars
  <2> QED
    BY <1>4, <1>7, <1>9, <2>1 DEF Known
<1> QED
  BY <1>10, <1>12, <1>13, <1>14, <1>15, <1>16, <1>17, <1>18, <1>19, <1>20, <1>21, <1>22, <1>23,
     <1>24, <1>25, <1>27, <1>28, <1>29, <1>30, <1>31, <1>32, <1>34, <1>35, <1>36, <1>37
  DEF Next, Producers, Host, Loop

LEMMA OrderedStep ==
    ASSUME LoopInvariant, Reading, Known, Ordered, [Next]_vars
    PROVE  Ordered'
<1>1. /\ next \in Nat /\ first \in Seq(Nat) /\ history \in Seq(Nat) /\ base \in Nat
      /\ pending \in [inputs : Seq(Nat), ack : Nat] /\ hostShare \in Nat
      /\ \A x \in guidance : x \in Nat /\ x <= next
  BY DEF LoopInvariant, LoopTypes
<1>2. pending.inputs \in Seq(Nat) /\ pending.ack \in Nat
  BY <1>1
<1>h. HostOK(host, owner, guidance, next) /\ host.reserved \in Nat /\ host.entries \in Seq(Entry)
  BY DEF LoopInvariant, HostOK, SteeringQueue
<1>p. HostOK(host', owner', guidance', next') /\ host' \in SteeringQueue
  BY HostStep DEF HostOK
<1>3. pc \in Working => Taken \in Nat /\ Taken <= host.reserved
  <2>1. Share \in Nat
    BY <1>1, <1>2 DEF Share
  <2>2. pc \in Working \ {"acknowledged"} => pc \notin Unrecorded
    BY DEF Working, Unrecorded
  <2> QED
    BY <1>h, <2>1, <2>2 DEF Taken, Reading
<1>4. Unsent \in Seq(Nat) /\ AllBelow(Unsent, next)
  BY <1>2 DEF Unsent, Known, AllBelow
<1>5. ASSUME UNCHANGED <<pc, pending, hostShare, history, base>>,
             guidance' = guidance \/ guidance' = guidance \cup {next + 1},
             Grows(host, host', next)
      PROVE  Ordered'
  <2> SUFFICES ASSUME pc' \in Working
               PROVE  InTurn(history', base', Unsent', guidance', host'.entries, Taken')
    BY DEF Ordered
  <2>1. pc \in Working /\ Unsent' = Unsent /\ Taken' = Taken
    BY <1>5 DEF Unsent, Taken, Share
  <2>2. InTurn(history, base, Unsent, guidance, host.entries, Taken)
    BY <2>1 DEF Ordered
  <2>3. Taken \in Nat /\ Taken <= host.reserved /\ AllBelow(history, next)
    BY <1>3, <2>1 DEF Known
  <2>4. InTurn(history, base, Unsent, guidance', host'.entries, Taken)
    BY <1>1, <1>h, <1>p, <1>4, <1>5, <2>2, <2>3, TurnGrows
  <2> QED
    BY <1>5, <2>1, <2>4
<1>6. ASSUME pc' \notin Working PROVE Ordered'
  BY <1>6 DEF Ordered
<1>7. ASSUME UNCHANGED <<pc, pending, hostShare, history, base, guidance, host>> PROVE Ordered'
  BY <1>7 DEF Ordered, Unsent, Taken, Share
<1>8. ASSUME UNCHANGED <<history, base, guidance>>, pc' \in Working, pc \in Working,
             host'.entries = host.entries, Unsent' = Unsent, Taken' = Taken
      PROVE  Ordered'
  BY <1>8 DEF Ordered
<1>9. ASSUME NEW s \in Seq(Nat), NEW t \in Seq(Nat), NEW b \in Nat, NEW f, NEW a,
             pending' = [inputs |-> s \o t, ack |-> a],
             a \in Nat, a >= hostShare', hostShare' = Len(host.entries),
             pc' = "ready", UNCHANGED <<history, guidance>>, base' = b,
             host'.entries = host.entries,
             InTurn(history, b, s, guidance, host.entries, f), Adds(t, guidance, host.entries, f)
      PROVE  Ordered'
  <2>1. InTurn(history, b, s \o t, guidance, host.entries, Len(host.entries))
    BY <1>1, <1>9, TurnAdds
  <2>2. Unsent' = s \o t
    BY <1>9 DEF Unsent
  <2>3. Taken' = Len(host.entries)
    <3>1. PICK e \in Nat : e = Len(host.entries)
      BY <1>h
    <3>2. pending'.ack = a
      BY <1>9
    <3>3. Share' = e
      BY <1>9, <3>1, <3>2 DEF Share
    <3> QED
      BY <1>9, <3>1, <3>3 DEF Taken
  <2> QED
    BY <1>9, <2>1, <2>2, <2>3 DEF Ordered
<1>r. PICK z \in Seq(Nat) : z = Read /\ Len(z) >= Len(host.entries) /\ Len(z) \in Nat
  <2>1. PICK h \in Seq(Nat) : h = Inputs(host.entries) /\ Len(h) = Len(host.entries)
    BY <1>h, InputsFacts
  <2>2. reports.entries \in Seq(Entry)
    BY DEF LoopInvariant, ReportsOK, SteeringQueue
  <2>3. PICK g \in Seq(Nat) : g = Inputs(reports.entries)
    BY <2>2, InputsFacts
  <2>4. PICK z \in Seq(Nat) : z = Read
    BY ReadFacts
  <2>5. z = h \/ z = h \o g
    BY <2>1, <2>3, <2>4, ReadFacts
  <2>6. Len(h \o g) = Len(h) + Len(g)
    BY Joined
  <2>7. PICK m \in Nat : m = Len(h)
    OBVIOUS
  <2>8. PICK k \in Nat : k = Len(g)
    OBVIOUS
  <2>9. Len(z) >= m
    BY <2>5, <2>6, <2>7, <2>8
  <2> QED
    BY <2>1, <2>4, <2>7, <2>9
<1>e. host'.entries = host.entries \/ ~ReadSteering
  BY <1>h, <1>1, HostReserved DEF ReadSteering
<1>10. CASE UNCHANGED vars
  BY <1>7, <1>10 DEF vars, queueVars, loopVars, convVars
<1>12. ASSUME NEW n \in Sizes, EnqueueSteering(n) PROVE Ordered'
  <2>1. n \in Nat /\ next + 1 \in Nat
    BY <1>1, LoopAssumption
  <2>2. PICK e : e = InputEntry(next + 1, n, "none")
    OBVIOUS
  <2>3. e \in Entry /\ e.input = next + 1
    BY <2>1, <2>2 DEF InputEntry, Entry
  <2>4. /\ host' = Steer(host, e) /\ UNCHANGED <<pc, pending, hostShare, history, base>>
        /\ guidance' = guidance \/ guidance' = guidance \cup {e.input}
    BY <1>12, <2>2 DEF EnqueueSteering, loopVars
  <2>5. Grows(host, Steer(host, e), next)
    BY <1>1, <1>h, <2>3, SteerGrows
  <2> QED
    BY <1>5, <2>3, <2>4, <2>5
<1>13. ASSUME NEW n \in Sizes, Report(n) PROVE Ordered'
  BY <1>7, <1>13 DEF Report, loopVars
<1>14. ASSUME NEW k \in Keys, Launch(k) PROVE Ordered'
  BY <1>7, <1>14 DEF Launch, loopVars, queueVars, convVars
<1>15. ASSUME NEW k \in Keys, DismissTask(k) PROVE Ordered'
  <2>1. host' = Dismissed(host, k) /\ UNCHANGED <<pc, pending, hostShare, history, base, guidance>>
    BY <1>15 DEF DismissTask, loopVars
  <2>2. Grows(host, Dismissed(host, k), next)
    BY <1>1, <1>h, ReducedGrows
  <2> QED
    BY <1>5, <2>1, <2>2
<1>16. ASSUME NEW k \in Keys, NEW n \in Sizes, CompleteTask(k, n) PROVE Ordered'
  <2>1. n \in Nat /\ k # NoKey /\ next + 1 \in Nat
    BY <1>1, LoopAssumption, KeyAssumption
  <2>2. PICK e : e = [InputEntry(next + 1, n, "none") EXCEPT !.key = k]
    OBVIOUS
  <2>3. e = [input |-> next + 1, bytes |-> n, kind |-> "none", key |-> k, wake |-> TRUE]
    BY <2>2 DEF InputEntry
  <2>4. e \in Entry /\ e.input = next + 1 /\ e.key = k
    BY <2>1, <2>3 DEF Entry
  <2>5. host' = Completed(host, owner[k], e) /\ UNCHANGED <<pc, pending, hostShare, history, base, guidance>>
    BY <1>16, <2>2 DEF CompleteTask, loopVars
  <2>6. Grows(host, Completed(host, owner[k], e), next)
    BY <1>1, <1>h, <2>1, <2>4, CompletedGrows
  <2> QED
    BY <1>5, <2>5, <2>6
<1>17. CASE RequestCancel
  BY <1>7, <1>17 DEF RequestCancel, queueVars, loopVars, convVars
<1>18. CASE Prompt
  BY <1>6, <1>18 DEF Prompt, Goto, Working
<1>19. CASE Wake
  BY <1>6, <1>19 DEF Wake, Goto, Working
<1>20. CASE StartWoken
  BY <1>6, <1>20 DEF StartWoken, Goto, Working
<1>21. CASE ResetSession
  BY <1>6, <1>21 DEF ResetSession, Goto, Working
<1>22. CASE InstallHooks
  BY <1>6, <1>22 DEF InstallHooks, Goto, Working
<1>23. CASE Recover
  BY <1>6, <1>23 DEF Recover, TurnOver, Working
<1>24. CASE BeginTurn
  <2>1. /\ pending' = [inputs |-> first \o z, ack |-> Len(z)] /\ hostShare' = Len(host.entries)
        /\ pc' = "ready" /\ UNCHANGED <<history, guidance>> /\ base' = Len(history) /\ ReadSteering
    BY <1>24, <1>r DEF BeginTurn, ReadSteering, Goto
  <2>2. InTurn(history, Len(history), first, guidance, host.entries, 0)
    BY <1>1, TurnBegins DEF Known
  <2>3. Adds(z, guidance, host.entries, 0)
    <3>1. Adds(Drop(Read, 0), guidance, host.entries, 0)
      BY ReadAdds
    <3>2. Drop(z, 0) = z
      BY DEF Drop
    <3> QED
      BY <1>r, <3>1, <3>2
  <2>4. Len(history) \in Nat
    BY <1>1
  <2> QED
    BY <1>1, <1>9, <1>e, <1>r, <2>1, <2>2, <2>3, <2>4
<1>25. CASE Submit
  <2>1. CASE pc' = "ending"
    BY <1>6, <2>1 DEF Working
  <2>2. CASE pc' # "ending"
    <3>1. /\ UNCHANGED <<history, base, guidance, host, pending, hostShare>>
          /\ pc = "ready" /\ pc' = "submit"
      BY <1>25, <2>2 DEF Submit, Ends, Goto, queueVars, convVars
    <3> QED
      BY <1>8, <3>1 DEF Working, Unsent, Taken, Share
  <2> QED
    BY <2>1, <2>2
<1>27. CASE Steered
  <2>1. /\ pc = "submit" /\ pc' = "steered" /\ (Salvage \/ NoSalvage)
    BY <1>27 DEF Steered, Goto
  <2>2. CASE NoSalvage
    <3>1. UNCHANGED <<history, base, guidance, host, pending, hostShare>>
      BY <2>2 DEF NoSalvage, queueVars, convVars
    <3> QED
      BY <1>8, <2>1, <3>1 DEF Working, Unsent, Taken, Share
  <2>3. CASE Salvage
    <3>1. /\ history' = history \o pending.inputs /\ CommitSteering(pending.ack)
          /\ pending'.inputs = <<>> /\ pending'.ack = 0 /\ UNCHANGED <<hostShare, base, guidance>>
      BY <2>3 DEF Salvage, NoPending
    <3>2. PICK f \in Nat : f = Share
      BY <1>1, <1>2 DEF Share
    <3>3. host' = Acknowledged(host, f)
      BY <3>1, <3>2 DEF CommitSteering, Share
    <3>4. InTurn(history, base, pending.inputs, guidance, host.entries, f) /\ f <= host.reserved
      <4>1. pc \in Working /\ Unsent = pending.inputs /\ Taken = f
        BY <2>1, <3>2 DEF Working, Unsent, Taken
      <4> QED
        BY <1>3, <4>1 DEF Ordered
    <3>5. InTurn(history, base, pending.inputs, guidance, host'.entries, 0)
      BY <1>1, <1>2, <1>h, <3>3, <3>4, TurnAcknowledged
    <3>6. InTurn(history \o pending.inputs, base, <<>>, guidance, host'.entries, 0)
      <4>1. <<>> \in Seq(Nat)
        OBVIOUS
      <4> QED
        BY <1>1, <1>2, <3>5, <4>1, TurnAdds
    <3>7. Unsent' = <<>> /\ Taken' = 0
      BY <1>1, <2>1, <3>1 DEF Unsent, Taken, Share
    <3> QED
      BY <3>1, <3>6, <3>7 DEF Ordered
  <2> QED
    BY <2>1, <2>2, <2>3
<1>28. CASE Aborted
  BY <1>6, <1>28 DEF Aborted, Ends, Goto, Working
<1>29. CASE ContinueSteered
  <2>1. CASE cancel
    BY <1>6, <1>29, <2>1 DEF ContinueSteered, Ends, Goto, Working
  <2>2. CASE ~cancel
    <3>1. PICK t \in Seq(Nat) : t = Drop(z, pending.ack)
      BY <1>2, <1>r, ReadAdds
    <3>2. /\ pending' = [inputs |-> pending.inputs \o t, ack |-> Len(z)]
          /\ hostShare' = Len(host.entries) /\ pc = "steered" /\ pc' = "ready"
          /\ UNCHANGED <<history, guidance, base>> /\ ReadSteering
      BY <1>29, <1>r, <2>2, <3>1 DEF ContinueSteered, ReadSteering, Goto, convVars
    <3>3. PICK f \in Nat : f = Share /\ f <= pending.ack
      BY <1>1, <1>2, SMTT(20) DEF Share
    <3>4. InTurn(history, base, pending.inputs, guidance, host.entries, f)
      BY <3>2, <3>3 DEF Ordered, Working, Unsent, Taken
    <3>5. Adds(t, guidance, host.entries, pending.ack)
      BY <1>2, <1>r, <3>1, ReadAdds
    <3>6. Adds(t, guidance, host.entries, f)
      <4>1. PICK a \in Nat : a = pending.ack
        BY <1>2
      <4>2. \A j \in 1..Len(host.entries) : j > a => j > f
        BY <3>3, <4>1
      <4> QED
        BY <3>5, <4>1, <4>2 DEF Adds
    <3> QED
      BY <1>1, <1>2, <1>9, <1>e, <1>r, <3>2, <3>4, <3>6
  <2> QED
    BY <2>1, <2>2
<1>30. CASE Absorb
  <2>1. CASE pc' = "ending"
    BY <1>6, <2>1 DEF Working
  <2>2. CASE pc' # "ending"
    <3>1. /\ pending' = [pending EXCEPT !.inputs = <<>>]
          /\ UNCHANGED <<history, base, guidance, host, hostShare>>
          /\ pc = "returned" /\ pc' = "complete"
      BY <1>30, <2>2 DEF Absorb, Ends, Goto, queueVars, convVars
    <3>2. pending'.ack = pending.ack /\ pending'.inputs = <<>>
      BY <1>1, <3>1
    <3>3. Unsent' = Unsent /\ Taken' = Taken
      BY <3>1, <3>2 DEF Unsent, Taken, Share
    <3> QED
      BY <1>8, <3>1, <3>3 DEF Working
  <2> QED
    BY <2>1, <2>2
<1>31. CASE Acknowledge
  <2>1. /\ UNCHANGED <<history, base, guidance, pending, hostShare>> /\ CommitSteering(pending.ack)
        /\ pc = "complete" /\ pc' = "acknowledged"
    BY <1>31 DEF Acknowledge, Goto, convVars
  <2>2. PICK f \in Nat : f = Share
    BY <1>1, <1>2 DEF Share
  <2>3. host' = Acknowledged(host, f)
    BY <2>1, <2>2 DEF CommitSteering, Share
  <2>4. InTurn(history, base, pending.inputs, guidance, host.entries, f) /\ f <= host.reserved
    <3>1. pc \in Working /\ Unsent = pending.inputs /\ Taken = f
      BY <2>1, <2>2 DEF Working, Unsent, Taken
    <3> QED
      BY <1>3, <3>1 DEF Ordered
  <2>5. InTurn(history, base, pending.inputs, guidance, host'.entries, 0)
    BY <1>1, <1>2, <1>h, <2>3, <2>4, TurnAcknowledged
  <2>6. Unsent' = pending.inputs /\ Taken' = 0
    BY <2>1 DEF Unsent, Taken
  <2> QED
    BY <2>1, <2>5, <2>6 DEF Ordered
<1>32. CASE ClearAcknowledgement
  <2>1. /\ pending' = [pending EXCEPT !.ack = 0]
        /\ UNCHANGED <<history, base, guidance, host, hostShare>>
        /\ pc = "acknowledged" /\ pc' = "tools"
    BY <1>32 DEF ClearAcknowledgement, Goto, queueVars, convVars
  <2>2. pending'.ack = 0 /\ pending'.inputs = pending.inputs
    BY <1>1, <2>1
  <2>3. Unsent' = Unsent /\ Taken' = Taken
    BY <1>1, <2>1, <2>2 DEF Unsent, Taken, Share
  <2> QED
    BY <1>8, <2>1, <2>3 DEF Working
<1>34. CASE Close
  <2>1. /\ pc = "closing" /\ pending.ack = 0 /\ pending.inputs = <<>>
        /\ UNCHANGED <<history, base, guidance>>
    BY <1>34 DEF Close, Reading, convVars
  <2>2. InTurn(history, base, <<>>, guidance, host.entries, 0)
    <3>1. Unsent = <<>> /\ Taken = 0
      BY <1>1, <2>1 DEF Unsent, Taken, Share
    <3> QED
      BY <2>1, <3>1 DEF Ordered, Working
  <2>3. PICK late : late = (IF conf.reports THEN Inputs(reports.entries) ELSE <<>>)
    OBVIOUS
  <2>n. <<>> \in Seq(Nat)
    OBVIOUS
  <2>4. CASE late # <<>>
    <3>1. reports.entries \in Seq(Entry)
      BY DEF LoopInvariant, ReportsOK, SteeringQueue
    <3>2. PICK s \in Seq(Nat) : s = Inputs(reports.entries) /\ s = late
      BY <2>3, <2>4, <3>1, InputsFacts
    <3>3. NoGuidance(s, guidance)
      BY <3>2, ReadAdds DEF NoGuidance
    <3>4. <<>> \o s = s
      OBVIOUS
    <3>5. InTurn(history, base, s, guidance, host.entries, 0)
      BY <1>1, <2>2, <2>n, <3>3, <3>4, TurnAdds
    <3>6. Continue(late) /\ hostShare' = 0 /\ host' = host
      BY <1>34, <2>3, <2>4 DEF Close
    <3>7. pending' = [inputs |-> s, ack |-> Len(s)] /\ pc' = "ready"
      BY <3>2, <3>6 DEF Continue, Goto
    <3>8. pending'.inputs = s /\ pending'.ack = Len(s)
      BY <3>7
    <3>9. Unsent' = s /\ Taken' = 0
      <4>1. PICK l \in Nat : l = Len(s)
        OBVIOUS
      <4> QED
        BY <3>6, <3>7, <3>8, <4>1 DEF Unsent, Taken, Share
    <3> QED
      BY <2>1, <3>5, <3>6, <3>9 DEF Ordered
  <2>5. CASE late = <<>> /\ pc' = "ending"
    BY <1>6, <2>5 DEF Working
  <2>6. CASE late = <<>> /\ pc' # "ending"
    <3>1. /\ pending' = [inputs |-> Inputs(host.entries), ack |-> Len(Inputs(host.entries))]
          /\ pc' = "ready" /\ host' = Closed(host) /\ hostShare' = Len(host.entries)
      BY <1>34, <2>3, <2>6 DEF Close, Continue, Ends, Goto
    <3>2. PICK s \in Seq(Nat) : s = Inputs(host.entries) /\ Len(s) = Len(host.entries)
      BY <1>h, InputsFacts
    <3>3. host'.entries = host.entries
      BY <1>1, <1>h, <3>1, HostReserved
    <3>4. Adds(s, guidance, host.entries, 0)
      <4>1. 0 \in Nat
        OBVIOUS
      <4> QED
        BY <3>2, <4>1, ReadAdds
    <3>5. pending' = [inputs |-> <<>> \o s, ack |-> Len(s)]
      BY <3>1, <3>2
    <3>6. Len(s) \in Nat /\ Len(s) >= hostShare'
      BY <3>1, <3>2
    <3> QED
      BY <1>1, <1>9, <2>1, <2>2, <2>n, <3>1, <3>3, <3>4, <3>5, <3>6
  <2> QED
    BY <2>4, <2>5, <2>6
<1>35. CASE Kill
  BY <1>6, <1>35 DEF Kill, Ends, Goto, Working
<1>36. ASSUME NEW b \in BOOLEAN, Returned(b) PROVE Ordered'
  <2>1. /\ history' = history \o pending.inputs /\ UNCHANGED <<base, guidance, host, pending, hostShare>>
        /\ pc = "submit" /\ pc' = "returned"
    BY <1>36 DEF Returned, Goto, queueVars
  <2>2. InTurn(history, base, pending.inputs, guidance, host.entries, Taken)
    BY <2>1 DEF Ordered, Working, Unsent
  <2>3. InTurn(history \o pending.inputs, base, <<>>, guidance, host.entries, Taken)
    <3>1. <<>> \in Seq(Nat)
      OBVIOUS
    <3> QED
      BY <1>1, <1>2, <2>2, <3>1, TurnAdds
  <2>4. Unsent' = <<>> /\ Taken' = Taken
    BY <2>1 DEF Unsent, Taken, Share
  <2> QED
    BY <2>1, <2>3, <2>4 DEF Ordered
<1>37. ASSUME NEW b \in BOOLEAN, Advance(b) PROVE Ordered'
  <2>1. /\ pc = "tools" /\ pending.ack = 0 /\ pending.inputs = <<>>
        /\ UNCHANGED <<history, base, guidance>>
    BY <1>37 DEF Advance, Reading, convVars
  <2>2. Unsent = <<>> /\ Taken = 0
    BY <1>1, <2>1 DEF Unsent, Taken, Share
  <2>3. InTurn(history, base, <<>>, guidance, host.entries, 0)
    BY <2>1, <2>2 DEF Ordered, Working
  <2>4. CASE pc' = "ending"
    BY <1>6, <2>4 DEF Working
  <2>5. CASE pc' = "closing"
    <3>1. ReadSteering /\ pending' = pending
      BY <1>37, <2>5 DEF Advance, Continue, Ends, Goto
    <3>2. hostShare' = Len(host.entries)
      BY <3>1 DEF ReadSteering
    <3>3. PICK e \in Nat : e = Len(host.entries)
      BY <1>h
    <3>4. Unsent' = <<>> /\ Taken' = 0
      BY <2>1, <2>5, <3>1, <3>2, <3>3 DEF Unsent, Taken, Share
    <3>5. host'.entries = host.entries
      BY <1>e, <3>1
    <3> QED
      BY <1>8, <2>1, <2>2, <2>5, <3>4, <3>5 DEF Working
  <2>6. CASE pc' = "ready"
    <3>1. ReadSteering /\ Continue(z)
      BY <1>37, <1>r, <2>6 DEF Advance, Ends, Goto
    <3>2. pending' = [inputs |-> <<>> \o z, ack |-> Len(z)] /\ hostShare' = Len(host.entries)
      BY <3>1 DEF Continue, ReadSteering
    <3>3. Adds(z, guidance, host.entries, 0)
      <4>1. Adds(Drop(Read, 0), guidance, host.entries, 0)
        BY ReadAdds
      <4>2. Drop(z, 0) = z
        BY DEF Drop
      <4> QED
        BY <1>r, <4>1, <4>2
    <3>4. <<>> \in Seq(Nat)
      OBVIOUS
    <3> QED
      BY <1>1, <1>9, <1>e, <1>r, <2>1, <2>3, <2>6, <3>1, <3>2, <3>3, <3>4
  <2> QED
    BY <1>37, <2>4, <2>5, <2>6 DEF Advance, Continue, Ends, Goto
<1> QED
  BY <1>10, <1>12, <1>13, <1>14, <1>15, <1>16, <1>17, <1>18, <1>19, <1>20, <1>21, <1>22, <1>23,
     <1>24, <1>25, <1>27, <1>28, <1>29, <1>30, <1>31, <1>32, <1>34, <1>35, <1>36, <1>37
  DEF Next, Producers, Host, Loop

\* Requests preempted, salvaged, retried or continued: a turn submits guidance in
\* the order in which the queue accepted it, and none twice.
THEOREM SubmissionsInOrder == Spec => []SubmittedInOrder
<1>1. Init => Known /\ Ordered
  <2> SUFFICES ASSUME Init PROVE Known /\ Ordered
    OBVIOUS
  <2>1. first = <<>> /\ history = <<>> /\ pending.inputs = <<>> /\ pc = "idle"
    BY DEF Init, NoPending
  <2>2. Known
    BY <2>1 DEF Known, AllBelow, NoGuidance
  <2>3. Ordered
    BY <2>1 DEF Ordered, Working
  <2> QED
    BY <2>2, <2>3
<1>2. LoopInvariant /\ Reading /\ Known /\ Ordered /\ [Next]_vars => Known' /\ Ordered'
  BY KnownStep, OrderedStep
<1>3. Ordered => SubmittedInOrder
  <2> SUFFICES ASSUME Ordered, pc = "submit"
               PROVE  InOrder(Drop(history, base) \o pending.inputs, guidance)
    BY Zenon DEF SubmittedInOrder, InOrder, Drop
  <2> QED
    BY DEF Ordered, Working, InTurn, Unsent
<1> QED
  BY <1>1, <1>2, <1>3, ReadingHolds, PTL DEF Spec

-----------------------------------------------------------------------------
(* No input is lost                                                        *)

LEMMA QueuedAt ==
    ASSUME NEW q \in SteeringQueue, NEW x
    PROVE  x \in Queued(q) <=> \E i \in 1..Total(q.entries, q.deferred) :
                                 At(q.entries, q.deferred, i).input = x
<1>1. PICK E \in Seq(Entry) : E = q.entries
  BY DEF SteeringQueue
<1>2. PICK D \in Seq(Entry) : D = q.deferred
  BY DEF SteeringQueue
<1>3. PICK m \in Nat : m = Len(E)
  OBVIOUS
<1>4. PICK r \in Nat : r = Len(D)
  OBVIOUS
<1>5. Total(E, D) = m + r
  BY <1>3, <1>4 DEF Total
<1>6. ASSUME NEW i \in 1..m, E[i].input = x PROVE \E j \in 1..(m + r) : At(E, D, j).input = x
  <2>1. i \in 1..(m + r) /\ At(E, D, i) = E[i]
    BY <1>3 DEF At
  <2> QED
    BY <1>6, <2>1
<1>7. ASSUME NEW i \in 1..r, D[i].input = x PROVE \E j \in 1..(m + r) : At(E, D, j).input = x
  <2>1. PICK j \in 1..(m + r) : j = i + m /\ ~(j <= m) /\ j - m = i
    OBVIOUS
  <2>2. At(E, D, j) = D[i]
    BY <1>3, <2>1 DEF At
  <2> QED
    BY <1>7, <2>2
<1>8. ASSUME NEW j \in 1..(m + r), At(E, D, j).input = x
      PROVE  (\E i \in 1..m : E[i].input = x) \/ (\E i \in 1..r : D[i].input = x)
  <2>1. CASE j <= m
    <3>1. j \in 1..m /\ At(E, D, j) = E[j]
      BY <1>3, <2>1 DEF At
    <3> QED
      BY <1>8, <3>1
  <2>2. CASE j > m
    <3>1. PICK i \in 1..r : i = j - m
      BY <2>2
    <3>2. At(E, D, j) = D[i]
      BY <1>3, <2>2, <3>1 DEF At
    <3> QED
      BY <1>8, <3>2
  <2> QED
    BY <2>1, <2>2
<1>9. x \in Queued(q) <=> (\E i \in 1..m : E[i].input = x) \/ (\E i \in 1..r : D[i].input = x)
  BY <1>1, <1>2, <1>3, <1>4 DEF Queued, Ids
<1> QED
  BY <1>1, <1>2, <1>5, <1>6, <1>7, <1>8, <1>9

\* The input x of q is in r too, or was in the first d entries of q, or has a key
\* in L.
KeepsOrTakes(x, r, q, d, L) ==
    \/ x \in Queued(r)
    \/ \E i \in 1..d : i <= Total(q.entries, q.deferred) /\ At(q.entries, q.deferred, i).input = x
    \/ \E i \in 1..Total(q.entries, q.deferred) :
         /\ At(q.entries, q.deferred, i).input = x
         /\ At(q.entries, q.deferred, i).key \in L

LEMMA DerivedKeeps ==
    ASSUME NEW q \in SteeringQueue, NEW r \in SteeringQueue, NEW d \in Nat, NEW p, NEW L, NEW x,
           Derived(r.entries, r.deferred, q.entries, q.deferred, d, p, L), x \in Queued(q)
    PROVE  KeepsOrTakes(x, r, q, d, L)
<1>1. PICK E \in Seq(Entry) : E = q.entries
  BY DEF SteeringQueue
<1>2. PICK D \in Seq(Entry) : D = q.deferred
  BY DEF SteeringQueue
<1>3. PICK E1 \in Seq(Entry) : E1 = r.entries
  BY DEF SteeringQueue
<1>4. PICK D1 \in Seq(Entry) : D1 = r.deferred
  BY DEF SteeringQueue
<1>5. PICK f : Follows(f, E1, D1, E, D, d, p, L)
  BY <1>1, <1>2, <1>3, <1>4 DEF Derived
<1>6. PICK t \in Nat : t = Total(E, D)
  BY TotalType
<1>7. PICK j \in 1..t : At(E, D, j).input = x
  BY <1>1, <1>2, <1>6, QueuedAt
<1>8. CASE j <= d
  <2>1. j \in 1..d /\ j <= t
    BY <1>8
  <2> QED
    BY <1>1, <1>2, <1>6, <1>7, <2>1 DEF KeepsOrTakes
<1>9. CASE At(E, D, j).key \in L
  BY <1>1, <1>2, <1>6, <1>7, <1>9 DEF KeepsOrTakes
<1>10. CASE j > d /\ At(E, D, j).key \notin L
  <2>1. PICK i \in 1..Total(E1, D1) : f[i] = j
    BY <1>5, <1>6, <1>10 DEF Follows
  <2>2. At(E1, D1, i).input = x
    BY <1>5, <1>7, <2>1 DEF Follows
  <2> QED
    BY <1>3, <1>4, <2>1, <2>2, QueuedAt DEF KeepsOrTakes
<1> QED
  BY <1>8, <1>9, <1>10

\* commitSteeringInputsSTM
LEMMA AcknowledgedKeeps ==
    ASSUME NEW q \in SteeringQueue, NEW n \in Nat, NEW x,
           q.reserved <= Len(q.entries), n <= Len(q.entries), x \in Queued(q)
    PROVE  x \in Queued(Acknowledged(q, n)) \/ \E i \in 1..n : q.entries[i].input = x
<1>1. PICK r \in SteeringQueue : r = Acknowledged(q, n)
  BY AcknowledgedDerives
<1>2. PICK E \in Seq(Entry) : E = q.entries
  BY DEF SteeringQueue
<1>3. PICK e \in Nat : e = Len(E)
  OBVIOUS
<1>4. \E d \in 0..Len(q.entries) :
        /\ d <= n /\ (n <= Len(q.entries) => d = n)
        /\ \A p \in 0..(Len(q.entries) - d) :
             Derived(Acknowledged(q, n).entries, Acknowledged(q, n).deferred,
                     q.entries, q.deferred, d, p, {})
  BY AcknowledgedDerives
<1>5. n <= e
  BY <1>2, <1>3
<1>6. PICK d \in 0..e : d = n /\ \A p \in 0..(e - d) :
                          Derived(r.entries, r.deferred, q.entries, q.deferred, d, p, {})
  BY <1>1, <1>2, <1>3, <1>4, <1>5
<1>7. 0 \in 0..(e - d)
  BY <1>5, <1>6
<1>8. Derived(r.entries, r.deferred, q.entries, q.deferred, n, 0, {})
  BY <1>6, <1>7
<1>9. x \in Queued(r) \/ \E i \in 1..n : At(q.entries, q.deferred, i).input = x
  <2>1. KeepsOrTakes(x, r, q, n, {})
    BY <1>8, DerivedKeeps
  <2> QED
    BY <2>1, Zenon DEF KeepsOrTakes
<1>10. \A i \in 1..n : At(q.entries, q.deferred, i) = E[i]
  BY <1>2, <1>3, <1>5 DEF At
<1> QED
  BY <1>1, <1>2, <1>9, <1>10

\* promoteDeferredCompletions
LEMMA PromotedKeeps ==
    ASSUME NEW q \in SteeringQueue
    PROVE  Queued(q) \subseteq Queued(Promoted(q))
<1>1. PICK r \in SteeringQueue : r = Promoted(q)
  BY PromotedDerives
<1>2. 0 \in 0..Len(q.entries)
  BY DEF SteeringQueue
<1>3. Derived(Promoted(q).entries, Promoted(q).deferred, q.entries, q.deferred, 0, 0, {})
  BY <1>2, PromotedDerives
<1>4. ASSUME NEW x \in Queued(q) PROVE x \in Queued(r)
  <2>1. Derived(r.entries, r.deferred, q.entries, q.deferred, 0, 0, {})
    BY <1>1, <1>3
  <2>2. 1..0 = {}
    OBVIOUS
  <2>3. KeepsOrTakes(x, r, q, 0, {})
    BY <2>1, DerivedKeeps
  <2> QED
    BY <2>2, <2>3, Zenon DEF KeepsOrTakes
<1> QED
  BY <1>1, <1>4

\* Appending to the deferred entries, as a completion or a report does.
LEMMA DeferredKeeps ==
    ASSUME NEW q \in SteeringQueue, NEW e \in Entry
    PROVE  Queued(q) \cup {e.input} \subseteq Queued(Promoted([q EXCEPT !.deferred = Append(@, e)]))
<1>1. PICK D \in Seq(Entry) : D = q.deferred
  BY DEF SteeringQueue
<1>2. PICK D1 \in Seq(Entry) : D1 = Append(D, e)
  <2>1. Append(D, e) \in Seq(Entry)
    OBVIOUS
  <2> QED
    BY <2>1
<1>3. PICK a : a = [q EXCEPT !.deferred = D1]
  OBVIOUS
<1>4. a \in SteeringQueue /\ a.entries = q.entries /\ a.deferred = D1
  BY <1>3 DEF SteeringQueue
<1>5. PICK m \in Nat : m = Len(D)
  OBVIOUS
<1>6. Len(D1) = m + 1 /\ D1[m + 1] = e /\ \A i \in 1..m : D1[i] = D[i]
  BY <1>2, <1>5
<1>7. Ids(D) \cup {e.input} \subseteq Ids(D1)
  <2>1. ASSUME NEW i \in 1..m PROVE D[i].input \in Ids(D1)
    <3>1. i \in 1..(m + 1)
      OBVIOUS
    <3> QED
      BY <1>6, <3>1 DEF Ids
  <2>2. e.input \in Ids(D1)
    <3>1. m + 1 \in 1..(m + 1)
      OBVIOUS
    <3> QED
      BY <1>6, <3>1 DEF Ids
  <2> QED
    BY <1>5, <2>1, <2>2 DEF Ids
<1>8. Queued(q) \cup {e.input} \subseteq Queued(a)
  BY <1>1, <1>4, <1>7 DEF Queued
<1>9. a = [q EXCEPT !.deferred = Append(@, e)]
  BY <1>1, <1>2, <1>3
<1>10. Queued(a) \subseteq Queued(Promoted(a))
  BY <1>4, PromotedKeeps
<1> QED
  BY <1>8, <1>9, <1>10

\* enqueueSteeringInputsSTM
LEMMA SteerKeeps ==
    ASSUME NEW q \in SteeringQueue, NEW e \in Entry
    PROVE  /\ Queued(q) \subseteq Queued(Steer(q, e))
           /\ Steer(q, e) # q => e.input \in Queued(Steer(q, e))
<1>1. PICK E \in Seq(Entry) : E = q.entries
  BY DEF SteeringQueue
<1>2. PICK r : r = Appended(q, <<e>>)
  OBVIOUS
<1>3. <<e>> \in Seq(Entry)
  OBVIOUS
<1>4. r.entries = E \o <<e>> /\ r.deferred = q.deferred
  BY <1>1, <1>2 DEF Appended, SteeringQueue
<1>5. Ids(E \o <<e>>) = Ids(E) \cup Ids(<<e>>)
  BY <1>3, ConcatIds
<1>6. e.input \in Ids(<<e>>)
  <2>1. Len(<<e>>) = 1 /\ <<e>>[1] = e /\ 1 \in 1..1
    OBVIOUS
  <2> QED
    BY <2>1 DEF Ids
<1>7. Queued(q) \cup {e.input} \subseteq Queued(r)
  BY <1>1, <1>4, <1>5, <1>6 DEF Queued
<1>8. CASE Steer(q, e) = q
  BY <1>8
<1>9. CASE Steer(q, e) = r
  BY <1>7, <1>9
<1> QED
  BY <1>2, <1>8, <1>9 DEF Steer

\* enqueueBackgroundCompletionForEpoch
LEMMA CompletedKeeps ==
    ASSUME NEW q \in SteeringQueue, NEW e \in Entry, NEW ep
    PROVE  /\ Queued(q) \subseteq Queued(Completed(q, ep, e))
           /\ Completed(q, ep, e) # q => e.input \in Queued(Completed(q, ep, e))
<1>1. PICK r : r = Promoted([q EXCEPT !.deferred = Append(@, e)])
  OBVIOUS
<1>2. Queued(q) \cup {e.input} \subseteq Queued(r)
  BY <1>1, DeferredKeeps
<1>3. Completed(q, ep, e) = q \/ Completed(q, ep, e) = r
  BY <1>1, Zenon DEF Completed
<1> QED
  BY <1>2, <1>3

\* dismissBackgroundCompletion
LEMMA DismissedKeeps ==
    ASSUME NEW q, NEW own, NEW G, NEW n, HostOK(q, own, G, n), NEW k, k # NoKey,
           NEW x \in Queued(q), x \in G
    PROVE  x \in Queued(Dismissed(q, k))
<1>1. q \in SteeringQueue /\ q.reserved <= Len(q.entries) /\ q.reserved \in Nat
      /\ GuidanceApart(q.entries, q.deferred, G, n)
  BY DEF HostOK, SteeringQueue
<1>2. PICK r \in SteeringQueue : r = Dismissed(q, k)
  BY <1>1, DismissedDerives
<1>3. 0 \in 0..q.reserved
  BY <1>1
<1>4. Derived(Dismissed(q, k).entries, Dismissed(q, k).deferred, q.entries, q.deferred, 0, 0, {k})
  BY <1>1, <1>3, DismissedDerives
<1>5. Derived(r.entries, r.deferred, q.entries, q.deferred, 0, 0, {k})
  BY <1>2, <1>4
<1>6. 1..0 = {}
  OBVIOUS
<1>7. x \in Queued(r) \/ \E i \in 1..Total(q.entries, q.deferred) :
                           /\ At(q.entries, q.deferred, i).input = x
                           /\ At(q.entries, q.deferred, i).key = k
  <2>1. KeepsOrTakes(x, r, q, 0, {k})
    BY <1>1, <1>5, DerivedKeeps
  <2> QED
    BY <1>6, <2>1, Zenon DEF KeepsOrTakes
<1>8. \A i \in 1..Total(q.entries, q.deferred) :
        At(q.entries, q.deferred, i).key # NoKey => At(q.entries, q.deferred, i).input \notin G
  BY <1>1 DEF GuidanceApart
<1> QED
  BY <1>2, <1>7, <1>8

LEMMA RetaggedIds ==
    ASSUME NEW s, NEW u, SameTags(s, u)
    PROVE  Ids(s) = Ids(u)
BY DEF SameTags, Ids

\* What only marks entries loses none.
LEMMA MarkedKeep ==
    ASSUME NEW q, NEW own, NEW G, NEW n \in Nat, HostOK(q, own, G, n)
    PROVE  /\ Queued(WakeConsumed(q)) = Queued(q) /\ Queued(WakeSuppressed(q)) = Queued(q)
           /\ Queued(Reserved(q)) = Queued(q) /\ Queued(Closed(q)) = Queued(q)
<1>1. Queued(Reserved(q)) = Queued(q) /\ Queued(Closed(q)) = Queued(q)
  BY HostReserved DEF Queued
<1>2. Queued(WakeConsumed(q)) = Queued(q)
  BY HostQuieted, RetaggedIds DEF Queued
<1>3. Queued(WakeSuppressed(q)) = Queued(q)
  BY HostQuieted, RetaggedIds DEF Queued
<1> QED
  BY <1>1, <1>2, <1>3

\* deliverToLoop appends to the report queue.
LEMMA DeliveredBehind ==
    ASSUME NEW q \in SteeringQueue, NEW e \in Entry
    PROVE  LET r == Promoted([q EXCEPT !.deferred = Append(@, e)])
           IN  /\ Len(r.entries) >= Len(q.entries)
               /\ \A i \in 1..Len(q.entries) : r.entries[i].input = q.entries[i].input
<1>0. q.deferred \in Seq(Entry)
  BY DEF SteeringQueue
<1>1. PICK D1 \in Seq(Entry) : D1 = Append(q.deferred, e)
  <2>1. Append(q.deferred, e) \in Seq(Entry)
    BY <1>0
  <2> QED
    BY <2>1
<1>2. PICK a : a = [q EXCEPT !.deferred = D1]
  OBVIOUS
<1>3. a \in SteeringQueue /\ a.entries = q.entries
  BY <1>2 DEF SteeringQueue
<1>4. PICK w \in Seq(Entry) : Promoted(a).entries = a.entries \o w
  BY <1>3, PromotedParts
<1>5. PICK E \in Seq(Entry) : E = q.entries
  BY DEF SteeringQueue
<1>6. PICK m \in Nat : m = Len(E)
  OBVIOUS
<1>7. PICK l \in Nat : l = Len(w)
  OBVIOUS
<1>8. Len(E \o w) = m + l /\ \A i \in 1..m : (E \o w)[i] = E[i]
  BY <1>6, <1>7
<1>9. m + l >= m
  OBVIOUS
<1>10. a = [q EXCEPT !.deferred = Append(@, e)]
  BY <1>1, <1>2
<1> QED
  BY <1>3, <1>4, <1>5, <1>6, <1>8, <1>9, <1>10

LEMMA MembersOf ==
    ASSUME NEW s \in Seq(Nat), NEW x
    PROVE  x \in Members(s) <=> \E i \in 1..Len(s) : s[i] = x
BY Zenon DEF Members

LEMMA MembersFacts ==
    ASSUME NEW s \in Seq(Nat), NEW t \in Seq(Nat)
    PROVE  /\ Members(s \o t) = Members(s) \cup Members(t)
           /\ \A i \in 1..Len(s) : s[i] \in Members(s)
<1>1. PICK m \in Nat : m = Len(s)
  OBVIOUS
<1>2. PICK r \in Nat : r = Len(t)
  OBVIOUS
<1>3. PICK u \in Seq(Nat) : u = s \o t
  BY Joined
<1>4. Len(u) = m + r /\ (\A i \in 1..m : u[i] = s[i]) /\ (\A i \in 1..r : u[i + m] = t[i])
  BY <1>1, <1>2, <1>3, Joined
<1>5. \A i \in 1..(m + r) : i > m => \E j \in 1..r : u[i] = t[j]
  <2>1. \A i \in 1..Len(s \o t) : i > Len(s) =>
          \E j \in 1..Len(t) : i = j + Len(s) /\ (s \o t)[i] = t[j]
    BY Joined
  <2> QED
    BY <1>1, <1>2, <1>3, <1>4, <2>1
<1>6. ASSUME NEW x PROVE /\ x \in Members(s) <=> \E i \in 1..m : s[i] = x
                         /\ x \in Members(t) <=> \E i \in 1..r : t[i] = x
                         /\ x \in Members(u) <=> \E i \in 1..(m + r) : u[i] = x
  <2>1. /\ x \in Members(s) <=> \E i \in 1..Len(s) : s[i] = x
        /\ x \in Members(t) <=> \E i \in 1..Len(t) : t[i] = x
        /\ x \in Members(u) <=> \E i \in 1..Len(u) : u[i] = x
    BY MembersOf
  <2> QED
    BY <1>1, <1>2, <1>4, <2>1, Zenon
<1>7. ASSUME NEW x, x \in Members(u) PROVE x \in Members(s) \cup Members(t)
  <2>1. PICK i \in 1..(m + r) : u[i] = x
    BY <1>6, <1>7
  <2>2. CASE i <= m
    <3>1. i \in 1..m
      BY <2>2
    <3>2. s[i] = x
      BY <1>4, <2>1, <3>1
    <3> QED
      BY <1>6, <3>1, <3>2, Zenon
  <2>3. CASE i > m
    <3>1. PICK j \in 1..r : u[i] = t[j]
      BY <1>5, <2>3
    <3> QED
      BY <1>6, <2>1, <3>1, Zenon
  <2>4. i <= m \/ i > m
    OBVIOUS
  <2> QED
    BY <2>2, <2>3, <2>4
<1>8. ASSUME NEW x, x \in Members(s) PROVE x \in Members(u)
  <2>1. PICK i \in 1..m : s[i] = x
    BY <1>6, <1>8
  <2>2. i \in 1..(m + r) /\ u[i] = x
    BY <1>4, <2>1
  <2> QED
    BY <1>6, <2>2, Zenon
<1>9. ASSUME NEW x, x \in Members(t) PROVE x \in Members(u)
  <2>1. PICK i \in 1..r : t[i] = x
    BY <1>6, <1>9
  <2>2. i + m \in 1..(m + r) /\ u[i + m] = x
    BY <1>4, <2>1
  <2> QED
    BY <1>6, <2>2, Zenon
<1>10. \A i \in 1..m : s[i] \in Members(s)
  BY <1>6, Zenon
<1> QED
  BY <1>1, <1>3, <1>7, <1>8, <1>9, <1>10, Zenon

\* The conditions under which no input is lost: no host that preempts requests has
\* reporting subagents, and the worker is not killed between an acknowledgement
\* and its record. Without the first ShiftedReports loses a report.
Separate ==
    /\ \A c \in Configurations : ~(c.preempts /\ c.reports)
    /\ "acknowledged" \notin KillPoints

\* The inputs in the request or in the history.
Held == Members(pending.inputs) \cup Members(history)

\* C has the first f inputs of E and the first m of R.
CarriedIn(C, E, f, R, m) ==
    /\ \A i \in 1..f : E[i].input \in C
    /\ m <= Len(R) /\ \A i \in 1..m : R[i].input \in C

\* What is to be acknowledged is in the request or in the history.
Carried ==
    /\ pc # "acknowledged" =>
        CarriedIn(Held, host.entries, Share, reports.entries, pending.ack - Share)
    /\ pc = "returned" => Members(pending.inputs) \subseteq Members(history)

\* What is read is what will be acknowledged.
LEMMA ReadCarried ==
    ASSUME LoopInvariant, NEW C, \A i \in 1..Len(Read) : Read[i] \in C
    PROVE  /\ Len(Read) - Len(host.entries) \in Nat
           /\ CarriedIn(C, host.entries, Len(host.entries), reports.entries,
                        Len(Read) - Len(host.entries))
<1>1. PICK E \in Seq(Entry) : E = host.entries
  BY DEF LoopInvariant, HostOK, SteeringQueue
<1>2. PICK R \in Seq(Entry) : R = reports.entries
  BY DEF LoopInvariant, ReportsOK, SteeringQueue
<1>3. PICK e \in Nat : e = Len(E)
  OBVIOUS
<1>4. PICK r \in Nat : r = Len(R)
  OBVIOUS
<1>5. PICK h \in Seq(Nat) : h = Inputs(E) /\ Len(h) = e /\ \A i \in 1..e : h[i] = E[i].input
  BY <1>3, InputsFacts
<1>6. PICK g \in Seq(Nat) : g = Inputs(R) /\ Len(g) = r /\ \A i \in 1..r : g[i] = R[i].input
  BY <1>4, InputsFacts
<1>7. CASE ~conf.reports
  <2>1. Read = h
    BY <1>1, <1>5, <1>7, ReadFacts
  <2>2. Len(Read) - Len(host.entries) = 0
    BY <1>1, <1>3, <1>5, <2>1
  <2>3. \A i \in 1..e : E[i].input \in C
    BY <1>5, <2>1
  <2>4. 0 <= r /\ 1..0 = {} /\ 0 \in Nat
    OBVIOUS
  <2>5. CarriedIn(C, E, e, R, 0)
    BY <1>4, <2>3, <2>4, Zenon DEF CarriedIn
  <2> QED
    BY <1>1, <1>2, <1>3, <2>2, <2>4, <2>5, Zenon
<1>8. CASE conf.reports
  <2>1. Read = h \o g
    BY <1>1, <1>2, <1>5, <1>6, <1>8, ReadFacts
  <2>2. /\ Len(h \o g) = Len(h) + Len(g)
        /\ \A i \in 1..Len(h) : (h \o g)[i] = h[i]
        /\ \A i \in 1..Len(g) : (h \o g)[i + Len(h)] = g[i]
    BY Joined
  <2>3. Len(Read) = e + r /\ (\A i \in 1..e : Read[i] = h[i]) /\ (\A i \in 1..r : Read[i + e] = g[i])
    BY <1>5, <1>6, <2>1, <2>2
  <2>4. Len(Read) - Len(host.entries) = r
    BY <1>1, <1>3, <2>3
  <2>5. ASSUME NEW i \in 1..e PROVE E[i].input \in C
    <3>1. i \in 1..(e + r)
      OBVIOUS
    <3> QED
      BY <1>5, <2>3, <3>1
  <2>6. ASSUME NEW i \in 1..r PROVE R[i].input \in C
    <3>1. i + e \in 1..(e + r)
      OBVIOUS
    <3> QED
      BY <1>6, <2>3, <3>1
  <2>7. r <= r
    OBVIOUS
  <2>8. CarriedIn(C, E, e, R, r)
    BY <1>4, <2>5, <2>6, <2>7, Zenon DEF CarriedIn
  <2> QED
    BY <1>1, <1>2, <1>3, <2>4, <2>8, Zenon
<1> QED
  BY <1>7, <1>8

LEMMA CarriedStep ==
    ASSUME LoopInvariant, Reading, Carried, Separate, [Next]_vars
    PROVE  Carried'
<1>1. /\ next \in Nat /\ first \in Seq(Nat) /\ history \in Seq(Nat)
      /\ pending \in [inputs : Seq(Nat), ack : Nat] /\ hostShare \in Nat
      /\ \A x \in guidance : x \in Nat /\ x <= next
  BY DEF LoopInvariant, LoopTypes
<1>2. pending.inputs \in Seq(Nat) /\ pending.ack \in Nat
  BY <1>1
<1>h. HostOK(host, owner, guidance, next) /\ host.reserved \in Nat /\ host.entries \in Seq(Entry)
      /\ reports \in SteeringQueue /\ reports.entries \in Seq(Entry)
  BY DEF LoopInvariant, HostOK, ReportsOK, SteeringQueue
<1>p. hostShare' \in Nat /\ pending'.ack \in Nat /\ reports'.entries \in Seq(Entry)
  <2>1. LoopTypes'
    BY TypesStep
  <2>2. ReportsOK(reports', guidance', next')
    BY ReportsStep
  <2> QED
    BY <2>1, <2>2 DEF LoopTypes, ReportsOK, SteeringQueue
<1>s. Share \in Nat /\ pending.ack - Share \in Nat /\ Share <= pending.ack
      /\ (pc # "acknowledged" => Share <= host.reserved)
  <2>1. Unrecorded = {"acknowledged"}
    BY DEF Unrecorded, Separate
  <2>2. Share \in Nat /\ pending.ack - Share \in Nat /\ Share <= pending.ack
    BY <1>1, <1>2 DEF Share
  <2> QED
    BY <2>1, <2>2 DEF Reading
<1>3. ASSUME pending'.ack = 0, pc' # "returned" PROVE Carried'
  <2>1. PICK f \in Nat : f = hostShare'
    BY <1>p
  <2>2. Share' = (IF 0 < f THEN 0 ELSE f)
    BY <1>3, <2>1, Zenon DEF Share
  <2>3. Share' = 0
    BY <2>2
  <2>4. pending'.ack - Share' = 0
    BY <1>3, <2>3
  <2>5. PICK r \in Nat : r = Len(reports'.entries)
    BY <1>p
  <2>6. 1..0 = {} /\ 0 <= r
    OBVIOUS
  <2>7. CarriedIn(Held', host'.entries, 0, reports'.entries, 0)
    BY <2>5, <2>6, Zenon DEF CarriedIn
  <2> QED
    BY <1>3, <2>3, <2>4, <2>7, Zenon DEF Carried
<1>4. ASSUME pc' = pc, UNCHANGED <<pending, hostShare, history, reports>>, Grows(host, host', next)
      PROVE  Carried'
  <2>1. Held' = Held /\ Share' = Share
    BY <1>4 DEF Held, Share
  <2>2. ASSUME pc # "acknowledged" PROVE \A i \in 1..Share : host'.entries[i].input \in Held
    <3>1. \A i \in 1..Share : i \in 1..host.reserved
      BY <1>h, <1>s, <2>2
    <3>2. \A i \in 1..Share : host'.entries[i].input = host.entries[i].input
      BY <1>4, <3>1 DEF Grows
    <3> QED
      BY <2>2, <3>2 DEF Carried, CarriedIn
  <2> QED
    BY <1>4, <2>1, <2>2 DEF Carried, CarriedIn
<1>5. ASSUME UNCHANGED <<pending, hostShare, host, reports>>, Held \subseteq Held',
             pc # "acknowledged", pc' = "returned" => Members(pending.inputs) \subseteq Members(history')
      PROVE  Carried'
  <2>1. Share' = Share
    BY <1>5 DEF Share
  <2> QED
    BY <1>5, <2>1 DEF Carried, CarriedIn
<1>6. ASSUME pending'.ack = Len(Read), hostShare' = Len(host.entries), host'.entries = host.entries,
             reports' = reports, pc' = "ready", \A i \in 1..Len(Read) : Read[i] \in Held'
      PROVE  Carried'
  <2>1. PICK C : C = Held'
    OBVIOUS
  <2>2. /\ Len(Read) - Len(host.entries) \in Nat
        /\ CarriedIn(C, host.entries, Len(host.entries), reports.entries, Len(Read) - Len(host.entries))
    BY <1>6, <2>1, ReadCarried
  <2>3. Share' = Len(host.entries)
    <3>1. PICK e \in Nat : e = Len(host.entries)
      BY <1>h
    <3>2. PICK z \in Nat : z = Len(Read)
      BY <1>p, <1>6
    <3>3. z - e \in Nat
      BY <2>2, <3>1, <3>2
    <3> QED
      BY <1>6, <3>1, <3>2, <3>3 DEF Share
  <2> QED
    BY <1>6, <2>1, <2>2, <2>3 DEF Carried
<1>7. ASSUME NEW s \in Seq(Nat), pending' = [inputs |-> s \o Read, ack |-> Len(Read)], ReadSteering,
             pc' = "ready"
      PROVE  Carried'
  <2>1. PICK z \in Seq(Nat) : z = Read
    BY ReadFacts
  <2>2. pending'.inputs = s \o z /\ pending'.ack = Len(Read)
    BY <1>7, <2>1
  <2>3. \A i \in 1..Len(z) : z[i] \in Members(s \o z)
    BY MembersFacts
  <2>4. host'.entries = host.entries /\ hostShare' = Len(host.entries) /\ reports' = reports
    BY <1>h, <1>1, <1>7, HostReserved DEF ReadSteering
  <2> QED
    BY <1>6, <1>7, <2>1, <2>2, <2>3, <2>4 DEF Held
<1>8. ASSUME pending.ack = 0, pending' = pending, pc' # "returned" PROVE Carried'
  BY <1>3, <1>8
<1>10. CASE UNCHANGED vars
  <2>1. UNCHANGED <<pc, pending, hostShare, history, reports, host>>
    BY <1>10 DEF vars, queueVars, loopVars, convVars
  <2> QED
    BY <2>1 DEF Carried, Held, Share
<1>12. ASSUME NEW n \in Sizes, EnqueueSteering(n) PROVE Carried'
  <2>1. n \in Nat /\ next + 1 \in Nat
    BY <1>1, LoopAssumption
  <2>2. PICK e : e = InputEntry(next + 1, n, "none")
    OBVIOUS
  <2>3. e \in Entry /\ e.input = next + 1
    BY <2>1, <2>2 DEF InputEntry, Entry
  <2>4. host' = Steer(host, e) /\ UNCHANGED <<pc, pending, hostShare, history, reports>>
    BY <1>12, <2>2 DEF EnqueueSteering, loopVars
  <2>5. Grows(host, Steer(host, e), next)
    BY <1>1, <1>h, <2>3, SteerGrows
  <2> QED
    BY <1>4, <2>4, <2>5
<1>13. ASSUME NEW n \in Sizes, Report(n) PROVE Carried'
  <2>1. n \in Nat /\ next + 1 \in Nat
    BY <1>1, LoopAssumption
  <2>2. PICK e : e = InputEntry(next + 1, n, "subagent")
    OBVIOUS
  <2>3. e \in Entry
    BY <2>1, <2>2 DEF InputEntry, Entry
  <2>4. /\ reports' = Promoted([reports EXCEPT !.deferred = Append(@, e)])
        /\ UNCHANGED <<pc, pending, hostShare, history, host>>
    BY <1>13, <2>2 DEF Report, loopVars
  <2>5. /\ Len(reports'.entries) >= Len(reports.entries)
        /\ \A i \in 1..Len(reports.entries) : reports'.entries[i].input = reports.entries[i].input
    BY <1>h, <2>3, <2>4, DeliveredBehind
  <2>6. Held' = Held /\ Share' = Share /\ pending'.ack - Share' = pending.ack - Share
    BY <2>4 DEF Held, Share
  <2>7. PICK m \in Nat : m = pending.ack - Share
    BY <1>s
  <2>8. PICK r \in Nat : r = Len(reports.entries)
    BY <1>h
  <2>9. PICK r1 \in Nat : r1 = Len(reports'.entries)
    BY <1>p
  <2>10. ASSUME pc # "acknowledged"
         PROVE  CarriedIn(Held, host.entries, Share, reports'.entries, m)
    <3>1. CarriedIn(Held, host.entries, Share, reports.entries, m)
      BY <2>7, <2>10 DEF Carried
    <3>2. m <= r /\ r <= r1
      BY <2>5, <2>8, <2>9, <3>1 DEF CarriedIn
    <3>3. m <= r1 /\ \A i \in 1..m : i \in 1..r
      BY <3>2
    <3>4. \A i \in 1..m : reports'.entries[i].input \in Held
      BY <2>5, <2>8, <3>1, <3>3 DEF CarriedIn
    <3> QED
      BY <2>9, <3>1, <3>3, <3>4 DEF CarriedIn
  <2> QED
    BY <2>4, <2>6, <2>7, <2>10 DEF Carried
<1>14. ASSUME NEW k \in Keys, Launch(k) PROVE Carried'
  <2>1. UNCHANGED <<pc, pending, hostShare, history, reports, host>>
    BY <1>14 DEF Launch, queueVars, loopVars, convVars
  <2> QED
    BY <2>1 DEF Carried, Held, Share
<1>15. ASSUME NEW k \in Keys, DismissTask(k) PROVE Carried'
  <2>1. host' = Dismissed(host, k) /\ UNCHANGED <<pc, pending, hostShare, history, reports>>
    BY <1>15 DEF DismissTask, loopVars
  <2>2. Grows(host, Dismissed(host, k), next)
    BY <1>1, <1>h, ReducedGrows
  <2> QED
    BY <1>4, <2>1, <2>2
<1>16. ASSUME NEW k \in Keys, NEW n \in Sizes, CompleteTask(k, n) PROVE Carried'
  <2>1. n \in Nat /\ k # NoKey /\ next + 1 \in Nat
    BY <1>1, LoopAssumption, KeyAssumption
  <2>2. PICK e : e = [InputEntry(next + 1, n, "none") EXCEPT !.key = k]
    OBVIOUS
  <2>3. e = [input |-> next + 1, bytes |-> n, kind |-> "none", key |-> k, wake |-> TRUE]
    BY <2>2 DEF InputEntry
  <2>4. e \in Entry /\ e.input = next + 1 /\ e.key = k
    BY <2>1, <2>3 DEF Entry
  <2>5. host' = Completed(host, owner[k], e) /\ UNCHANGED <<pc, pending, hostShare, history, reports>>
    BY <1>16, <2>2 DEF CompleteTask, loopVars
  <2>6. Grows(host, Completed(host, owner[k], e), next)
    BY <1>1, <1>h, <2>1, <2>4, CompletedGrows
  <2> QED
    BY <1>4, <2>5, <2>6
<1>17. CASE RequestCancel
  <2>1. UNCHANGED <<pc, pending, hostShare, history, reports, host>>
    BY <1>17 DEF RequestCancel, queueVars, loopVars, convVars
  <2> QED
    BY <2>1 DEF Carried, Held, Share
<1>18. CASE Prompt
  BY <1>8, <1>18 DEF Prompt, Goto, Reading
<1>19. CASE Wake
  BY <1>8, <1>19 DEF Wake, Goto, Reading
<1>20. CASE StartWoken
  BY <1>8, <1>20 DEF StartWoken, Goto, Reading
<1>21. CASE ResetSession
  BY <1>8, <1>21 DEF ResetSession, Goto, Reading
<1>22. CASE InstallHooks
  BY <1>8, <1>22 DEF InstallHooks, Goto, Reading
<1>23. CASE Recover
  <2>1. pending' = NoPending /\ pc' = "idle"
    BY <1>23 DEF Recover, TurnOver
  <2> QED
    BY <1>3, <2>1 DEF NoPending
<1>24. CASE BeginTurn
  BY <1>1, <1>7, <1>24 DEF BeginTurn, Goto
<1>25. CASE Submit
  <2>1. UNCHANGED <<pending, hostShare, history, reports, host>> /\ pc = "ready"
        /\ pc' \in {"ending", "submit"}
    BY <1>25 DEF Submit, Ends, Goto, queueVars, convVars
  <2>2. Held \subseteq Held'
    BY <2>1 DEF Held
  <2> QED
    BY <1>5, <2>1, <2>2
<1>26. ASSUME Salvage \/ NoSalvage, pc = "submit", pc' \in {"steered", "ending"} PROVE Carried'
  <2>1. CASE Salvage
    <3>1. pending'.ack = 0
      BY <2>1 DEF Salvage, NoPending
    <3> QED
      BY <1>3, <1>26, <3>1
  <2>2. CASE NoSalvage
    <3>1. UNCHANGED <<pending, hostShare, history, reports, host>>
      BY <2>2 DEF NoSalvage, queueVars, convVars
    <3>2. Held \subseteq Held'
      BY <3>1 DEF Held
    <3> QED
      BY <1>5, <1>26, <3>1, <3>2
  <2> QED
    BY <1>26, <2>1, <2>2
<1>27. CASE Steered
  BY <1>26, <1>27 DEF Steered, Goto
<1>28. CASE Aborted
  BY <1>26, <1>28 DEF Aborted, Ends, Goto
<1>29. CASE ContinueSteered
  <2>1. CASE cancel
    <3>1. UNCHANGED <<pending, hostShare, history, reports, host>> /\ pc = "steered" /\ pc' = "ending"
      BY <1>29, <2>1 DEF ContinueSteered, Ends, Goto, queueVars, convVars
    <3>2. Held \subseteq Held'
      BY <3>1 DEF Held
    <3> QED
      BY <1>5, <3>1, <3>2
  <2>2. CASE ~cancel
    <3>1. PICK z \in Seq(Nat) : z = Read
      BY ReadFacts
    <3>2. PICK a \in Nat : a = pending.ack
      BY <1>2
    <3>3. PICK t \in Seq(Nat) : t = Drop(z, a)
      BY <3>1, <3>2, ReadAdds
    <3>4. /\ pending' = [inputs |-> pending.inputs \o t, ack |-> Len(z)]
          /\ ReadSteering /\ pc = "steered" /\ pc' = "ready" /\ history' = history /\ conf' = conf
      BY <1>29, <2>2, <3>1, <3>2, <3>3 DEF ContinueSteered, Goto, convVars
    <3>5. ~conf.reports
      <4>1. conf \in Configurations
        BY DEF LoopInvariant, LoopTypes
      <4> QED
        BY <3>4, <4>1 DEF Reading, Separate
    <3>6. Share = a
      <4>1. a <= hostShare
        BY <3>2, <3>5 DEF Reading
      <4> QED
        BY <1>1, <3>2, <4>1 DEF Share
    <3>7. PICK e \in Nat : e = Len(host.entries)
      BY <1>h
    <3>8. Len(z) = e /\ \A i \in 1..e : z[i] = host.entries[i].input
      BY <1>h, <3>1, <3>5, <3>7, ReadFacts, InputsFacts
    <3>9. Members(pending.inputs) \cup Members(t) \cup Members(history) = Held'
      <4>1. Members(pending.inputs \o t) = Members(pending.inputs) \cup Members(t)
        BY <1>2, MembersFacts
      <4> QED
        BY <3>4, <4>1 DEF Held
    <3>10. ASSUME NEW i \in 1..e PROVE z[i] \in Held'
      <4>1. CASE i <= a
        <5>1. i \in 1..Share
          BY <3>6, <4>1
        <5>2. host.entries[i].input \in Held
          BY <3>4, <5>1 DEF Carried, CarriedIn
        <5> QED
          BY <3>8, <3>9, <5>2 DEF Held
      <4>2. CASE i > a
        <5>1. a <= e
          BY <4>2
        <5>2. /\ Len(Drop(z, a)) = Len(z) - a
              /\ \A j \in 1..(Len(z) - a) : j + a \in 1..Len(z) /\ Drop(z, a)[j] = z[j + a]
          BY <3>8, <5>1, DropFacts
        <5>3. PICK j \in 1..(e - a) : j + a = i
          <6>1. i - a \in 1..(e - a) /\ (i - a) + a = i
            BY <4>2
          <6> QED
            BY <6>1
        <5>4. t[j] = z[i] /\ j \in 1..Len(t)
          BY <3>3, <3>8, <5>2, <5>3
        <5>5. t[j] \in Members(t)
          BY <5>4 DEF Members
        <5> QED
          BY <3>9, <5>4, <5>5
      <4> QED
        BY <4>1, <4>2
    <3>11. host'.entries = host.entries /\ hostShare' = Len(host.entries) /\ reports' = reports
      BY <1>h, <1>1, <3>4, HostReserved DEF ReadSteering
    <3>12. pending'.ack = Len(Read)
      BY <3>1, <3>4
    <3>13. \A i \in 1..Len(Read) : Read[i] \in Held'
      BY <3>1, <3>8, <3>10
    <3> QED
      BY <1>6, <3>4, <3>11, <3>12, <3>13
  <2> QED
    BY <2>1, <2>2
<1>30. CASE Absorb
  <2>1. PICK x : x = <<>>
    OBVIOUS
  <2>2. /\ pending' = [pending EXCEPT !.inputs = x]
        /\ UNCHANGED <<hostShare, history, reports, host>>
        /\ pc = "returned" /\ pc' \in {"ending", "complete"}
    BY <1>30, <2>1 DEF Absorb, Ends, Goto, queueVars, convVars
  <2>3. pending'.ack = pending.ack
    BY <1>1, <2>2
  <2>4. Share' = Share
    BY <2>2, <2>3 DEF Share
  <2>5. Members(history) = Held
    BY <2>2 DEF Carried, Held
  <2>6. Held \subseteq Held'
    BY <2>2, <2>5 DEF Held
  <2>7. CarriedIn(Held, host.entries, Share, reports.entries, pending.ack - Share)
    BY <2>2 DEF Carried
  <2>8. CarriedIn(Held', host.entries, Share, reports.entries, pending.ack - Share)
    BY <2>6, <2>7 DEF CarriedIn
  <2> QED
    BY <2>2, <2>3, <2>4, <2>8 DEF Carried
<1>31. CASE Acknowledge
  BY <1>31 DEF Acknowledge, Goto, Carried
<1>32. CASE ClearAcknowledgement
  <2>1. pending' = [pending EXCEPT !.ack = 0] /\ pc' = "tools"
    BY <1>32 DEF ClearAcknowledgement, Goto
  <2>2. pending'.ack = 0
    BY <1>1, <2>1
  <2> QED
    BY <1>3, <2>1, <2>2
<1>34. CASE Close
  <2>1. pc = "closing" /\ pending.ack = 0 /\ history' = history /\ reports' = reports
    BY <1>34 DEF Close, Reading, convVars
  <2>2. PICK late : late = (IF conf.reports THEN Inputs(reports.entries) ELSE <<>>)
    OBVIOUS
  <2>3. CASE late # <<>>
    <3>1. PICK s \in Seq(Nat) : /\ s = late /\ Len(s) = Len(reports.entries)
                                /\ \A i \in 1..Len(reports.entries) : s[i] = reports.entries[i].input
      BY <1>h, <2>2, <2>3, InputsFacts
    <3>2. pending' = [inputs |-> s, ack |-> Len(s)] /\ hostShare' = 0 /\ host' = host /\ pc' = "ready"
      BY <1>34, <2>2, <2>3, <3>1 DEF Close, Continue, Goto
    <3>3. PICK r \in Nat : r = Len(reports.entries)
      BY <1>h
    <3>4. pending'.inputs = s /\ pending'.ack = r
      BY <3>1, <3>2, <3>3
    <3>5. Share' = 0
      BY <3>2, <3>3, <3>4 DEF Share
    <3>6. \A i \in 1..r : reports.entries[i].input \in Held'
      BY <3>1, <3>3, <3>4 DEF Held, Members
    <3>7. r <= r /\ 1..0 = {} /\ r - 0 = r
      OBVIOUS
    <3> QED
      BY <2>1, <3>2, <3>3, <3>4, <3>5, <3>6, <3>7 DEF Carried, CarriedIn
  <2>4. CASE late = <<>> /\ pc' = "ending"
    <3>1. pending' = pending
      BY <1>34, <2>2, <2>4 DEF Close, Continue, Goto
    <3> QED
      BY <1>8, <2>1, <2>4, <3>1
  <2>5. CASE late = <<>> /\ pc' # "ending"
    <3>1. /\ pending' = [inputs |-> Inputs(host.entries), ack |-> Len(Inputs(host.entries))]
          /\ pc' = "ready" /\ host' = Closed(host) /\ hostShare' = Len(host.entries)
      BY <1>34, <2>2, <2>5 DEF Close, Continue, Ends, Goto
    <3>2. PICK s \in Seq(Nat) : /\ s = Inputs(host.entries) /\ Len(s) = Len(host.entries)
                                /\ \A i \in 1..Len(host.entries) : s[i] = host.entries[i].input
      BY <1>h, InputsFacts
    <3>3. host'.entries = host.entries
      BY <1>1, <1>h, <3>1, HostReserved
    <3>4. PICK e \in Nat : e = Len(host.entries)
      BY <1>h
    <3>5. pending'.inputs = s /\ pending'.ack = e
      BY <3>1, <3>2, <3>4
    <3>6. Share' = e
      BY <3>1, <3>4, <3>5 DEF Share
    <3>7. \A i \in 1..e : host.entries[i].input \in Held'
      BY <3>2, <3>4, <3>5 DEF Held, Members
    <3>8. PICK r \in Nat : r = Len(reports.entries)
      BY <1>h
    <3>9. e - e = 0 /\ 0 <= r /\ 1..0 = {}
      OBVIOUS
    <3> QED
      BY <2>1, <3>1, <3>3, <3>5, <3>6, <3>7, <3>8, <3>9 DEF Carried, CarriedIn
  <2> QED
    BY <2>3, <2>4, <2>5
<1>35. CASE Kill
  <2>1. UNCHANGED <<pending, hostShare, history, reports, host>> /\ pc \in KillPoints /\ pc' = "ending"
    BY <1>35 DEF Kill, Ends, Goto, queueVars, convVars
  <2>2. Held \subseteq Held' /\ pc # "acknowledged"
    BY <2>1 DEF Held, Separate
  <2> QED
    BY <1>5, <2>1, <2>2
<1>36. ASSUME NEW b \in BOOLEAN, Returned(b) PROVE Carried'
  <2>1. /\ history' = history \o pending.inputs /\ UNCHANGED <<pending, hostShare, reports, host>>
        /\ pc = "submit"
    BY <1>36 DEF Returned, queueVars
  <2>2. Members(history') = Members(history) \cup Members(pending.inputs)
    BY <1>1, <1>2, <2>1, MembersFacts
  <2> QED
    BY <1>5, <2>1, <2>2 DEF Held
<1>37. ASSUME NEW b \in BOOLEAN, Advance(b) PROVE Carried'
  <2>1. pc = "tools" /\ pending.ack = 0
    BY <1>37 DEF Advance, Reading
  <2>2. CASE pc' = "ready"
    <3>1. PICK z \in Seq(Nat) : z = Read
      BY ReadFacts
    <3>2. <<>> \in Seq(Nat) /\ <<>> \o z = z
      OBVIOUS
    <3>3. ReadSteering /\ pending' = [inputs |-> <<>> \o Read, ack |-> Len(Read)]
      BY <1>37, <2>2, <3>1, <3>2 DEF Advance, Continue, Ends, Goto
    <3> QED
      BY <1>7, <2>2, <3>2, <3>3
  <2>3. CASE pc' # "ready"
    <3>1. pending' = pending /\ pc' \in {"closing", "ending"}
      BY <1>37, <2>3 DEF Advance, Continue, Ends, Goto
    <3> QED
      BY <1>8, <2>1, <3>1
  <2> QED
    BY <2>2, <2>3
<1> QED
  BY <1>10, <1>12, <1>13, <1>14, <1>15, <1>16, <1>17, <1>18, <1>19, <1>20, <1>21, <1>22, <1>23,
     <1>24, <1>25, <1>27, <1>28, <1>29, <1>30, <1>31, <1>32, <1>34, <1>35, <1>36, <1>37
  DEF Next, Producers, Host, Loop
\* An acknowledgement removes what is in the request or in the history.
LEMMA CommitKeeps ==
    ASSUME LoopInvariant, Reading, Carried, Separate, GuidanceKept, pc # "acknowledged",
           NEW x \in guidance \cup notices,
           NEW r, r = reports \/ r = Acknowledged(reports, pending.ack - Share)
    PROVE  x \in Queued(Acknowledged(host, Share)) \cup Queued(r) \cup Held
<1>1. /\ pending \in [inputs : Seq(Nat), ack : Nat] /\ hostShare \in Nat
  BY DEF LoopInvariant, LoopTypes
<1>2. /\ host \in SteeringQueue /\ host.reserved <= Len(host.entries)
      /\ reports \in SteeringQueue /\ reports.reserved <= Len(reports.entries)
  BY DEF LoopInvariant, HostOK, ReportsOK
<1>3. PICK f \in Nat : f = Share
  BY <1>1 DEF Share
<1>4. PICK m \in Nat : m = pending.ack - Share
  BY <1>1 DEF Share
<1>5. f <= Len(host.entries)
  <2>1. PICK e \in Nat : e = Len(host.entries)
    BY <1>2 DEF SteeringQueue
  <2>2. PICK v \in Nat : v = host.reserved
    BY <1>2 DEF SteeringQueue
  <2>3. f <= v
    BY <1>3, <2>2 DEF Reading, Unrecorded, Separate
  <2> QED
    BY <1>2, <2>1, <2>2, <2>3
<1>6. CarriedIn(Held, host.entries, f, reports.entries, m)
  BY <1>3, <1>4 DEF Carried
<1>7. m <= Len(reports.entries)
  BY <1>6 DEF CarriedIn
<1>8. CASE x \in Queued(host)
  <2>1. x \in Queued(Acknowledged(host, f)) \/ \E i \in 1..f : host.entries[i].input = x
    BY <1>2, <1>5, <1>8, AcknowledgedKeeps
  <2> QED
    BY <1>3, <1>6, <2>1, Zenon DEF CarriedIn
<1>9. CASE x \in Queued(reports)
  <2>1. x \in Queued(Acknowledged(reports, m)) \/ \E i \in 1..m : reports.entries[i].input = x
    BY <1>2, <1>7, <1>9, AcknowledgedKeeps
  <2>2. r = reports \/ r = Acknowledged(reports, m)
    BY <1>4
  <2> QED
    BY <1>6, <1>9, <2>1, <2>2, Zenon DEF CarriedIn
<1>10. CASE x \in Members(history)
  BY <1>10 DEF Held
<1>11. x \in Queued(host) \cup Queued(reports) \cup Members(history)
  BY DEF GuidanceKept
<1> QED
  BY <1>8, <1>9, <1>10, <1>11

LEMMA KeptStep ==
    ASSUME LoopInvariant, Reading, Carried, Separate, GuidanceKept, [Next]_vars
    PROVE  GuidanceKept'
<1>1. /\ next \in Nat /\ history \in Seq(Nat) /\ pending \in [inputs : Seq(Nat), ack : Nat]
      /\ hostShare \in Nat
  BY DEF LoopInvariant, LoopTypes
<1>2. pending.inputs \in Seq(Nat) /\ pending.ack \in Nat
  BY <1>1
<1>h. HostOK(host, owner, guidance, next) /\ host \in SteeringQueue /\ reports \in SteeringQueue
  BY DEF LoopInvariant, HostOK, ReportsOK
<1>3. ASSUME guidance' = guidance, notices' = notices, Queued(host) \subseteq Queued(host'),
             Queued(reports) \subseteq Queued(reports'), Members(history) \subseteq Members(history')
      PROVE  GuidanceKept'
  <2>1. guidance \cup notices \subseteq Queued(host) \cup Queued(reports) \cup Members(history)
    BY DEF GuidanceKept
  <2>2. guidance' \cup notices' \subseteq Queued(host') \cup Queued(reports') \cup Members(history')
    BY <1>3, <2>1
  <2> QED
    BY <2>2 DEF GuidanceKept
<1>4. ASSUME guidance' = guidance, notices' = notices, Queued(host') = Queued(host),
             reports' = reports, history' = history
      PROVE  GuidanceKept'
  BY <1>4, Zenon DEF GuidanceKept
<1>5. ASSUME host' = host, UNCHANGED <<guidance, notices, reports, history>> PROVE GuidanceKept'
  BY <1>5, <1>4
<1>r. ASSUME ReadSteering, UNCHANGED <<guidance, notices, history>> PROVE GuidanceKept'
  <2>1. host' = Reserved(host) /\ reports' = reports
    BY <1>r DEF ReadSteering
  <2>2. Queued(Reserved(host)) = Queued(host)
    BY <1>1, <1>h, MarkedKeep
  <2> QED
    BY <1>4, <1>r, <2>1, <2>2
<1>10. CASE UNCHANGED vars
  BY <1>5, <1>10 DEF vars, queueVars, convVars
<1>12. ASSUME NEW n \in Sizes, EnqueueSteering(n) PROVE GuidanceKept'
  <2>1. n \in Nat /\ next + 1 \in Nat
    BY <1>1, LoopAssumption
  <2>2. PICK e : e = InputEntry(next + 1, n, "none")
    OBVIOUS
  <2>3. e \in Entry
    BY <2>1, <2>2 DEF InputEntry, Entry
  <2>4. /\ host' = Steer(host, e)
        /\ guidance' = IF host' = host THEN guidance ELSE guidance \cup {e.input}
        /\ UNCHANGED <<history, reports, notices>>
    BY <1>12, <2>2 DEF EnqueueSteering
  <2>5. /\ Queued(host) \subseteq Queued(Steer(host, e))
        /\ Steer(host, e) # host => e.input \in Queued(Steer(host, e))
    BY <1>h, <2>3, SteerKeeps
  <2> QED
    BY <2>4, <2>5, Zenon DEF GuidanceKept
<1>13. ASSUME NEW n \in Sizes, Report(n) PROVE GuidanceKept'
  <2>1. n \in Nat /\ next + 1 \in Nat
    BY <1>1, LoopAssumption
  <2>2. PICK e : e = InputEntry(next + 1, n, "subagent")
    OBVIOUS
  <2>3. e \in Entry
    BY <2>1, <2>2 DEF InputEntry, Entry
  <2>4. /\ reports' = Promoted([reports EXCEPT !.deferred = Append(@, e)])
        /\ notices' = notices \cup {e.input}
        /\ UNCHANGED <<history, host, guidance>>
    BY <1>13, <2>2 DEF Report
  <2>5. Queued(reports) \cup {e.input}
          \subseteq Queued(Promoted([reports EXCEPT !.deferred = Append(@, e)]))
    BY <1>h, <2>3, DeferredKeeps
  <2>6. Queued(reports) \cup {e.input} \subseteq Queued(reports')
    BY <2>4, <2>5
  <2> QED
    BY <2>4, <2>6, Zenon DEF GuidanceKept
<1>14. ASSUME NEW k \in Keys, Launch(k) PROVE GuidanceKept'
  BY <1>5, <1>14 DEF Launch, queueVars, convVars
<1>15. ASSUME NEW k \in Keys, DismissTask(k) PROVE GuidanceKept'
  <2>1. /\ host' = Dismissed(host, k)
        /\ notices' = notices \ (Ids(host.entries \o host.deferred)
                                 \ Ids(host'.entries \o host'.deferred))
        /\ UNCHANGED <<history, reports, guidance>>
    BY <1>15 DEF DismissTask
  <2>2. k # NoKey
    BY KeyAssumption
  <2>3. host' \in SteeringQueue
    <3>1. HostOK(host', owner', guidance', next')
      BY HostStep
    <3> QED
      BY <3>1 DEF HostOK
  <2>4. Ids(host.entries \o host.deferred) = Queued(host)
        /\ Ids(host'.entries \o host'.deferred) = Queued(host')
    BY <1>h, <2>3, ConcatIds DEF SteeringQueue, Queued
  <2>5. \A x \in guidance : x \in Queued(host) => x \in Queued(host')
    BY <1>h, <2>1, <2>2, DismissedKeeps
  <2> QED
    BY <2>1, <2>4, <2>5, ZenonT(40) DEF GuidanceKept
<1>16. ASSUME NEW k \in Keys, NEW n \in Sizes, CompleteTask(k, n) PROVE GuidanceKept'
  <2>1. n \in Nat /\ k # NoKey /\ next + 1 \in Nat
    BY <1>1, LoopAssumption, KeyAssumption
  <2>2. PICK e : e = [InputEntry(next + 1, n, "none") EXCEPT !.key = k]
    OBVIOUS
  <2>3. e = [input |-> next + 1, bytes |-> n, kind |-> "none", key |-> k, wake |-> TRUE]
    BY <2>2 DEF InputEntry
  <2>4. e \in Entry
    BY <2>1, <2>3 DEF Entry
  <2>5. /\ host' = Completed(host, owner[k], e)
        /\ notices' = IF host' = host THEN notices ELSE notices \cup {e.input}
        /\ UNCHANGED <<history, reports, guidance>>
    BY <1>16, <2>2 DEF CompleteTask
  <2>6. /\ Queued(host) \subseteq Queued(Completed(host, owner[k], e))
        /\ Completed(host, owner[k], e) # host => e.input \in Queued(Completed(host, owner[k], e))
    BY <1>h, <2>4, CompletedKeeps
  <2> QED
    BY <2>5, <2>6, Zenon DEF GuidanceKept
<1>17. CASE RequestCancel
  BY <1>5, <1>17 DEF RequestCancel, queueVars, convVars
<1>18. CASE Prompt
  BY <1>5, <1>18 DEF Prompt, queueVars, convVars
<1>19. CASE Wake
  <2>1. host' = WakeConsumed(host) /\ UNCHANGED <<guidance, notices, reports, history>>
    BY <1>19 DEF Wake, convVars
  <2>2. Queued(WakeConsumed(host)) = Queued(host)
    BY <1>1, <1>h, MarkedKeep
  <2> QED
    BY <1>4, <2>1, <2>2
<1>20. CASE StartWoken
  <2>1. host' = Reserved(host) /\ UNCHANGED <<guidance, notices, reports, history>>
    BY <1>20 DEF StartWoken, convVars
  <2>2. Queued(Reserved(host)) = Queued(host)
    BY <1>1, <1>h, MarkedKeep
  <2> QED
    BY <1>4, <2>1, <2>2
<1>21. CASE ResetSession
  <2>1. guidance' = {} /\ notices' = {}
    BY <1>21 DEF ResetSession
  <2> QED
    BY <2>1, Zenon DEF GuidanceKept
<1>22. CASE InstallHooks
  BY <1>5, <1>22 DEF InstallHooks, queueVars, convVars
<1>24. CASE BeginTurn
  BY <1>r, <1>24 DEF BeginTurn
<1>25. CASE Submit
  BY <1>5, <1>25 DEF Submit, queueVars, convVars
<1>j. Members(history \o pending.inputs) = Held
  <2>1. Members(history \o pending.inputs) = Members(history) \cup Members(pending.inputs)
    BY <1>1, <1>2, MembersFacts
  <2> QED
    BY <2>1, Zenon DEF Held
<1>26. ASSUME pc # "acknowledged", UNCHANGED <<guidance, notices>>,
              Queued(host') = Queued(Acknowledged(host, Share)),
              reports' = reports \/ reports' = Acknowledged(reports, pending.ack - Share),
              Held \subseteq Members(history')
       PROVE  GuidanceKept'
  <2>1. \A x \in guidance \cup notices :
           x \in Queued(Acknowledged(host, Share)) \cup Queued(reports') \cup Held
    BY <1>26, CommitKeeps
  <2>2. guidance' \cup notices' \subseteq Queued(host') \cup Queued(reports') \cup Members(history')
    BY <1>26, <2>1
  <2> QED
    BY <2>2 DEF GuidanceKept
<1>c. ASSUME CommitSteering(pending.ack)
      PROVE  /\ host' = Acknowledged(host, Share)
             /\ reports' = reports \/ reports' = Acknowledged(reports, pending.ack - Share)
  BY <1>c, Zenon DEF CommitSteering, Share
<1>27. ASSUME Salvage \/ NoSalvage, pc = "submit" PROVE GuidanceKept'
  <2>1. CASE Salvage
    <3>1. /\ history' = history \o pending.inputs /\ CommitSteering(pending.ack)
          /\ UNCHANGED <<guidance, notices>>
      BY <2>1 DEF Salvage
    <3>2. Held \subseteq Members(history')
      BY <1>j, <3>1
    <3>3. Queued(host') = Queued(Acknowledged(host, Share))
      BY <1>c, <3>1
    <3> QED
      BY <1>26, <1>27, <1>c, <3>1, <3>2, <3>3
  <2>2. CASE NoSalvage
    BY <1>5, <2>2 DEF NoSalvage, queueVars, convVars
  <2> QED
    BY <1>27, <2>1, <2>2
<1>28. CASE Steered \/ Aborted
  BY <1>27, <1>28 DEF Steered, Aborted
<1>29. CASE ContinueSteered
  <2>1. UNCHANGED <<guidance, notices, history>> /\ (ReadSteering \/ UNCHANGED queueVars)
    BY <1>29 DEF ContinueSteered, convVars
  <2> QED
    BY <1>5, <1>r, <2>1 DEF queueVars
<1>30. CASE Absorb
  BY <1>5, <1>30 DEF Absorb, queueVars, convVars
<1>31. CASE Acknowledge
  <2>1. CommitSteering(pending.ack) /\ pc = "complete" /\ UNCHANGED <<guidance, notices, history>>
    BY <1>31 DEF Acknowledge, convVars
  <2>2. Held \subseteq Members(history')
    <3>1. pending.inputs = <<>>
      BY <2>1 DEF Reading
    <3>2. Members(<<>>) = {}
      BY DEF Members
    <3> QED
      BY <2>1, <3>1, <3>2 DEF Held
  <2>3. Queued(host') = Queued(Acknowledged(host, Share))
    BY <1>c, <2>1
  <2> QED
    BY <1>26, <1>c, <2>1, <2>2, <2>3
<1>32. CASE ClearAcknowledgement \/ Kill
  BY <1>5, <1>32 DEF ClearAcknowledgement, Kill, queueVars, convVars
<1>34. CASE Close
  <2>1. UNCHANGED <<guidance, notices, reports, history>> /\ (host' = host \/ host' = Closed(host))
    BY <1>34, Zenon DEF Close, convVars
  <2>2. Queued(Closed(host)) = Queued(host)
    BY <1>1, <1>h, MarkedKeep
  <2> QED
    BY <1>4, <2>1, <2>2
<1>35. CASE Recover
  <2>1. PICK orphans \in BOOLEAN :
          /\ history' = IF orphans THEN history \o pending.inputs ELSE history
          /\ LET settled == IF orphans THEN Acknowledged(host, Share) ELSE host
             IN  /\ host' = IF result = "cancelled" THEN WakeSuppressed(settled) ELSE settled
                 /\ reports' = IF orphans /\ conf.reports
                               THEN Acknowledged(reports, pending.ack - Share) ELSE reports
    BY <1>35, Zenon DEF Recover, Share
  <2>2. pc = "ending" /\ UNCHANGED <<guidance, notices>>
    BY <1>35 DEF Recover
  <2>3. CASE orphans
    <3>1. PICK s : s = Acknowledged(host, Share)
      OBVIOUS
    <3>2. host' = s \/ host' = WakeSuppressed(s)
      BY <2>1, <2>3, <3>1, Zenon
    <3>3. Share \in Nat
      BY <1>1, <1>2 DEF Share
    <3>4. HostOK(s, owner, guidance, next)
      BY <1>1, <1>h, <3>1, <3>3, HostAcknowledged
    <3>5. Queued(WakeSuppressed(s)) = Queued(s)
      BY <1>1, <3>4, MarkedKeep
    <3>6. Queued(host') = Queued(Acknowledged(host, Share))
      BY <3>1, <3>2, <3>5, Zenon
    <3>7. reports' = reports \/ reports' = Acknowledged(reports, pending.ack - Share)
      BY <2>1, <2>3, Zenon
    <3>8. Held \subseteq Members(history')
      BY <1>j, <2>1, <2>3, Zenon
    <3> QED
      BY <1>26, <2>2, <3>6, <3>7, <3>8
  <2>4. CASE ~orphans
    <3>1. /\ UNCHANGED <<reports, history>> /\ (host' = host \/ host' = WakeSuppressed(host))
      BY <2>1, <2>4, Zenon
    <3>2. Queued(WakeSuppressed(host)) = Queued(host)
      BY <1>1, <1>h, MarkedKeep
    <3> QED
      BY <1>4, <2>2, <3>1, <3>2
  <2> QED
    BY <2>3, <2>4
<1>36. ASSUME NEW b \in BOOLEAN, Returned(b) PROVE GuidanceKept'
  <2>1. /\ history' = history \o pending.inputs /\ UNCHANGED <<reports, host, guidance, notices>>
    BY <1>36 DEF Returned, queueVars
  <2>2. Members(history) \subseteq Members(history')
    BY <1>j, <2>1, Zenon DEF Held
  <2> QED
    BY <1>3, <2>1, <2>2
<1>37. ASSUME NEW b \in BOOLEAN, Advance(b) PROVE GuidanceKept'
  <2>1. UNCHANGED <<guidance, notices, history>> /\ (ReadSteering \/ UNCHANGED queueVars)
    BY <1>37 DEF Advance, convVars
  <2> QED
    BY <1>5, <1>r, <2>1 DEF queueVars
<1> QED
  BY <1>10, <1>12, <1>13, <1>14, <1>15, <1>16, <1>17, <1>18, <1>19, <1>20, <1>21, <1>22,
     <1>24, <1>25, <1>28, <1>29, <1>30, <1>31, <1>32, <1>34, <1>35, <1>36, <1>37
  DEF Next, Producers, Host, Loop
\* Where the hypotheses of Separate hold, the queue keeps what it accepted until
\* it is part of the committed conversation, through preempted, salvaged, failed and
\* recovered requests, dismissals and promotions.
THEOREM NoInputLost == ASSUME Separate PROVE Spec => []GuidanceKept
<1>1. Init => Carried /\ GuidanceKept
  <2> SUFFICES ASSUME Init PROVE Carried /\ GuidanceKept
    OBVIOUS
  <2>1. /\ pending.ack = 0 /\ pc = "idle" /\ hostShare = 0 /\ reports.entries = <<>>
        /\ guidance = {} /\ notices = {}
    BY DEF Init, NoPending, EmptyQueue
  <2>2. Share = 0
    BY <2>1 DEF Share
  <2>3. pending.ack - Share = 0
    BY <2>1, <2>2
  <2>4. 1..0 = {} /\ 0 <= Len(<<>>)
    OBVIOUS
  <2>5. CarriedIn(Held, host.entries, 0, <<>>, 0)
    BY <2>4, Zenon DEF CarriedIn
  <2>6. Carried
    BY <2>1, <2>2, <2>3, <2>5, Zenon DEF Carried
  <2>7. GuidanceKept
    BY <2>1, Zenon DEF GuidanceKept
  <2> QED
    BY <2>6, <2>7
<1>2. LoopInvariant /\ Reading /\ Carried /\ GuidanceKept /\ [Next]_vars
        => Carried' /\ GuidanceKept'
  BY CarriedStep, KeptStep
<1> QED
  BY <1>1, <1>2, ReadingHolds, PTL DEF Spec

=============================================================================
