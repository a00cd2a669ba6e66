-------------------------- MODULE InputQueueProofs --------------------------
(***************************************************************************)
(* What the transitions of a session input queue do to its entries and to  *)
(* its budget, for queues of any length: the facts that PendingInputs and  *)
(* SteeredLoop rest on.                                                    *)
(***************************************************************************)
EXTENDS InputQueue, SetInduction, TLAPS

\* Entries and queues.
Entry == [input : Nat, bytes : Nat, kind : {"none", "mcp", "subagent"},
          key : Keys \cup {NoKey}, wake : BOOLEAN]
QueueState ==
    [epoch : Nat, entries : Seq(Entry), deferred : Seq(Entry), count : Nat, bytes : Nat,
     omitted : BOOLEAN, closed : BOOLEAN, reserved : Nat, active : BOOLEAN]

-----------------------------------------------------------------------------
(* The size of a sequence of entries                                       *)

\* f[n] is the size of the first n entries of s, up to m of them.
SumsTo(f, s, m) ==
    /\ f \in [0..m -> Nat]
    /\ f[0] = 0
    /\ \A n \in 1..m : f[n] = f[n - 1] + s[n].bytes
Sums(f, s) == SumsTo(f, s, Len(s))

\* Sums of prefixes exist,
LEMMA SumsExist ==
    ASSUME NEW s \in Seq(Entry)
    PROVE  \E f : Sums(f, s)
<1> DEFINE Good == {m \in Nat : m <= Len(s) => \E f : SumsTo(f, s, m)}
<1>1. 0 \in Good
  <2>1. SumsTo([n \in 0..0 |-> 0], s, 0)
    BY DEF SumsTo
  <2> QED
    BY <2>1
<1>2. ASSUME NEW m \in Nat, m \in Good PROVE m + 1 \in Good
  <2>1. ASSUME m + 1 <= Len(s) PROVE \E f : SumsTo(f, s, m + 1)
    <3>1. PICK f : SumsTo(f, s, m)
      BY <1>2, <2>1
    <3> DEFINE g == [n \in 0..(m + 1) |-> IF n = m + 1 THEN f[m] + s[m + 1].bytes ELSE f[n]]
    <3>2. s[m + 1] \in Entry
      BY <2>1
    <3>3. s[m + 1].bytes \in Nat
      BY <3>2 DEF Entry
    <3>4. g \in [0..(m + 1) -> Nat]
      BY <3>1, <3>3 DEF SumsTo
    <3>5. g[0] = 0
      BY <3>1 DEF SumsTo
    <3>6. \A n \in 1..(m + 1) : g[n] = g[n - 1] + s[n].bytes
      BY <3>1 DEF SumsTo
    <3>7. SumsTo(g, s, m + 1)
      BY <3>4, <3>5, <3>6 DEF SumsTo
    <3> QED
      BY <3>7
  <2> QED
    BY <2>1
<1> HIDE DEF Good
<1>3. Len(s) \in Good
  BY <1>1, <1>2, NatInductionOnSets
<1> QED
  BY <1>3 DEF Good, Sums

\* Bytes is the last of them.
LEMMA BytesOfSums ==
    ASSUME NEW s \in Seq(Entry), NEW f, Sums(f, s)
    PROVE  Bytes(s) = f[Len(s)]
<1> DEFINE sum == CHOOSE h : h = [n \in 0..Len(s) |-> IF n = 0 THEN 0 ELSE h[n - 1] + s[n].bytes]
<1>1. f = [n \in 0..Len(s) |-> IF n = 0 THEN 0 ELSE f[n - 1] + s[n].bytes]
  BY DEF Sums, SumsTo
<1>2. sum = [n \in 0..Len(s) |-> IF n = 0 THEN 0 ELSE sum[n - 1] + s[n].bytes]
  BY <1>1
<1>3. Bytes(s) = sum[Len(s)]
  BY DEF Bytes
<1> HIDE DEF sum
<1> DEFINE Good == {m \in Nat : m <= Len(s) => f[m] = sum[m]}
<1>4. 0 \in Good
  BY <1>2 DEF Sums, SumsTo
<1>5. ASSUME NEW m \in Nat, m \in Good PROVE m + 1 \in Good
  BY <1>2, <1>5 DEF Sums, SumsTo
<1> HIDE DEF Good
<1>6. Len(s) \in Good
  BY <1>4, <1>5, NatInductionOnSets
<1> QED
  BY <1>3, <1>6 DEF Good

\* The size of a sequence is that of its parts.
LEMMA BytesConcat ==
    ASSUME NEW s \in Seq(Entry), NEW t \in Seq(Entry)
    PROVE  Bytes(s \o t) = Bytes(s) + Bytes(t)
<1>1. PICK f : Sums(f, s)
  BY SumsExist
<1>2. PICK g : Sums(g, t)
  BY SumsExist
<1> DEFINE h == [n \in 0..(Len(s) + Len(t)) |->
                   IF n <= Len(s) THEN f[n] ELSE f[Len(s)] + g[n - Len(s)]]
<1>3. s \o t \in Seq(Entry) /\ Len(s \o t) = Len(s) + Len(t)
  OBVIOUS
<1>4. \A n \in 1..(Len(s) + Len(t)) : (s \o t)[n] = IF n <= Len(s) THEN s[n] ELSE t[n - Len(s)]
  OBVIOUS
<1>5. Sums(h, s \o t)
  <2>4. /\ \A n \in 0..Len(s) : f[n] \in Nat /\ f[0] = 0
        /\ \A n \in 0..Len(t) : g[n] \in Nat
    BY <1>1, <1>2 DEF Sums, SumsTo
  <2>1. h \in [0..(Len(s) + Len(t)) -> Nat] /\ h[0] = 0
    BY <2>4
  <2>2. ASSUME NEW n \in 1..(Len(s) + Len(t))
        PROVE  h[n] = h[n - 1] + (s \o t)[n].bytes
    <3>1. CASE n <= Len(s)
      BY <1>1, <1>4, <3>1 DEF Sums, SumsTo
    <3>2. CASE n > Len(s)
      <4>1. /\ n - Len(s) \in 1..Len(t) /\ (n - Len(s)) - 1 \in 0..Len(t)
            /\ (n - 1) - Len(s) = (n - Len(s)) - 1 /\ Len(s) \in 0..Len(s) /\ 0 \in 0..Len(t)
            /\ n - 1 \in 0..(Len(s) + Len(t))
        BY <3>2
      <4>2. g[n - Len(s)] = g[(n - Len(s)) - 1] + t[n - Len(s)].bytes
        BY <1>2, <4>1 DEF Sums, SumsTo
      <4>3. f[Len(s)] \in Nat /\ g[0] = 0 /\ g[(n - Len(s)) - 1] \in Nat
        BY <1>1, <1>2, <4>1 DEF Sums, SumsTo
      <4>4. h[n - 1] = f[Len(s)] + g[(n - Len(s)) - 1]
        <5>1. CASE n = Len(s) + 1
          BY <4>3, <5>1
        <5>2. CASE n > Len(s) + 1
          <6>1. ~(n - 1 <= Len(s))
            BY <5>2
          <6>2. h[n - 1] = f[Len(s)] + g[(n - 1) - Len(s)]
            BY <4>1, <6>1
          <6> QED
            BY <4>1, <6>2
        <5>3. n = Len(s) + 1 \/ n > Len(s) + 1
          BY <3>2
        <5> QED
          BY <5>1, <5>2, <5>3
      <4>5. h[n] = f[Len(s)] + g[n - Len(s)]
        BY <3>2
      <4>6. t[n - Len(s)] \in Entry
        BY <4>1
      <4>7. t[n - Len(s)].bytes \in Nat
        BY <4>6 DEF Entry
      <4> QED
        BY <1>4, <3>2, <4>2, <4>3, <4>4, <4>5, <4>7
    <3> QED
      BY <3>1, <3>2
  <2> QED
    BY <1>3, <2>1, <2>2 DEF Sums, SumsTo
<1>6. h[Len(s) + Len(t)] = f[Len(s)] + g[Len(t)]
  BY <1>1, <1>2 DEF Sums, SumsTo
<1> QED
  BY <1>1, <1>2, <1>3, <1>5, <1>6, BytesOfSums

\* Sizes are natural numbers; of no entries and of one entry.
LEMMA BytesType ==
    /\ \A s \in Seq(Entry) : Bytes(s) \in Nat
    /\ Bytes(<<>>) = 0
    /\ \A e \in Entry : Bytes(<<e>>) = e.bytes
<1>1. ASSUME NEW s \in Seq(Entry) PROVE Bytes(s) \in Nat
  <2>1. PICK f : Sums(f, s)
    BY SumsExist
  <2> QED
    BY <2>1, BytesOfSums DEF Sums, SumsTo
<1>2. Bytes(<<>>) = 0
  <2>1. <<>> \in Seq(Entry) /\ Len(<<>>) = 0
    OBVIOUS
  <2>2. PICK f : Sums(f, <<>>)
    BY <2>1, SumsExist
  <2> QED
    BY <2>1, <2>2, BytesOfSums DEF Sums, SumsTo
<1>3. ASSUME NEW e \in Entry PROVE Bytes(<<e>>) = e.bytes
  <2>1. <<e>> \in Seq(Entry) /\ Len(<<e>>) = 1 /\ <<e>>[1] = e
    OBVIOUS
  <2>2. PICK f : Sums(f, <<e>>)
    BY <2>1, SumsExist
  <2>3. f[1] = f[0] + e.bytes /\ f[0] = 0
    BY <2>1, <2>2 DEF Sums, SumsTo
  <2>4. e.bytes \in Nat
    BY DEF Entry
  <2>5. Bytes(<<e>>) = f[1]
    BY <2>1, <2>2, BytesOfSums
  <2> QED
    BY <2>3, <2>4, <2>5
<1> QED
  BY <1>1, <1>2, <1>3

-----------------------------------------------------------------------------
(* Selected entries                                                        *)

\* f[n] are the entries of s at the indices of K up to n.
SelectsTo(f, s, K, m) ==
    /\ f \in [0..m -> Seq(Entry)]
    /\ f[0] = <<>>
    /\ \A n \in 1..m : f[n] = IF n \in K THEN Append(f[n - 1], s[n]) ELSE f[n - 1]

\* Selected is the last of such prefixes.
LEMMA SelectedPrefixes ==
    ASSUME NEW s \in Seq(Entry), NEW K
    PROVE  \E f : SelectsTo(f, s, K, Len(s)) /\ Selected(s, K) = f[Len(s)]
<1> DEFINE Good == {m \in Nat : m <= Len(s) => \E f : SelectsTo(f, s, K, m)}
<1>1. 0 \in Good
  <2>1. SelectsTo([n \in 0..0 |-> <<>>], s, K, 0)
    BY DEF SelectsTo
  <2> QED
    BY <2>1
<1>2. ASSUME NEW m \in Nat, m \in Good PROVE m + 1 \in Good
  <2>1. ASSUME m + 1 <= Len(s) PROVE \E f : SelectsTo(f, s, K, m + 1)
    <3>1. PICK f : SelectsTo(f, s, K, m)
      BY <1>2, <2>1
    <3> DEFINE more == IF m + 1 \in K THEN Append(f[m], s[m + 1]) ELSE f[m]
               g == [n \in 0..(m + 1) |-> IF n = m + 1 THEN more ELSE f[n]]
    <3>2. s[m + 1] \in Entry /\ f[m] \in Seq(Entry)
      BY <2>1, <3>1 DEF SelectsTo
    <3>3. more \in Seq(Entry)
      BY <3>2
    <3> HIDE DEF more
    <3>4. g \in [0..(m + 1) -> Seq(Entry)] /\ g[0] = <<>>
      BY <3>1, <3>3 DEF SelectsTo
    <3>5. ASSUME NEW n \in 1..(m + 1)
          PROVE  g[n] = IF n \in K THEN Append(g[n - 1], s[n]) ELSE g[n - 1]
      <4>1. CASE n = m + 1
        BY <4>1 DEF more
      <4>2. CASE n # m + 1
        BY <3>1, <4>2 DEF SelectsTo
      <4> QED
        BY <4>1, <4>2
    <3>6. SelectsTo(g, s, K, m + 1)
      BY <3>4, <3>5 DEF SelectsTo
    <3> QED
      BY <3>6
  <2> QED
    BY <2>1
<1> HIDE DEF Good
<1>3. Len(s) \in Good
  BY <1>1, <1>2, NatInductionOnSets
<1>4. PICK f : SelectsTo(f, s, K, Len(s))
  BY <1>3 DEF Good
<1> DEFINE of == CHOOSE h : h = [n \in 0..Len(s) |->
                   IF n = 0 THEN <<>>
                   ELSE IF n \in K THEN Append(h[n - 1], s[n]) ELSE h[n - 1]]
<1>5. f = [n \in 0..Len(s) |->
             IF n = 0 THEN <<>> ELSE IF n \in K THEN Append(f[n - 1], s[n]) ELSE f[n - 1]]
  <2>1. f = [n \in 0..Len(s) |-> f[n]]
    BY <1>4 DEF SelectsTo
  <2>2. \A n \in 0..Len(s) : f[n] = IF n = 0 THEN <<>> ELSE
                                IF n \in K THEN Append(f[n - 1], s[n]) ELSE f[n - 1]
    <3>1. \A n \in 0..Len(s) : n = 0 \/ n \in 1..Len(s)
      OBVIOUS
    <3> QED
      BY <1>4, <3>1 DEF SelectsTo
  <2> QED
    BY <2>1, <2>2
<1>6. of = [n \in 0..Len(s) |->
              IF n = 0 THEN <<>> ELSE IF n \in K THEN Append(of[n - 1], s[n]) ELSE of[n - 1]]
  BY <1>5
<1>7. Selected(s, K) = of[Len(s)]
  BY DEF Selected
<1> HIDE DEF of
<1> DEFINE Same == {m \in Nat : m <= Len(s) => f[m] = of[m]}
<1>8. 0 \in Same
  BY <1>4, <1>6 DEF SelectsTo
<1>9. ASSUME NEW m \in Nat, m \in Same PROVE m + 1 \in Same
  <2>1. ASSUME m + 1 <= Len(s) PROVE f[m + 1] = of[m + 1]
    <3>1. m + 1 \in 1..Len(s) /\ m + 1 \in 0..Len(s) /\ (m + 1) - 1 = m /\ m + 1 # 0
      BY <2>1
    <3>2. f[m + 1] = IF m + 1 \in K THEN Append(f[m], s[m + 1]) ELSE f[m]
      BY <1>4, <3>1 DEF SelectsTo
    <3>3. of[m + 1] = IF m + 1 \in K THEN Append(of[m], s[m + 1]) ELSE of[m]
      BY <1>6, <3>1
    <3>4. f[m] = of[m]
      BY <1>9, <2>1
    <3> QED
      BY <3>2, <3>3, <3>4
  <2> QED
    BY <2>1
<1> HIDE DEF Same
<1>10. Len(s) \in Same
  BY <1>8, <1>9, NatInductionOnSets
<1> QED
  BY <1>4, <1>7, <1>10 DEF Same

\* g lists the indices of K up to n in order.
Lists(g, k, K, n) ==
    /\ g \in [1..k -> 1..n]
    /\ \A i, j \in 1..k : i < j => g[i] < g[j]
    /\ \A j \in 1..k : g[j] \in K
    /\ \A i \in 1..n : i \in K => \E j \in 1..k : g[j] = i

\* The entries of Selected are those of s at the indices of K, in their order.
LEMMA SelectedIndices ==
    ASSUME NEW s \in Seq(Entry), NEW K
    PROVE  /\ Selected(s, K) \in Seq(Entry)
           /\ \E g : /\ Lists(g, Len(Selected(s, K)), K, Len(s))
                     /\ \A j \in 1..Len(Selected(s, K)) : Selected(s, K)[j] = s[g[j]]
<1>1. PICK f : SelectsTo(f, s, K, Len(s)) /\ Selected(s, K) = f[Len(s)]
  BY SelectedPrefixes
<1> DEFINE Good == {m \in Nat : m <= Len(s) =>
                      \E g : /\ Lists(g, Len(f[m]), K, m)
                             /\ \A j \in 1..Len(f[m]) : f[m][j] = s[g[j]]}
<1>2. 0 \in Good
  <2>1. f[0] = <<>> /\ Len(f[0]) = 0
    BY <1>1 DEF SelectsTo
  <2>2. Lists(<<>>, 0, K, 0)
    BY DEF Lists
  <2> QED
    BY <2>1, <2>2
<1>3. ASSUME NEW m \in Nat, m \in Good PROVE m + 1 \in Good
  <2>1. ASSUME m + 1 <= Len(s)
        PROVE  \E g : /\ Lists(g, Len(f[m + 1]), K, m + 1)
                      /\ \A j \in 1..Len(f[m + 1]) : f[m + 1][j] = s[g[j]]
    <3>1. PICK g : Lists(g, Len(f[m]), K, m) /\ \A j \in 1..Len(f[m]) : f[m][j] = s[g[j]]
      BY <1>3, <2>1
    <3>2. f[m] \in Seq(Entry) /\ s[m + 1] \in Entry
      BY <1>1, <2>1 DEF SelectsTo
    <3>a. f[m + 1] = IF m + 1 \in K THEN Append(f[m], s[m + 1]) ELSE f[m]
      <4>1. m + 1 \in 1..Len(s) /\ (m + 1) - 1 = m
        BY <2>1
      <4> QED
        BY <1>1, <4>1 DEF SelectsTo
    <3>3. CASE m + 1 \notin K
      <4>1. f[m + 1] = f[m]
        BY <3>3, <3>a
      <4>2. \A i \in 1..(m + 1) : i \in K => i \in 1..m
        BY <3>3
      <4>3. 1..m \subseteq 1..(m + 1)
        OBVIOUS
      <4>4. Lists(g, Len(f[m]), K, m + 1)
        BY <3>1, <4>2, <4>3 DEF Lists
      <4> QED
        BY <3>1, <4>1, <4>4
    <3>4. CASE m + 1 \in K
      <4> DEFINE k == Len(f[m])
                 h == [j \in 1..(k + 1) |-> IF j = k + 1 THEN m + 1 ELSE g[j]]
      <4>1. f[m + 1] = Append(f[m], s[m + 1])
        BY <3>4, <3>a
      <4>2. /\ Len(f[m + 1]) = k + 1 /\ f[m + 1][k + 1] = s[m + 1]
            /\ \A j \in 1..k : f[m + 1][j] = f[m][j]
        BY <3>2, <4>1
      <4>3. k \in Nat
        BY <3>2
      <4> HIDE DEF k
      <4>4. g \in [1..k -> 1..m] /\ \A i, j \in 1..k : i < j => g[i] < g[j]
        BY <3>1 DEF Lists, k
      <4>5. h \in [1..(k + 1) -> 1..(m + 1)]
        BY <4>3, <4>4
      <4>6. \A i, j \in 1..(k + 1) : i < j => h[i] < h[j]
        BY <4>3, <4>4
      <4>7. \A j \in 1..(k + 1) : h[j] \in K
        BY <3>1, <3>4, <4>3 DEF Lists, k
      <4>8. ASSUME NEW i \in 1..(m + 1), i \in K PROVE \E j \in 1..(k + 1) : h[j] = i
        <5>1. CASE i = m + 1
          BY <4>3, <5>1
        <5>2. CASE i # m + 1
          <6>1. i \in 1..m
            BY <5>2
          <6>2. PICK j \in 1..k : g[j] = i
            BY <3>1, <4>8, <6>1 DEF Lists, k
          <6>3. j \in 1..(k + 1) /\ h[j] = i
            BY <4>3, <6>2
          <6> QED
            BY <6>3
        <5> QED
          BY <5>1, <5>2
      <4>9. Lists(h, k + 1, K, m + 1)
        BY <4>5, <4>6, <4>7, <4>8 DEF Lists
      <4>10. \A j \in 1..(k + 1) : f[m + 1][j] = s[h[j]]
        BY <3>1, <4>2, <4>3 DEF k
      <4> QED
        BY <4>2, <4>9, <4>10
    <3> QED
      BY <3>3, <3>4
  <2> QED
    BY <2>1
<1> HIDE DEF Good
<1>4. Len(s) \in Good
  BY <1>2, <1>3, NatInductionOnSets
<1> QED
  BY <1>1, <1>4 DEF Good, SelectsTo

\* One more entry adds its size.
LEMMA BytesAppend ==
    ASSUME NEW s \in Seq(Entry), NEW e \in Entry
    PROVE  Bytes(Append(s, e)) = Bytes(s) + e.bytes
<1>1. Append(s, e) = s \o <<e>> /\ <<e>> \in Seq(Entry)
  OBVIOUS
<1> QED
  BY <1>1, BytesConcat, BytesType

\* A selection and its complement share out the number and the size of the
\* entries.
LEMMA SelectedSplit ==
    ASSUME NEW s \in Seq(Entry), NEW K, NEW L,
           \A i \in 1..Len(s) : i \in K <=> i \notin L
    PROVE  /\ Len(Selected(s, K)) + Len(Selected(s, L)) = Len(s)
           /\ Bytes(Selected(s, K)) + Bytes(Selected(s, L)) = Bytes(s)
<1>1. PICK f : SelectsTo(f, s, K, Len(s)) /\ Selected(s, K) = f[Len(s)]
  BY SelectedPrefixes
<1>2. PICK g : SelectsTo(g, s, L, Len(s)) /\ Selected(s, L) = g[Len(s)]
  BY SelectedPrefixes
<1>3. PICK h : Sums(h, s)
  BY SumsExist
<1> DEFINE Shared(m) == Len(f[m]) + Len(g[m]) = m /\ Bytes(f[m]) + Bytes(g[m]) = h[m]
           Good == {m \in Nat : m <= Len(s) => Shared(m)}
<1>4. 0 \in Good
  <2>1. f[0] = <<>> /\ g[0] = <<>> /\ h[0] = 0
    BY <1>1, <1>2, <1>3 DEF SelectsTo, Sums, SumsTo
  <2>2. Bytes(f[0]) = 0 /\ Bytes(g[0]) = 0 /\ Len(f[0]) = 0 /\ Len(g[0]) = 0
    BY <2>1, BytesType
  <2>3. Shared(0)
    BY <2>1, <2>2
  <2> HIDE DEF Shared
  <2> QED
    BY <2>3
<1>5. ASSUME NEW m \in Nat, m \in Good PROVE m + 1 \in Good
  <2> HIDE DEF Shared
  <2>1. ASSUME m + 1 <= Len(s) PROVE Shared(m + 1)
    <3>1. m + 1 \in 1..Len(s) /\ (m + 1) - 1 = m /\ m \in 0..Len(s)
      BY <2>1
    <3>2. f[m + 1] = IF m + 1 \in K THEN Append(f[m], s[m + 1]) ELSE f[m]
      BY <1>1, <3>1 DEF SelectsTo
    <3>3. g[m + 1] = IF m + 1 \in L THEN Append(g[m], s[m + 1]) ELSE g[m]
      BY <1>2, <3>1 DEF SelectsTo
    <3>4. h[m + 1] = h[m] + s[m + 1].bytes
      BY <1>3, <3>1 DEF Sums, SumsTo
    <3>5. f[m] \in Seq(Entry) /\ g[m] \in Seq(Entry) /\ s[m + 1] \in Entry
      BY <1>1, <1>2, <3>1 DEF SelectsTo
    <3>6. s[m + 1].bytes \in Nat
      BY <3>5 DEF Entry
    <3>7. Bytes(f[m]) \in Nat /\ Bytes(g[m]) \in Nat
      BY <3>5, BytesType
    <3>a. Shared(m)
      BY <1>5, <2>1
    <3>8. Len(f[m]) + Len(g[m]) = m /\ Bytes(f[m]) + Bytes(g[m]) = h[m]
      BY <3>a DEF Shared
    <3>9. CASE m + 1 \in K
      <4>1. f[m + 1] = Append(f[m], s[m + 1]) /\ g[m + 1] = g[m]
        BY <3>1, <3>2, <3>3, <3>9
      <4>2. Len(f[m + 1]) = Len(f[m]) + 1 /\ Len(g[m + 1]) = Len(g[m])
        BY <3>5, <4>1
      <4>3. Bytes(f[m + 1]) = Bytes(f[m]) + s[m + 1].bytes /\ Bytes(g[m + 1]) = Bytes(g[m])
        BY <3>5, <4>1, BytesAppend
      <4>4. Len(f[m + 1]) + Len(g[m + 1]) = m + 1
        <5>1. PICK k \in Nat : k = Len(f[m])
          BY <3>5
        <5>2. PICK l \in Nat : l = Len(g[m])
          BY <3>5
        <5>3. k + l = m
          BY <3>8, <5>1, <5>2
        <5>4. Len(f[m + 1]) = k + 1 /\ Len(g[m + 1]) = l
          BY <4>2, <5>1, <5>2
        <5> QED
          BY <5>3, <5>4
      <4>5. Bytes(f[m + 1]) + Bytes(g[m + 1]) = h[m + 1]
        BY <3>4, <3>6, <3>7, <3>8, <4>3
      <4> QED
        BY <4>4, <4>5 DEF Shared
    <3>10. CASE m + 1 \notin K
      <4>1. f[m + 1] = f[m] /\ g[m + 1] = Append(g[m], s[m + 1])
        BY <3>1, <3>2, <3>3, <3>10
      <4>2. Len(g[m + 1]) = Len(g[m]) + 1 /\ Len(f[m + 1]) = Len(f[m])
        BY <3>5, <4>1
      <4>3. Bytes(g[m + 1]) = Bytes(g[m]) + s[m + 1].bytes /\ Bytes(f[m + 1]) = Bytes(f[m])
        BY <3>5, <4>1, BytesAppend
      <4>4. Len(f[m + 1]) + Len(g[m + 1]) = m + 1
        <5>1. PICK k \in Nat : k = Len(f[m])
          BY <3>5
        <5>2. PICK l \in Nat : l = Len(g[m])
          BY <3>5
        <5>3. k + l = m
          BY <3>8, <5>1, <5>2
        <5>4. Len(f[m + 1]) = k /\ Len(g[m + 1]) = l + 1
          BY <4>2, <5>1, <5>2
        <5> QED
          BY <5>3, <5>4
      <4>5. Bytes(f[m + 1]) + Bytes(g[m + 1]) = h[m + 1]
        BY <3>4, <3>6, <3>7, <3>8, <4>3
      <4> QED
        BY <4>4, <4>5 DEF Shared
    <3> QED
      BY <3>9, <3>10
  <2> QED
    BY <2>1
<1> HIDE DEF Good, Shared
<1>6. Len(s) \in Good
  BY <1>4, <1>5, NatInductionOnSets
<1>7. Bytes(s) = h[Len(s)]
  BY <1>3, BytesOfSums
<1>8. Shared(Len(s))
  BY <1>6 DEF Good
<1> QED
  BY <1>1, <1>2, <1>7, <1>8 DEF Shared

\* The inputs of s are in the order in which they were offered.
Ascending(s) == \A i, j \in 1..Len(s) : i < j => s[i].input < s[j].input

\* A selection has the entries it should have, in their order.
LEMMA SelectedFacts ==
    ASSUME NEW s \in Seq(Entry), NEW K
    PROVE  /\ Selected(s, K) \in Seq(Entry)
           /\ \A j \in 1..Len(Selected(s, K)) :
                \E i \in 1..Len(s) : i \in K /\ Selected(s, K)[j] = s[i]
           /\ \A i \in 1..Len(s) : i \in K =>
                \E j \in 1..Len(Selected(s, K)) : Selected(s, K)[j] = s[i]
           /\ Ascending(s) => Ascending(Selected(s, K))
<1>1. PICK g : /\ Lists(g, Len(Selected(s, K)), K, Len(s))
               /\ \A j \in 1..Len(Selected(s, K)) : Selected(s, K)[j] = s[g[j]]
  BY SelectedIndices
<1> DEFINE t == Selected(s, K)
<1>2. t \in Seq(Entry)
  BY SelectedIndices
<1> HIDE DEF t
<1>3. /\ g \in [1..Len(t) -> 1..Len(s)]
      /\ \A i, j \in 1..Len(t) : i < j => g[i] < g[j]
      /\ \A j \in 1..Len(t) : g[j] \in K
      /\ \A i \in 1..Len(s) : i \in K => \E j \in 1..Len(t) : g[j] = i
      /\ \A j \in 1..Len(t) : t[j] = s[g[j]]
  BY <1>1 DEF Lists, t
<1>4. \A j \in 1..Len(t) : \E i \in 1..Len(s) : i \in K /\ t[j] = s[i]
  BY <1>3
<1>5. \A i \in 1..Len(s) : i \in K => \E j \in 1..Len(t) : t[j] = s[i]
  BY <1>3
<1>6. ASSUME Ascending(s), NEW i \in 1..Len(t), NEW j \in 1..Len(t), i < j
      PROVE  t[i].input < t[j].input
  <2>1. g[i] \in 1..Len(s) /\ g[j] \in 1..Len(s) /\ g[i] < g[j]
    BY <1>3, <1>6
  <2>2. s[g[i]].input < s[g[j]].input
    BY <1>6, <2>1 DEF Ascending
  <2> QED
    BY <1>3, <2>2
<1>7. Ascending(s) => Ascending(t)
  BY <1>6 DEF Ascending
<1> QED
  BY <1>2, <1>4, <1>5, <1>7 DEF t

\* At most one entry of s has the kind.
AtMostOne(s, kind) == \A i, j \in 1..Len(s) : s[i].kind = kind /\ s[j].kind = kind => i = j

\* OneSnapshot counts with OfKind what AtMostOne says.
LEMMA AtMostOneCounted ==
    ASSUME NEW s \in Seq(Entry), NEW kind
    PROVE  AtMostOne(s, kind) <=> Len(OfKind(s, kind)) <= 1
<1> DEFINE K == {i \in 1..Len(s) : s[i].kind = kind}
<1>1. PICK g : Lists(g, Len(Selected(s, K)), K, Len(s))
  BY SelectedIndices
<1> DEFINE n == Len(OfKind(s, kind))
<1>2. n \in Nat /\ n = Len(Selected(s, K))
  BY SelectedIndices DEF OfKind
<1> HIDE DEF n
<1>3. /\ g \in [1..n -> 1..Len(s)]
      /\ \A i, j \in 1..n : i < j => g[i] < g[j]
      /\ \A j \in 1..n : s[g[j]].kind = kind
      /\ \A i \in 1..Len(s) : s[i].kind = kind => \E j \in 1..n : g[j] = i
  BY <1>1, <1>2 DEF Lists
<1>4. ASSUME AtMostOne(s, kind), n > 1 PROVE FALSE
  <2>1. 1 \in 1..n /\ 2 \in 1..n
    BY <1>2, <1>4
  <2>2. g[1] < g[2] /\ g[1] \in 1..Len(s) /\ g[2] \in 1..Len(s)
    BY <1>3, <2>1
  <2>3. g[1] = g[2]
    BY <1>3, <1>4, <2>1, <2>2 DEF AtMostOne
  <2> QED
    BY <2>2, <2>3
<1>5. ASSUME n <= 1 PROVE AtMostOne(s, kind)
  <2>1. \A i, j \in 1..n : i = j
    BY <1>2, <1>5
  <2> QED
    BY <1>3, <2>1 DEF AtMostOne
<1>6. AtMostOne(s, kind) <=> n <= 1
  BY <1>2, <1>4, <1>5
<1> QED
  BY <1>6 DEF n

\* What is in s \o t.
LEMMA ConcatFacts ==
    ASSUME NEW s \in Seq(Entry), NEW t \in Seq(Entry)
    PROVE  /\ s \o t \in Seq(Entry)
           /\ Len(s \o t) = Len(s) + Len(t)
           /\ \A i \in 1..Len(s \o t) :
                \/ i \in 1..Len(s) /\ (s \o t)[i] = s[i]
                \/ i - Len(s) \in 1..Len(t) /\ (s \o t)[i] = t[i - Len(s)]
           /\ \A i \in 1..Len(s) : i \in 1..Len(s \o t) /\ (s \o t)[i] = s[i]
           /\ \A j \in 1..Len(t) : Len(s) + j \in 1..Len(s \o t) /\ (s \o t)[Len(s) + j] = t[j]
OBVIOUS

\* The inputs in s \o t,
LEMMA ConcatIds ==
    ASSUME NEW s \in Seq(Entry), NEW t \in Seq(Entry)
    PROVE  Ids(s \o t) = Ids(s) \cup Ids(t)
<1>1. ASSUME NEW x \in Ids(s \o t) PROVE x \in Ids(s) \cup Ids(t)
  <2>1. PICK i \in 1..Len(s \o t) : x = (s \o t)[i].input
    BY <1>1 DEF Ids
  <2>2. CASE i \in 1..Len(s) /\ (s \o t)[i] = s[i]
    BY <2>1, <2>2 DEF Ids
  <2>3. CASE i - Len(s) \in 1..Len(t) /\ (s \o t)[i] = t[i - Len(s)]
    BY <2>1, <2>3 DEF Ids
  <2> QED
    BY <2>2, <2>3, ConcatFacts
<1>2. ASSUME NEW x \in Ids(s) PROVE x \in Ids(s \o t)
  <2>1. PICK i \in 1..Len(s) : x = s[i].input
    BY <1>2 DEF Ids
  <2>2. i \in 1..Len(s \o t) /\ (s \o t)[i] = s[i]
    BY ConcatFacts
  <2> QED
    BY <2>1, <2>2 DEF Ids
<1>3. ASSUME NEW x \in Ids(t) PROVE x \in Ids(s \o t)
  <2>1. PICK j \in 1..Len(t) : x = t[j].input
    BY <1>3 DEF Ids
  <2>2. Len(s) + j \in 1..Len(s \o t) /\ (s \o t)[Len(s) + j] = t[j]
    BY ConcatFacts
  <2> QED
    BY <2>1, <2>2 DEF Ids
<1> QED
  BY <1>1, <1>2, <1>3

\* their order,
LEMMA ConcatAscending ==
    ASSUME NEW s \in Seq(Entry), NEW t \in Seq(Entry),
           Ascending(s), Ascending(t), \A x \in Ids(s), y \in Ids(t) : x < y
    PROVE  Ascending(s \o t)
<1> SUFFICES ASSUME NEW i \in 1..Len(s \o t), NEW j \in 1..Len(s \o t), i < j
             PROVE  (s \o t)[i].input < (s \o t)[j].input
  BY DEF Ascending
<1>1. CASE j \in 1..Len(s)
  <2>1. i \in 1..Len(s) /\ (s \o t)[i] = s[i] /\ (s \o t)[j] = s[j]
    BY <1>1, ConcatFacts
  <2> QED
    BY <2>1, <1>1 DEF Ascending
<1>2. CASE j \notin 1..Len(s) /\ i \in 1..Len(s)
  <2>1. j - Len(s) \in 1..Len(t) /\ (s \o t)[j] = t[j - Len(s)] /\ (s \o t)[i] = s[i]
    BY <1>2, ConcatFacts
  <2>2. s[i].input \in Ids(s) /\ t[j - Len(s)].input \in Ids(t)
    BY <1>2, <2>1 DEF Ids
  <2> QED
    BY <2>1, <2>2
<1>3. CASE j \notin 1..Len(s) /\ i \notin 1..Len(s)
  <2>1. /\ j - Len(s) \in 1..Len(t) /\ (s \o t)[j] = t[j - Len(s)]
        /\ i - Len(s) \in 1..Len(t) /\ (s \o t)[i] = t[i - Len(s)]
    BY <1>3, ConcatFacts
  <2>2. i - Len(s) < j - Len(s)
    OBVIOUS
  <2> QED
    BY <2>1, <2>2 DEF Ascending
<1> QED
  BY <1>1, <1>2, <1>3

\* and how often a kind occurs.
LEMMA ConcatAtMostOne ==
    ASSUME NEW s \in Seq(Entry), NEW t \in Seq(Entry), NEW kind,
           AtMostOne(s, kind), AtMostOne(t, kind),
           \/ \A i \in 1..Len(s) : s[i].kind # kind
           \/ \A i \in 1..Len(t) : t[i].kind # kind
    PROVE  AtMostOne(s \o t, kind)
<1> SUFFICES ASSUME NEW i \in 1..Len(s \o t), NEW j \in 1..Len(s \o t),
                    (s \o t)[i].kind = kind, (s \o t)[j].kind = kind
             PROVE  i = j
  BY DEF AtMostOne
<1>1. CASE i \in 1..Len(s) /\ j \in 1..Len(s)
  BY <1>1, ConcatFacts DEF AtMostOne
<1>2. CASE i \notin 1..Len(s) /\ j \notin 1..Len(s)
  <2>1. /\ j - Len(s) \in 1..Len(t) /\ (s \o t)[j] = t[j - Len(s)]
        /\ i - Len(s) \in 1..Len(t) /\ (s \o t)[i] = t[i - Len(s)]
    BY <1>2, ConcatFacts
  <2>2. i - Len(s) = j - Len(s)
    BY <2>1 DEF AtMostOne
  <2> QED
    BY <2>2
<1>3. CASE (i \in 1..Len(s)) # (j \in 1..Len(s))
  BY <1>3, ConcatFacts
<1> QED
  BY <1>1, <1>2, <1>3

\* The inputs of a sequence of entries are numbers.
LEMMA IdsType ==
    ASSUME NEW s \in Seq(Entry)
    PROVE  \A x \in Ids(s) : x \in Nat
<1> SUFFICES ASSUME NEW x \in Ids(s) PROVE x \in Nat
  OBVIOUS
<1>1. PICK i \in 1..Len(s) : s[i].input = x
  BY DEF Ids
<1>2. s[i] \in Entry
  OBVIOUS
<1> QED
  BY <1>1, <1>2 DEF Entry

\* A part of a sequence has some of its inputs.
LEMMA IdsPart ==
    ASSUME NEW s, NEW t, \A j \in 1..Len(t) : \E i \in 1..Len(s) : t[j] = s[i]
    PROVE  Ids(t) \subseteq Ids(s)
<1> SUFFICES ASSUME NEW x \in Ids(t) PROVE x \in Ids(s)
  OBVIOUS
<1>1. PICK j \in 1..Len(t) : t[j].input = x
  BY DEF Ids
<1>2. PICK i \in 1..Len(s) : t[j] = s[i]
  OBVIOUS
<1> QED
  BY <1>1, <1>2 DEF Ids

=============================================================================
