--------------------------- MODULE ChatQueueProofs ---------------------------
(***************************************************************************)
(* Proofs about ChatQueue for any number of messages, peers, pumps and     *)
(* failures.  The queue is a sequence of any length, shared by tasks that  *)
(* take from it, filter it and save it, so the first part is about what    *)
(* remove, retain and push leave of a sequence, by induction on its        *)
(* length.                                                                 *)
(***************************************************************************)
EXTENDS ChatQueue, WellFoundedInduction, FiniteSetTheorems, SequenceTheorems, TLAPS

-----------------------------------------------------------------------------
(* The queue as a sequence.                                                *)

\* Induction on the natural numbers, for a set.
LEMMA Induct ==
    ASSUME NEW S, 0 \in S, \A n \in Nat : n \in S => n + 1 \in S
    PROVE  Nat \subseteq S
<1> SUFFICES ASSUME Nat \ S # {} PROVE FALSE
  OBVIOUS
<1>1. PICK x \in Nat \ S : \A y \in Nat \ S : ~ (<<y, x>> \in OpToRel(<, Nat))
  BY WFMin, NatLessThanWellFounded, Zenon
<1>2. \A y \in Nat : y < x => y \in S
  BY <1>1, Zenon DEF OpToRel
<1>3. x \in Nat /\ x # 0
  BY <1>1
<1>4. x - 1 \in Nat /\ x - 1 < x /\ (x - 1) + 1 = x
  BY <1>3
<1>5. x - 1 \in S
  BY <1>2, <1>4
<1>6. (x - 1) + 1 \in S
  BY <1>4, <1>5
<1> QED  BY <1>1, <1>4, <1>6

\* r has what q has at the positions of K, each once.
Picks(q, r, K) ==
    \E n \in Nat : \E g \in [1 .. n -> K] :
        /\ r = [i \in 1 .. n |-> q[g[i]]]
        /\ \A i, j \in 1 .. n : g[i] = g[j] => i = j
        /\ \A k \in K : \E i \in 1 .. n : g[i] = k

\* Seen as elements: each of K is there, nothing else is, and two come from two.
Selection(q, r, K) ==
    /\ \A k \in K : \E i \in DOMAIN r : r[i] = q[k]
    /\ \A i \in DOMAIN r : \E k \in K : r[i] = q[k]
    /\ \A i, j \in DOMAIN r : i # j => \E k, l \in K : k # l /\ r[i] = q[k] /\ r[j] = q[l]

LEMMA PicksKeep ==
    ASSUME NEW T, NEW q \in Seq(T), NEW K \in SUBSET DOMAIN q, NEW r, Picks(q, r, K)
    PROVE  r \in Seq(T) /\ Selection(q, r, K)
<1>0. PICK n \in Nat : \E g \in [1 .. n -> K] :
        /\ r = [i \in 1 .. n |-> q[g[i]]]
        /\ \A i, j \in 1 .. n : g[i] = g[j] => i = j
        /\ \A k \in K : \E i \in 1 .. n : g[i] = k
  BY DEF Picks
<1>1. PICK g \in [1 .. n -> K] :
        /\ r = [i \in 1 .. n |-> q[g[i]]]
        /\ \A i, j \in 1 .. n : g[i] = g[j] => i = j
        /\ \A k \in K : \E i \in 1 .. n : g[i] = k
  BY <1>0
<1>2. \A k \in K : q[k] \in T
  OBVIOUS
<1>3. r \in [1 .. n -> T]
  BY <1>1, <1>2
<1>4. r \in Seq(T) /\ DOMAIN r = 1 .. n
  BY <1>3
<1>5. \A i \in 1 .. n : r[i] = q[g[i]] /\ g[i] \in K
  BY <1>1
<1>6. \A k \in K : \E i \in DOMAIN r : r[i] = q[k]
  BY <1>1, <1>4, <1>5
<1>7. \A i \in DOMAIN r : \E k \in K : r[i] = q[k]
  BY <1>4, <1>5
<1>8. ASSUME NEW i \in DOMAIN r, NEW j \in DOMAIN r, i # j
      PROVE  \E k, l \in K : k # l /\ r[i] = q[k] /\ r[j] = q[l]
  <2>1. g[i] \in K /\ g[j] \in K /\ g[i] # g[j] /\ r[i] = q[g[i]] /\ r[j] = q[g[j]]
    BY <1>1, <1>4, <1>5, <1>8
  <2> QED  BY <2>1
<1> QED  BY <1>4, <1>6, <1>7, <1>8 DEF Selection

\* remove(position): all but one.
LEMMA WithoutIs ==
    ASSUME NEW T, NEW q \in Seq(T), NEW i \in DOMAIN q
    PROVE  Picks(q, Without(q, i), DOMAIN q \ {i})
<1>1. /\ Len(q) \in Nat /\ DOMAIN q = 1 .. Len(q) /\ i \in 1 .. Len(q) /\ i \in Int
      /\ \A j \in 1 .. Len(q) : q[j] \in T
  OBVIOUS
<1> DEFINE l == SubSeq(q, 1, i - 1)  r == SubSeq(q, i + 1, Len(q))
           n == Len(q) - 1
           g == [j \in 1 .. n |-> IF j < i THEN j ELSE j + 1]
<1>2. l \in Seq(T) /\ Len(l) = i - 1 /\ \A j \in 1 .. i - 1 : l[j] = q[j]
  <2>1. 1 \in Int /\ i - 1 \in Int /\ \A j \in 1 .. i - 1 : q[j] \in T
    BY <1>1
  <2>2. /\ l \in Seq(T) /\ Len(l) = IF 1 <= i - 1 THEN (i - 1) - 1 + 1 ELSE 0
        /\ \A j \in 1 .. (i - 1) - 1 + 1 : l[j] = q[1 + j - 1]
    BY <2>1, SubSeqProperties
  <2> HIDE DEF l
  <2> QED  BY <1>1, <2>2
<1>3. r \in Seq(T) /\ Len(r) = Len(q) - i /\ \A j \in 1 .. Len(q) - i : r[j] = q[j + i]
  <2>1. i + 1 \in Int /\ Len(q) \in Int /\ \A j \in i + 1 .. Len(q) : q[j] \in T
    BY <1>1
  <2>2. /\ r \in Seq(T) /\ Len(r) = IF i + 1 <= Len(q) THEN Len(q) - (i + 1) + 1 ELSE 0
        /\ \A j \in 1 .. Len(q) - (i + 1) + 1 : r[j] = q[(i + 1) + j - 1]
    BY <2>1, SubSeqProperties
  <2> HIDE DEF r
  <2>3. Len(r) = Len(q) - i /\ Len(q) - (i + 1) + 1 = Len(q) - i
    BY <1>1, <2>2
  <2>4. ASSUME NEW j \in 1 .. Len(q) - i PROVE r[j] = q[j + i]
    <3>1. j \in 1 .. Len(q) - (i + 1) + 1 /\ (i + 1) + j - 1 = j + i
      BY <1>1
    <3>2. r[j] = q[(i + 1) + j - 1]
      BY <2>2, <3>1
    <3> QED  BY <3>1, <3>2
  <2> QED  BY <2>2, <2>3, <2>4
<1>4. Without(q, i) = l \o r
  BY DEF Without
<1> HIDE DEF l, r
<1>5. /\ l \o r \in Seq(T) /\ Len(l \o r) = Len(l) + Len(r)
      /\ \A j \in 1 .. Len(l) + Len(r) :
            (l \o r)[j] = IF j <= Len(l) THEN l[j] ELSE r[j - Len(l)]
  BY <1>2, <1>3, ConcatProperties
<1>6. Len(l) + Len(r) = n /\ n \in Nat
  BY <1>1, <1>2, <1>3
<1>7. \A j \in 1 .. n : (l \o r)[j] = q[g[j]]
  <2> TAKE j \in 1 .. n
  <2>1. j \in 1 .. Len(l) + Len(r)
    BY <1>6
  <2>2. CASE j < i
    <3>1. j <= Len(l) /\ j \in 1 .. i - 1 /\ g[j] = j
      BY <1>1, <1>2, <2>2
    <3> HIDE DEF g
    <3> QED  BY <1>2, <1>5, <2>1, <3>1
  <2>3. CASE ~(j < i)
    <3>1. /\ ~(j <= Len(l)) /\ j - Len(l) \in 1 .. Len(q) - i /\ g[j] = j + 1
          /\ (j - Len(l)) + i = j + 1
      BY <1>1, <1>2, <2>3
    <3> HIDE DEF g
    <3>2. r[j - Len(l)] = q[(j - Len(l)) + i]
      BY <1>3, <3>1
    <3> QED  BY <1>5, <2>1, <3>1, <3>2
  <2> QED  BY <2>2, <2>3
<1>8. l \o r = [j \in 1 .. n |-> q[g[j]]]
  <2> HIDE DEF n, g
  <2>1. l \o r \in [1 .. n -> T]
    BY <1>5, <1>6, LenProperties
  <2> QED  BY <1>7, <2>1
<1>9. g \in [1 .. n -> DOMAIN q \ {i}]
  BY <1>1
<1>10. \A j, k \in 1 .. n : g[j] = g[k] => j = k
  BY <1>1
<1>11. \A k \in DOMAIN q \ {i} : \E j \in 1 .. n : g[j] = k
  <2> TAKE k \in DOMAIN q \ {i}
  <2>1. CASE k < i
    <3>1. k \in 1 .. n /\ g[k] = k
      BY <1>1, <2>1
    <3> QED  BY <3>1
  <2>2. CASE ~(k < i)
    <3>1. k - 1 \in 1 .. n /\ g[k - 1] = k
      BY <1>1, <2>2
    <3> QED  BY <3>1
  <2> QED  BY <2>1, <2>2
<1> DEFINE s == l \o r
<1> HIDE DEF n, g
<1>12. s = [j \in 1 .. n |-> q[g[j]]]
  BY <1>8
<1> HIDE DEF s
<1>13. \E h \in [1 .. n -> DOMAIN q \ {i}] :
          /\ s = [j \in 1 .. n |-> q[h[j]]]
          /\ \A j, k \in 1 .. n : h[j] = h[k] => j = k
          /\ \A k \in DOMAIN q \ {i} : \E j \in 1 .. n : h[j] = k
  BY <1>9, <1>10, <1>11, <1>12
<1>14. Picks(q, s, DOMAIN q \ {i})
  BY <1>6, <1>13 DEF Picks
<1> QED  BY <1>4, <1>14 DEF s

\* Retained is computed from the front: the copies up to n.
UpTo(q, S, f) ==
    f = [n \in 0 .. Len(q) |->
            IF n = 0 THEN <<>>
            ELSE IF q[n].msg \in S THEN Append(f[n - 1], q[n]) ELSE f[n - 1]]

\* The recursion defines something for every sequence.
LEMMA UpToExists ==
    ASSUME NEW T, NEW q \in Seq(T), NEW S
    PROVE  \E f : UpTo(q, S, f)
<1> DEFINE Step(m, x) == IF q[m].msg \in S THEN Append(x, q[m]) ELSE x
           Part(n) == {f \in [0 .. n -> Seq(T)] :
                          f[0] = <<>> /\ \A m \in 1 .. n : f[m] = Step(m, f[m - 1])}
           P == {n \in Nat : n <= Len(q) => Part(n) # {}}
<1>1. Len(q) \in Nat /\ \A m \in 1 .. Len(q) : q[m] \in T
  OBVIOUS
<1>2. 0 \in P
  <2>1. [m \in 0 .. 0 |-> <<>>] \in [0 .. 0 -> Seq(T)]
    OBVIOUS
  <2>2. [m \in 0 .. 0 |-> <<>>] \in Part(0)
    BY <2>1
  <2> QED  BY <2>2
<1>3. ASSUME NEW n \in Nat, n \in P PROVE n + 1 \in P
  <2> HIDE DEF Part, Step
  <2> SUFFICES ASSUME n + 1 <= Len(q) PROVE Part(n + 1) # {}
    OBVIOUS
  <2>1. PICK f \in Part(n) : TRUE
    BY <1>1, <1>3
  <2>2. f \in [0 .. n -> Seq(T)] /\ f[0] = <<>> /\ \A m \in 1 .. n : f[m] = Step(m, f[m - 1])
    BY <2>1 DEF Part
  <2>3. \A x \in Seq(T) : Step(n + 1, x) \in Seq(T)
    <3>1. q[n + 1] \in T
      BY <1>1
    <3> QED  BY <3>1, AppendProperties DEF Step
  <2> DEFINE h == [m \in 0 .. n + 1 |-> IF m <= n THEN f[m] ELSE Step(n + 1, f[n])]
  <2>4. h \in [0 .. n + 1 -> Seq(T)] /\ h[0] = <<>>
    BY <2>2, <2>3
  <2>5. ASSUME NEW m \in 1 .. n + 1 PROVE h[m] = Step(m, h[m - 1])
    <3>1. CASE m <= n
      <4>1. h[m] = f[m] /\ h[m - 1] = f[m - 1] /\ m \in 1 .. n
        BY <3>1
      <4> QED  BY <2>2, <4>1
    <3>2. CASE ~(m <= n)
      <4>1. m = n + 1
        BY <3>2
      <4>2. h[n + 1] = Step(n + 1, f[n]) /\ h[(n + 1) - 1] = f[n]
        OBVIOUS
      <4> QED  BY <4>1, <4>2
    <3> QED  BY <3>1, <3>2
  <2>6. h \in Part(n + 1)
    BY <2>4, <2>5 DEF Part
  <2> QED  BY <2>6
<1>4. Len(q) \in P
  <2> HIDE DEF P
  <2>1. Nat \subseteq P
    BY <1>2, <1>3, Induct
  <2> QED  BY <1>1, <2>1
<1>5. PICK f \in Part(Len(q)) : TRUE
  BY <1>1, <1>4
<1>6. f \in [0 .. Len(q) -> Seq(T)] /\ f[0] = <<>>
      /\ \A m \in 1 .. Len(q) : f[m] = IF q[m].msg \in S THEN Append(f[m - 1], q[m]) ELSE f[m - 1]
  BY <1>5
<1>7. \A m \in 0 .. Len(q) : f[m] = IF m = 0 THEN <<>>
          ELSE IF q[m].msg \in S THEN Append(f[m - 1], q[m]) ELSE f[m - 1]
  <2> TAKE m \in 0 .. Len(q)
  <2>1. CASE m = 0
    BY <1>6, <2>1
  <2>2. CASE m # 0
    <3>1. m \in 1 .. Len(q)
      BY <1>1, <2>2
    <3> QED  BY <1>6, <2>2, <3>1
  <2> QED  BY <2>1, <2>2
<1>8. UpTo(q, S, f)
  BY <1>6, <1>7 DEF UpTo
<1> QED  BY <1>8

LEMMA PicksOneMore ==
    ASSUME NEW T, NEW q \in Seq(T), NEW n \in Nat, NEW k \in 1 .. Len(q), n + 1 = k,
           NEW r, NEW K \in SUBSET (1 .. n), Picks(q, r, K), n <= Len(q)
    PROVE  Picks(q, Append(r, q[k]), K \cup {k})
<1>0. PICK m \in Nat : \E g \in [1 .. m -> K] :
        /\ r = [i \in 1 .. m |-> q[g[i]]]
        /\ \A i, j \in 1 .. m : g[i] = g[j] => i = j
        /\ \A l \in K : \E i \in 1 .. m : g[i] = l
  BY DEF Picks
<1>1. PICK g \in [1 .. m -> K] :
        /\ r = [i \in 1 .. m |-> q[g[i]]]
        /\ \A i, j \in 1 .. m : g[i] = g[j] => i = j
        /\ \A l \in K : \E i \in 1 .. m : g[i] = l
  BY <1>0
<1>2. r \in Seq(T) /\ q[k] \in T
  <2>1. Len(q) \in Nat /\ DOMAIN q = 1 .. Len(q)
    OBVIOUS
  <2>2. K \in SUBSET DOMAIN q
    BY <2>1
  <2>3. r \in Seq(T)
    BY <2>2, PicksKeep
  <2> QED  BY <2>3
<1>3. Len(r) = m
  <2>1. DOMAIN r = 1 .. m
    BY <1>1
  <2> QED  BY <1>2, <2>1, LenProperties
<1> DEFINE h == [i \in 1 .. m + 1 |-> IF i <= m THEN g[i] ELSE k]
           s == Append(r, q[k])
<1>4. s \in Seq(T) /\ Len(s) = m + 1 /\ \A i \in 1 .. m : s[i] = r[i]
  BY <1>2, <1>3, AppendProperties
<1>5. s[m + 1] = q[k]
  BY <1>2, <1>3, AppendProperties
<1>6. s \in [1 .. m + 1 -> T]
  BY <1>4, LenProperties
<1> HIDE DEF s
<1>7. \A i \in 1 .. m + 1 : s[i] = q[h[i]]
  <2> TAKE i \in 1 .. m + 1
  <2>1. CASE i <= m
    <3>1. i \in 1 .. m /\ h[i] = g[i]
      BY <2>1
    <3> QED  BY <1>1, <1>4, <3>1
  <2>2. CASE ~(i <= m)
    <3>1. i = m + 1 /\ h[i] = k
      BY <2>2
    <3> QED  BY <1>5, <3>1
  <2> QED  BY <2>1, <2>2
<1>8. h \in [1 .. m + 1 -> K \cup {k}]
  OBVIOUS
<1>9. ASSUME NEW i \in 1 .. m + 1, NEW j \in 1 .. m + 1, h[i] = h[j] PROVE i = j
  <2>1. k \notin K
    OBVIOUS
  <2>2. \A l \in 1 .. m : g[l] \in K
    OBVIOUS
  <2>3. CASE i <= m /\ j <= m
    BY <1>1, <1>9, <2>3
  <2>4. CASE ~(i <= m) /\ ~(j <= m)
    BY <2>4
  <2>5. CASE i <= m /\ ~(j <= m)
    BY <1>9, <2>1, <2>2, <2>5
  <2>6. CASE ~(i <= m) /\ j <= m
    BY <1>9, <2>1, <2>2, <2>6
  <2> QED  BY <2>3, <2>4, <2>5, <2>6
<1>10. ASSUME NEW l \in K \cup {k} PROVE \E i \in 1 .. m + 1 : h[i] = l
  <2>1. CASE l \in K
    <3>1. PICK i \in 1 .. m : g[i] = l
      BY <1>1, <2>1
    <3>2. i \in 1 .. m + 1 /\ h[i] = l
      BY <3>1
    <3> QED  BY <3>2
  <2>2. CASE l = k
    <3>1. m + 1 \in 1 .. m + 1 /\ h[m + 1] = k
      OBVIOUS
    <3> QED  BY <2>2, <3>1
  <2> QED  BY <2>1, <2>2
<1> HIDE DEF h
<1>11. s = [i \in 1 .. m + 1 |-> q[h[i]]]
  BY <1>6, <1>7
<1>12. \E f \in [1 .. m + 1 -> K \cup {k}] :
          /\ s = [i \in 1 .. m + 1 |-> q[f[i]]]
          /\ \A i, j \in 1 .. m + 1 : f[i] = f[j] => i = j
          /\ \A l \in K \cup {k} : \E i \in 1 .. m + 1 : f[i] = l
  BY <1>8, <1>9, <1>10, <1>11
<1>13. m + 1 \in Nat
  OBVIOUS
<1> QED  BY <1>12, <1>13 DEF Picks, s

\* retain: those of the messages in S, and no others.
LEMMA RetainedIs ==
    ASSUME NEW T, NEW q \in Seq(T), NEW S
    PROVE  Picks(q, Retained(q, S), {i \in DOMAIN q : q[i].msg \in S})
<1> DEFINE f == CHOOSE h : UpTo(q, S, h)
           K(n) == {i \in 1 .. n : q[i].msg \in S}
           P == {n \in Nat : n <= Len(q) => Picks(q, f[n], K(n))}
<1>1. UpTo(q, S, f)
  BY UpToExists
<1>2. Retained(q, S) = f[Len(q)]
  BY DEF Retained, UpTo
<1> HIDE DEF f
<1>3. /\ f[0] = <<>>
      /\ \A n \in 1 .. Len(q) : f[n] = IF q[n].msg \in S THEN Append(f[n - 1], q[n]) ELSE f[n - 1]
  <2>1. 0 \in 0 .. Len(q) /\ \A n \in 1 .. Len(q) : n \in 0 .. Len(q) /\ n # 0
    OBVIOUS
  <2>2. \A n \in 0 .. Len(q) : f[n] = IF n = 0 THEN <<>>
            ELSE IF q[n].msg \in S THEN Append(f[n - 1], q[n]) ELSE f[n - 1]
    BY <1>1, Zenon DEF UpTo
  <2>3. f[0] = <<>>
    BY <2>1, <2>2, Zenon
  <2> QED  BY <2>1, <2>2, <2>3, Zenon
<1>4. Len(q) \in Nat
  OBVIOUS
<1>5. 0 \in P
  <2>1. K(0) = {}
    OBVIOUS
  <2>2. Picks(q, <<>>, {})
    <3>1. <<>> \in [1 .. 0 -> {}] /\ <<>> = [i \in 1 .. 0 |-> q[<<>>[i]]]
      OBVIOUS
    <3> QED  BY <3>1 DEF Picks
  <2> QED  BY <1>3, <2>1, <2>2
<1>6. ASSUME NEW n \in Nat, n \in P PROVE n + 1 \in P
  <2> SUFFICES ASSUME n + 1 <= Len(q) PROVE Picks(q, f[n + 1], K(n + 1))
    OBVIOUS
  <2>1. Picks(q, f[n], K(n)) /\ n <= Len(q) /\ n + 1 \in 1 .. Len(q)
    BY <1>4, <1>6
  <2>2. f[n + 1] = IF q[n + 1].msg \in S THEN Append(f[n], q[n + 1]) ELSE f[n]
    BY <1>3, <2>1
  <2>3. CASE q[n + 1].msg \in S
    <3>1. K(n + 1) = K(n) \cup {n + 1} /\ K(n) \in SUBSET (1 .. n)
      BY <2>3
    <3> HIDE DEF K
    <3>2. Picks(q, Append(f[n], q[n + 1]), K(n) \cup {n + 1})
      BY <2>1, <3>1, PicksOneMore
    <3> QED  BY <2>2, <2>3, <3>1, <3>2
  <2>4. CASE q[n + 1].msg \notin S
    <3>1. K(n + 1) = K(n)
      BY <2>4
    <3> QED  BY <2>1, <2>2, <2>4, <3>1
  <2> QED  BY <2>3, <2>4
<1>7. Nat \subseteq P
  <2> HIDE DEF P
  <2> QED  BY <1>5, <1>6, Induct
<1>8. K(Len(q)) = {i \in DOMAIN q : q[i].msg \in S}
  BY <1>4
<1>9. Picks(q, f[Len(q)], K(Len(q)))
  BY <1>4, <1>7
<1> QED  BY <1>2, <1>8, <1>9

\* The position of the copy a pump takes out.
LEMMA FirstIs ==
    ASSUME NEW T, queue \in Seq(T), NEW m, Queued(m)
    PROVE  First(m) \in DOMAIN queue /\ queue[First(m)].msg = m
<1> DEFINE At == {i \in DOMAIN queue : queue[i].msg = m}
<1>1. Len(queue) \in Nat /\ DOMAIN queue = 1 .. Len(queue)
  OBVIOUS
<1>2. At \subseteq Nat /\ At # {}
  BY <1>1 DEF Queued
<1> HIDE DEF At
<1>3. PICK i \in At : \A j \in At : ~ (<<j, i>> \in OpToRel(<, Nat))
  BY <1>2, WFMin, NatLessThanWellFounded, Zenon
<1>4. \A j \in At : j \in Nat /\ ~(j < i)
  <2>1. \A j \in At : j \in Nat
    BY <1>2
  <2>2. \A j \in At : j < i => <<j, i>> \in OpToRel(<, Nat)
    BY <1>2, Zenon DEF OpToRel
  <2> QED  BY <1>3, <2>1, <2>2, Zenon
<1>5. i \in DOMAIN queue /\ queue[i].msg = m /\ \A j \in 1 .. i - 1 : queue[j].msg # m
  <2>1. i \in 1 .. Len(queue) /\ queue[i].msg = m
    BY <1>1 DEF At
  <2>2. ASSUME NEW j \in 1 .. i - 1 PROVE queue[j].msg # m
    <3>1. j \in 1 .. Len(queue) /\ j < i
      BY <1>1, <2>1
    <3>2. j \notin At
      BY <1>4, <3>1
    <3> QED  BY <1>1, <3>1, <3>2 DEF At
  <2> QED  BY <1>1, <2>1, <2>2
<1> QED  BY <1>5 DEF First

\* No message twice.
Distinct(q) == \A i, j \in DOMAIN q : q[i].msg = q[j].msg => i = j

LEMMA WithoutKeeps ==
    ASSUME NEW T, NEW q \in Seq(T), NEW i \in DOMAIN q
    PROVE  /\ Without(q, i) \in Seq(T)
           /\ Distinct(q) => /\ Distinct(Without(q, i))
                             /\ \A j \in DOMAIN Without(q, i) : Without(q, i)[j].msg # q[i].msg
           /\ \A k \in DOMAIN q \ {i} : \E j \in DOMAIN Without(q, i) : Without(q, i)[j] = q[k]
           /\ \A j \in DOMAIN Without(q, i) : \E k \in DOMAIN q : Without(q, i)[j] = q[k]
<1> DEFINE r == Without(q, i)
           K == DOMAIN q \ {i}
<1>1. Picks(q, r, K) /\ K \in SUBSET DOMAIN q
  BY WithoutIs
<1> HIDE DEF r
<1>2. /\ r \in Seq(T)
      /\ \A k \in K : \E j \in DOMAIN r : r[j] = q[k]
      /\ \A j \in DOMAIN r : \E k \in K : r[j] = q[k]
      /\ \A j, l \in DOMAIN r : j # l => \E k, n \in K : k # n /\ r[j] = q[k] /\ r[l] = q[n]
  <2> HIDE DEF K
  <2>1. r \in Seq(T) /\ Selection(q, r, K)
    BY <1>1, PicksKeep
  <2> QED  BY <2>1 DEF Selection
<1>3. ASSUME Distinct(q), NEW j \in DOMAIN r, NEW l \in DOMAIN r, r[j].msg = r[l].msg PROVE j = l
  <2> SUFFICES ASSUME j # l PROVE FALSE
    OBVIOUS
  <2>1. PICK k \in K : \E n \in K : k # n /\ r[j] = q[k] /\ r[l] = q[n]
    BY <1>2
  <2>2. PICK n \in K : k # n /\ r[j] = q[k] /\ r[l] = q[n]
    BY <2>1
  <2> QED  BY <1>1, <1>3, <2>2 DEF Distinct
<1>4. ASSUME Distinct(q), NEW j \in DOMAIN r PROVE r[j].msg # q[i].msg
  BY <1>2, <1>4 DEF Distinct
<1>5. Distinct(q) => Distinct(r)
  BY <1>3 DEF Distinct
<1> QED  BY <1>2, <1>4, <1>5 DEF r

LEMMA RetainedKeeps ==
    ASSUME NEW T, NEW q \in Seq(T), NEW S
    PROVE  /\ Retained(q, S) \in Seq(T)
           /\ Distinct(q) => Distinct(Retained(q, S))
           /\ \A k \in DOMAIN q : q[k].msg \in S =>
                 \E j \in DOMAIN Retained(q, S) : Retained(q, S)[j] = q[k]
           /\ \A j \in DOMAIN Retained(q, S) :
                 \E k \in DOMAIN q : q[k].msg \in S /\ Retained(q, S)[j] = q[k]
<1> DEFINE r == Retained(q, S)
           K == {i \in DOMAIN q : q[i].msg \in S}
<1>1. Picks(q, r, K) /\ K \in SUBSET DOMAIN q
  BY RetainedIs
<1> HIDE DEF r
<1>2. /\ r \in Seq(T)
      /\ \A k \in K : \E j \in DOMAIN r : r[j] = q[k]
      /\ \A j \in DOMAIN r : \E k \in K : r[j] = q[k]
      /\ \A j, l \in DOMAIN r : j # l => \E k, n \in K : k # n /\ r[j] = q[k] /\ r[l] = q[n]
  <2> HIDE DEF K
  <2>1. r \in Seq(T) /\ Selection(q, r, K)
    BY <1>1, PicksKeep
  <2> QED  BY <2>1 DEF Selection
<1>3. ASSUME Distinct(q), NEW j \in DOMAIN r, NEW l \in DOMAIN r, r[j].msg = r[l].msg PROVE j = l
  <2> SUFFICES ASSUME j # l PROVE FALSE
    OBVIOUS
  <2>1. PICK k \in K : \E n \in K : k # n /\ r[j] = q[k] /\ r[l] = q[n]
    BY <1>2
  <2>2. PICK n \in K : k # n /\ r[j] = q[k] /\ r[l] = q[n]
    BY <2>1
  <2> QED  BY <1>1, <1>3, <2>2 DEF Distinct
<1>4. Distinct(q) => Distinct(r)
  BY <1>3 DEF Distinct
<1> QED  BY <1>2, <1>4 DEF r

LEMMA AppendKeeps ==
    ASSUME NEW T, NEW q \in Seq(T), NEW c \in T
    PROVE  /\ Append(q, c) \in Seq(T)
           /\ (Distinct(q) /\ \A i \in DOMAIN q : q[i].msg # c.msg) => Distinct(Append(q, c))
           /\ \A k \in DOMAIN q : \E j \in DOMAIN Append(q, c) : Append(q, c)[j] = q[k]
           /\ \E j \in DOMAIN Append(q, c) : Append(q, c)[j] = c
           /\ \A j \in DOMAIN Append(q, c) :
                 Append(q, c)[j] = c \/ \E k \in DOMAIN q : Append(q, c)[j] = q[k]
<1> DEFINE r == Append(q, c)
<1>1. /\ r \in Seq(T) /\ Len(r) = Len(q) + 1 /\ \A i \in 1 .. Len(q) : r[i] = q[i]
      /\ r[Len(q) + 1] = c
  BY AppendProperties
<1>2. Len(q) \in Nat /\ DOMAIN q = 1 .. Len(q)
  OBVIOUS
<1> HIDE DEF r
<1>3. DOMAIN r = 1 .. Len(q) + 1
  BY <1>1, LenProperties
<1>4. \A i \in DOMAIN r : i \in DOMAIN q \/ i = Len(q) + 1
  BY <1>2, <1>3
<1>5. DOMAIN q \subseteq DOMAIN r /\ Len(q) + 1 \in DOMAIN r
  BY <1>2, <1>3
<1>6. ASSUME Distinct(q), \A i \in DOMAIN q : q[i].msg # c.msg PROVE Distinct(r)
  BY <1>1, <1>2, <1>4, <1>6 DEF Distinct
<1> QED  BY <1>1, <1>2, <1>4, <1>5, <1>6 DEF r

\* A sequence over T is one over every set that has its elements.
LEMMA SeqOver ==
    ASSUME NEW T, NEW U, NEW q \in Seq(T), \A i \in DOMAIN q : q[i] \in U
    PROVE  q \in Seq(U)
<1>1. Len(q) \in Nat /\ q \in [1 .. Len(q) -> T]
  BY LenProperties
<1>2. q \in [1 .. Len(q) -> U]
  BY <1>1
<1> QED  BY <1>1, <1>2

-----------------------------------------------------------------------------
(* The invariants.                                                         *)

Saves == [step : {"none", "lock", "write"}, image : Seq(Copies)]
Pumping == [held : SUBSET Copies, todo : SUBSET Peers, now : SUBSET Peers]
Handlings == [msg : Msgs, to : Peers, by : Pumps \cup {Nobody}, step : {"new", "append", "acked"}]

\* The types, with those of the images under way and of the queue as a sequence.
Typed ==
    /\ history \subseteq Msgs /\ failed \subseteq history
    /\ queue \in Seq(Copies) /\ disk \in Seq(Copies) /\ save \in [Savers -> Saves]
    /\ pump \in [Pumps -> Pumping]
    /\ \A t \in Pumps : \A c, d \in pump[t].held : c = d
    /\ \A t \in Pumps : \A x, y \in pump[t].now : x = y
    /\ \A t \in Pumps : pump[t].now # {} => pump[t].held # {}
    /\ handling \subseteq Handlings
    /\ shown \in [Peers -> [Msgs -> Nat]] /\ budget \in Budget
    /\ answered \subseteq Msgs /\ dropped \subseteq Msgs /\ overlap \in BOOLEAN

\* A copy of a message that was sent, whose delivered peers have it.
Sound ==
    {c \in Copies : c.msg \in history \cup dropped /\ \A x \in c.delivered : shown[x][c.msg] > 0}

\* Wherever a copy lies, in the queue, with a pump, in the file or in an image
\* that will be written to it, it is sound; and an ack tells the truth.
CopiesSound ==
    /\ queue \in Seq(Sound) /\ disk \in Seq(Sound)
    /\ \A s \in Savers : save[s].image \in Seq(Sound)
    /\ \A t \in Pumps : pump[t].held \subseteq Sound
    /\ \A h \in handling : h.step = "acked" => shown[h.to][h.msg] > 0

\* No message is in the queue twice, nor in an image that a restart may bring
\* back, nor with two pumps or with one and in the queue.
Apart ==
    /\ Distinct(queue) /\ Distinct(disk) /\ \A s \in Savers : Distinct(save[s].image)
    /\ \A t \in Pumps : \A c \in pump[t].held : ~Queued(c.msg)
    /\ \A t, u \in Pumps : \A c \in pump[t].held, d \in pump[u].held : c.msg = d.msg => t = u

OneCopy == budget.repeat = MaxRepeat => Apart

\* A message about to be shown has not been, and by one handler only.
AboutToShow ==
    ~overlap =>
        /\ \A x \in Peers, m \in Msgs : shown[x][m] <= 1
        /\ \A h \in handling : h.step = "append" => shown[h.to][h.msg] = 0
        /\ \A g, h \in handling :
              (g.step = "append" /\ h.step = "append" /\ g.msg = h.msg /\ g.to = h.to) => g = h

\* While the daemon runs, what was not dropped is queued, with a pump or heard.
InHand(m) == \E t \in Pumps : \E c \in pump[t].held : c.msg = m

NotLost ==
    budget.crash = MaxCrash =>
        \A m \in history \ dropped : Heard(m) \/ Queued(m) \/ InHand(m)

Inv == Typed /\ CopiesSound /\ OneCopy /\ AboutToShow /\ NotLost

-----------------------------------------------------------------------------
(* Types.                                                                  *)

LEMMA SpendIs ==
    ASSUME budget \in Budget, NEW what \in {"fail", "miss", "repeat", "cancel", "crash"},
           Spend(what)
    PROVE  /\ budget' \in Budget
           /\ budget'.repeat = MaxRepeat => budget.repeat = MaxRepeat /\ what # "repeat"
           /\ budget'.crash = MaxCrash => budget.crash = MaxCrash /\ what # "crash"
<1>1. /\ budget.fail \in 0 .. MaxFail /\ budget.miss \in 0 .. MaxMiss
      /\ budget.repeat \in 0 .. MaxRepeat /\ budget.cancel \in 0 .. MaxCancel
      /\ budget.crash \in 0 .. MaxCrash /\ budget.any \in 0 .. MaxTrouble
  BY DEF Budget
<1>2. /\ MaxFail \in Nat /\ MaxMiss \in Nat /\ MaxRepeat \in Nat
      /\ MaxCancel \in Nat /\ MaxCrash \in Nat /\ MaxTrouble \in Nat
  BY ChatAssumption
<1>3. /\ budget[what] > 0 /\ budget.any > 0
      /\ budget' = [budget EXCEPT ![what] = budget[what] - 1, !.any = budget.any - 1]
  BY DEF Spend
<1>4. \A M \in Nat : \A n \in 0 .. M : n > 0 => n - 1 \in 0 .. M
  OBVIOUS
<1>5. CASE what = "fail"
  <2>1. budget' = [budget EXCEPT !.fail = budget.fail - 1, !.any = budget.any - 1]
    BY <1>3, <1>5
  <2>2. budget' = [fail |-> budget.fail - 1, miss |-> budget.miss, repeat |-> budget.repeat, cancel |-> budget.cancel, crash |-> budget.crash,
                   any |-> budget.any - 1]
    BY <2>1 DEF Budget
  <2>3. budget.fail - 1 \in 0 .. MaxFail /\ budget.any - 1 \in 0 .. MaxTrouble
    BY <1>1, <1>2, <1>3, <1>4, <1>5
  <2>4. budget' \in Budget
    BY <1>1, <2>2, <2>3 DEF Budget
  <2>5. /\ budget'.repeat = budget.repeat
        /\ budget'.crash = budget.crash
    BY <2>2
  <2> QED  BY <1>1, <1>2, <1>5, <2>4, <2>5
<1>6. CASE what = "miss"
  <2>1. budget' = [budget EXCEPT !.miss = budget.miss - 1, !.any = budget.any - 1]
    BY <1>3, <1>6
  <2>2. budget' = [fail |-> budget.fail, miss |-> budget.miss - 1, repeat |-> budget.repeat, cancel |-> budget.cancel, crash |-> budget.crash,
                   any |-> budget.any - 1]
    BY <2>1 DEF Budget
  <2>3. budget.miss - 1 \in 0 .. MaxMiss /\ budget.any - 1 \in 0 .. MaxTrouble
    BY <1>1, <1>2, <1>3, <1>4, <1>6
  <2>4. budget' \in Budget
    BY <1>1, <2>2, <2>3 DEF Budget
  <2>5. /\ budget'.repeat = budget.repeat
        /\ budget'.crash = budget.crash
    BY <2>2
  <2> QED  BY <1>1, <1>2, <1>6, <2>4, <2>5
<1>7. CASE what = "repeat"
  <2>1. budget' = [budget EXCEPT !.repeat = budget.repeat - 1, !.any = budget.any - 1]
    BY <1>3, <1>7
  <2>2. budget' = [fail |-> budget.fail, miss |-> budget.miss, repeat |-> budget.repeat - 1, cancel |-> budget.cancel, crash |-> budget.crash,
                   any |-> budget.any - 1]
    BY <2>1 DEF Budget
  <2>3. budget.repeat - 1 \in 0 .. MaxRepeat /\ budget.any - 1 \in 0 .. MaxTrouble
    BY <1>1, <1>2, <1>3, <1>4, <1>7
  <2>4. budget' \in Budget
    BY <1>1, <2>2, <2>3 DEF Budget
  <2>5. /\ budget'.repeat = budget.repeat - 1
        /\ budget'.crash = budget.crash
    BY <2>2
  <2> QED  BY <1>1, <1>2, <1>7, <2>4, <2>5
<1>8. CASE what = "cancel"
  <2>1. budget' = [budget EXCEPT !.cancel = budget.cancel - 1, !.any = budget.any - 1]
    BY <1>3, <1>8
  <2>2. budget' = [fail |-> budget.fail, miss |-> budget.miss, repeat |-> budget.repeat, cancel |-> budget.cancel - 1, crash |-> budget.crash,
                   any |-> budget.any - 1]
    BY <2>1 DEF Budget
  <2>3. budget.cancel - 1 \in 0 .. MaxCancel /\ budget.any - 1 \in 0 .. MaxTrouble
    BY <1>1, <1>2, <1>3, <1>4, <1>8
  <2>4. budget' \in Budget
    BY <1>1, <2>2, <2>3 DEF Budget
  <2>5. /\ budget'.repeat = budget.repeat
        /\ budget'.crash = budget.crash
    BY <2>2
  <2> QED  BY <1>1, <1>2, <1>8, <2>4, <2>5
<1>9. CASE what = "crash"
  <2>1. budget' = [budget EXCEPT !.crash = budget.crash - 1, !.any = budget.any - 1]
    BY <1>3, <1>9
  <2>2. budget' = [fail |-> budget.fail, miss |-> budget.miss, repeat |-> budget.repeat, cancel |-> budget.cancel, crash |-> budget.crash - 1,
                   any |-> budget.any - 1]
    BY <2>1 DEF Budget
  <2>3. budget.crash - 1 \in 0 .. MaxCrash /\ budget.any - 1 \in 0 .. MaxTrouble
    BY <1>1, <1>2, <1>3, <1>4, <1>9
  <2>4. budget' \in Budget
    BY <1>1, <2>2, <2>3 DEF Budget
  <2>5. /\ budget'.repeat = budget.repeat
        /\ budget'.crash = budget.crash - 1
    BY <2>2
  <2> QED  BY <1>1, <1>2, <1>9, <2>4, <2>5
<1> QED  BY <1>5, <1>6, <1>7, <1>8, <1>9

\* The copy a pump has.
LEMMA HeldIs ==
    ASSUME Typed, NEW t \in Pumps, pump[t].held # {}
    PROVE  /\ Held(t) \in pump[t].held /\ Held(t) \in Copies /\ pump[t].held = {Held(t)}
           /\ Held(t).msg \in Msgs /\ Held(t).delivered \in SUBSET Peers
<1>1. pump[t].held \in SUBSET Copies /\ \A c, d \in pump[t].held : c = d
  BY DEF Typed, Pumping
<1>2. Held(t) \in pump[t].held
  BY DEF Held
<1>3. Held(t) \in Copies /\ pump[t].held = {Held(t)}
  BY <1>1, <1>2
<1> QED  BY <1>2, <1>3 DEF Copies

\* One pump moves.
Moves(t, held, todo, now) ==
    /\ pump' \in [Pumps -> Pumping]
    /\ pump'[t].held = held /\ pump'[t].todo = todo /\ pump'[t].now = now
    /\ \A u \in Pumps \ {t} : pump'[u] = pump[u]

LEMMA MovesBy ==
    ASSUME Typed, NEW t \in Pumps, NEW held \in SUBSET Copies, NEW todo \in SUBSET Peers,
           NEW now \in SUBSET Peers,
           NEW r, pump' = [pump EXCEPT ![t] = r],
           r = [held |-> held, todo |-> todo, now |-> now]
    PROVE  Moves(t, held, todo, now)
<1>1. [held |-> held, todo |-> todo, now |-> now] \in Pumping
  BY DEF Pumping
<1> QED  BY <1>1 DEF Moves, Typed

LEMMA TakeMoves ==
    ASSUME Typed, NEW t \in Pumps, NEW m \in Msgs, NEW S \in SUBSET Peers, PumpTake(t, m, S)
    PROVE  /\ First(m) \in DOMAIN queue /\ queue[First(m)] \in Copies /\ queue[First(m)].msg = m
           /\ Moves(t, {queue[First(m)]}, S \ queue[First(m)].delivered, {})
           /\ pump[t] = Idle /\ queue' = Without(queue, First(m)) /\ queue' \in Seq(Copies)
           /\ budget' \in Budget
           /\ budget'.repeat = MaxRepeat => budget.repeat = MaxRepeat
           /\ budget'.crash = MaxCrash => budget.crash = MaxCrash
<1> DEFINE c == queue[First(m)]
<1>1. First(m) \in DOMAIN queue /\ c \in Copies /\ c.msg = m
  BY FirstIs DEF PumpTake, Typed
<1>2. /\ pump[t] = Idle
      /\ pump' = [pump EXCEPT ![t] = [held |-> {c}, todo |-> S \ c.delivered, now |-> {}]]
  BY DEF PumpTake
<1>3. queue' = Without(queue, First(m)) /\ queue' \in Seq(Copies)
  BY <1>1, WithoutKeeps DEF PumpTake, Typed
<1> HIDE DEF c
<1>4. Moves(t, {c}, S \ c.delivered, {})
  <2>1. {c} \in SUBSET Copies /\ S \ c.delivered \in SUBSET Peers
    BY <1>1
  <2> QED  BY <1>2, <2>1, MovesBy
<1>5. /\ budget' \in Budget
      /\ budget'.repeat = MaxRepeat => budget.repeat = MaxRepeat
      /\ budget'.crash = MaxCrash => budget.crash = MaxCrash
  <2>1. CASE budget' = budget
    BY <2>1 DEF Typed
  <2>2. CASE Spend("miss")
    BY <2>2, SpendIs DEF Typed
  <2> QED  BY <2>1, <2>2 DEF PumpTake, Targets
<1> QED  BY <1>1, <1>2, <1>3, <1>4, <1>5 DEF c

LEMMA SendMoves ==
    ASSUME Typed, NEW t \in Pumps, NEW x \in Peers, PumpSend(t, x)
    PROVE  Moves(t, pump[t].held, pump[t].todo \ {x}, {x})
<1> DEFINE r == [held |-> pump[t].held, todo |-> pump[t].todo \ {x}, now |-> {x}]
<1>1. pump[t] \in Pumping
  BY DEF Typed
<1>2. pump[t].held \in SUBSET Copies /\ pump[t].todo \ {x} \in SUBSET Peers
  BY <1>1 DEF Pumping
<1>3. pump' = [pump EXCEPT ![t] = r]
  BY <1>1 DEF PumpSend, Typed, Pumping
<1> HIDE DEF r
<1> QED  BY <1>2, <1>3, MovesBy DEF r

LEMMA AckedMoves ==
    ASSUME Typed, NEW t \in Pumps, PumpAcked(t)
    PROVE  \E x \in Peers :
              /\ Handler(t, x, "acked") \in handling /\ pump[t].held # {}
              /\ [Held(t) EXCEPT !.delivered = @ \cup {x}] \in Copies
              /\ Moves(t, {[Held(t) EXCEPT !.delivered = @ \cup {x}]}, pump[t].todo, {})
              /\ handling' = handling \ {Handler(t, x, "acked")}
<1>1. PICK x \in pump[t].now :
        /\ Handler(t, x, "acked") \in handling
        /\ handling' = handling \ {Handler(t, x, "acked")}
        /\ pump' = [pump EXCEPT ![t] =
                        [held |-> {[Held(t) EXCEPT !.delivered = @ \cup {x}]},
                         todo |-> pump[t].todo, now |-> {}]]
  BY DEF PumpAcked
<1>2. x \in Peers /\ pump[t].held # {}
  BY DEF Typed, Pumping
<1> DEFINE c == [Held(t) EXCEPT !.delivered = @ \cup {x}]
<1>3. c \in Copies
  BY <1>2, HeldIs DEF Copies
<1>4. pump' = [pump EXCEPT ![t] = [held |-> {c}, todo |-> pump[t].todo, now |-> {}]]
  BY <1>1
<1> HIDE DEF c
<1>5. Moves(t, {c}, pump[t].todo, {})
  <2>1. {c} \in SUBSET Copies /\ pump[t].todo \in SUBSET Peers
    BY <1>3 DEF Typed, Pumping
  <2> QED  BY <1>4, <2>1, MovesBy
<1> QED  BY <1>1, <1>2, <1>3, <1>5 DEF c

LEMMA FailMoves ==
    ASSUME Typed, NEW t \in Pumps, PumpFail(t)
    PROVE  Moves(t, pump[t].held, pump[t].todo, {})
<1> DEFINE r == [pump[t] EXCEPT !.now = {}]
<1>1. pump' = [pump EXCEPT ![t] = r]
  BY DEF PumpFail, Typed
<1>2. pump[t] \in Pumping
  BY DEF Typed
<1>3. r = [held |-> pump[t].held, todo |-> pump[t].todo, now |-> {}]
  BY <1>2 DEF Pumping
<1>4. pump[t].held \in SUBSET Copies /\ pump[t].todo \in SUBSET Peers
  BY <1>2 DEF Pumping
<1> HIDE DEF r
<1> QED  BY <1>1, <1>3, <1>4, MovesBy

LEMMA FinishMoves ==
    ASSUME Typed, NEW t \in Pumps, PumpFinish(t)
    PROVE  Moves(t, {}, {}, {})
<1> DEFINE r == [pump[t] EXCEPT !.held = {}]
<1>1. pump[t] \in Pumping /\ pump[t].todo = {} /\ pump[t].now = {}
  BY DEF PumpFinish, Typed
<1>2. pump' = [pump EXCEPT ![t] = r]
  BY DEF PumpFinish, Typed
<1>3. r = [held |-> {}, todo |-> {}, now |-> {}]
  BY <1>1 DEF Pumping
<1>4. {} \in SUBSET Copies /\ {} \in SUBSET Peers
  OBVIOUS
<1> HIDE DEF r
<1> QED  BY <1>2, <1>3, <1>4, MovesBy

\* A handler's record, taken a step further.
LEMMA HandlerIs ==
    ASSUME NEW h \in Handlings
    PROVE  /\ h.msg \in Msgs /\ h.to \in Peers /\ h.by \in Pumps \cup {Nobody}
           /\ \A s \in {"new", "append", "acked"} :
                 /\ [h EXCEPT !.step = s] \in Handlings
                 /\ [h EXCEPT !.step = s].step = s /\ [h EXCEPT !.step = s].msg = h.msg
                 /\ [h EXCEPT !.step = s].to = h.to /\ [h EXCEPT !.step = s].by = h.by
           /\ [h EXCEPT !.by = Nobody] \in Handlings
           /\ [h EXCEPT !.by = Nobody].step = h.step /\ [h EXCEPT !.by = Nobody].msg = h.msg
           /\ [h EXCEPT !.by = Nobody].to = h.to
BY DEF Handlings

LEMMA AbandonedIs ==
    ASSUME Typed, NEW S \in SUBSET Pumps
    PROVE  /\ Abandoned(S) \subseteq Handlings
           /\ \A h \in Abandoned(S) : h \in handling \/
                 \E g \in handling : g.step # "acked" /\ h = [g EXCEPT !.by = Nobody]
<1>1. ASSUME NEW h \in Abandoned(S)
      PROVE  \/ h \in handling
             \/ \E g \in handling : g.step # "acked" /\ h = [g EXCEPT !.by = Nobody]
  BY DEF Abandoned
<1>2. ASSUME NEW h \in Abandoned(S) PROVE h \in Handlings
  <2>1. CASE h \in handling
    BY <2>1 DEF Typed
  <2>2. ASSUME NEW g \in handling, h = [g EXCEPT !.by = Nobody] PROVE h \in Handlings
    <3>1. g \in Handlings
      BY DEF Typed
    <3> QED  BY <2>2, <3>1, HandlerIs
  <2> QED  BY <1>1, <2>1, <2>2
<1> QED  BY <1>1, <1>2

LEMMA NotHeld ==
    ASSUME Typed
    PROVE  /\ \A t \in Pumps : pump[t].held \in SUBSET Copies /\ pump[t].now \in SUBSET Peers
           /\ \A s \in Savers : save[s] \in Saves
           /\ NoSave \in Saves /\ ToLock \in Saves
           /\ \A q \in Seq(Copies) : ToWrite(q) \in Saves
BY EmptySeq DEF Typed, Pumping, Saves, NoSave, ToLock, ToWrite

\* A pump with one copy at most, waiting for one peer at most, still is so.
LEMMA MovesTyped ==
    ASSUME Typed, NEW t \in Pumps, NEW held, NEW todo, NEW now, Moves(t, held, todo, now),
           \A c, d \in held : c = d, \A x, y \in now : x = y, now # {} => held # {}
    PROVE  /\ pump' \in [Pumps -> Pumping]
           /\ \A u \in Pumps : \A c, d \in pump'[u].held : c = d
           /\ \A u \in Pumps : \A x, y \in pump'[u].now : x = y
           /\ \A u \in Pumps : pump'[u].now # {} => pump'[u].held # {}
<1>1. \A u \in Pumps : \/ pump'[u].held = held /\ pump'[u].now = now
                       \/ pump'[u] = pump[u]
  BY DEF Moves
<1> QED  BY <1>1 DEF Moves, Typed

LEMMA UserTyped ==
    ASSUME Typed, User
    PROVE  Typed'
<1> USE DEF past
<1>1. ASSUME Request PROVE save' \in [Savers -> Saves]
  BY <1>1, NotHeld DEF Request, Typed
<1>2. ASSUME NEW m \in Msgs, ChatSend(m) PROVE Typed'
  <2>1. Fresh(m) \in Copies
    BY DEF Fresh, Copies
  <2>2. queue' \in Seq(Copies)
    BY <1>2, <2>1, AppendKeeps DEF ChatSend, Typed
  <2>3. history' \subseteq Msgs /\ failed' \subseteq history'
    BY <1>2 DEF ChatSend, Typed
  <2> QED  BY <1>1, <1>2, <2>2, <2>3 DEF ChatSend, Typed
<1>3. ASSUME NEW m \in Msgs, ChatResend(m) PROVE Typed'
  <2>1. Fresh(m) \in Copies
    BY DEF Fresh, Copies
  <2>2. queue' \in Seq(Copies)
    BY <1>3, <2>1, AppendKeeps DEF ChatResend, Typed
  <2>3. budget' \in Budget
    BY <1>3, SpendIs DEF ChatResend, Typed
  <2> QED  BY <1>1, <1>3, <2>2, <2>3 DEF ChatResend, Typed
<1>4. ASSUME NEW m \in Msgs, ChatCancelSend(m) PROVE Typed'
  <2>1. queue' \in Seq(Copies)
    BY <1>4, RetainedKeeps DEF ChatCancelSend, Typed
  <2>2. budget' \in Budget
    BY <1>4, SpendIs DEF ChatCancelSend, Typed
  <2> QED  BY <1>1, <1>4, <2>1, <2>2 DEF ChatCancelSend, Typed
<1>5. CASE ChatClearAll
  <2>1. queue' \in Seq(Copies)
    BY <1>5, EmptySeq DEF ChatClearAll
  <2>2. budget' \in Budget
    BY <1>5, SpendIs DEF ChatClearAll, Typed
  <2> QED  BY <1>1, <1>5, <2>1, <2>2 DEF ChatClearAll, Typed
<1> QED  BY <1>2, <1>3, <1>4, <1>5 DEF User

LEMMA DiscardTyped ==
    ASSUME Typed, NEW clears \in BOOLEAN, Discard(clears)
    PROVE  Typed'
<1>1. queue' \in Seq(Copies)
  BY RetainedKeeps DEF Discard, Typed
<1>2. budget' \in Budget
  BY SpendIs DEF Discard, Typed
<1>3. save' \in [Savers -> Saves]
  BY NotHeld DEF Discard, Typed
<1>4. history' \subseteq Msgs /\ failed' \subseteq history' /\ dropped' \subseteq Msgs
  BY DEF Discard, Typed
<1> QED  BY <1>1, <1>2, <1>3, <1>4 DEF Discard, Typed

LEMMA SaveTyped ==
    ASSUME Typed, NEW s \in Savers, Save(s)
    PROVE  Typed'
<1> USE DEF past
<1>1. CASE SnapshotQueue(s)
  <2>1. save' \in [Savers -> Saves]
    BY <1>1, NotHeld DEF SnapshotQueue, Typed
  <2> QED  BY <1>1, <2>1 DEF SnapshotQueue, Typed
<1>2. CASE WriteQueue(s)
  <2>1. save' \in [Savers -> Saves]
    BY <1>2, NotHeld DEF WriteQueue, Typed
  <2>2. disk' \in Seq(Copies)
    BY <1>2, NotHeld DEF WriteQueue, Saves
  <2>3. answered' \subseteq Msgs
    BY <1>2 DEF WriteQueue, Typed
  <2> QED  BY <1>2, <2>1, <2>2, <2>3 DEF WriteQueue, Typed
<1> QED  BY <1>1, <1>2 DEF Save

LEMMA PumpTyped ==
    ASSUME Typed, NEW t \in Pumps, Take(t) \/ Delivery(t)
    PROVE  Typed'
<1> USE DEF past
<1>0. t \in Savers /\ pump[t].held \in SUBSET Copies /\ pump[t].now \in SUBSET Peers
  BY NotHeld DEF Savers
<1>1. ASSUME NEW m \in Msgs, NEW S \in SUBSET Peers, PumpTake(t, m, S) PROVE Typed'
  <2>1. /\ Moves(t, {queue[First(m)]}, S \ queue[First(m)].delivered, {})
        /\ queue' \in Seq(Copies) /\ budget' \in Budget
    BY <1>1, TakeMoves
  <2>2. /\ pump' \in [Pumps -> Pumping]
        /\ \A u \in Pumps : \A c, d \in pump'[u].held : c = d
        /\ \A u \in Pumps : \A x, y \in pump'[u].now : x = y
        /\ \A u \in Pumps : pump'[u].now # {} => pump'[u].held # {}
    BY <2>1, MovesTyped
  <2> QED  BY <1>1, <2>1, <2>2 DEF PumpTake, Typed
<1>2. ASSUME NEW x \in Peers, PumpSend(t, x) PROVE Typed'
  <2>1. Moves(t, pump[t].held, pump[t].todo \ {x}, {x}) /\ pump[t].held # {}
    BY <1>2, SendMoves DEF PumpSend
  <2>2. /\ pump' \in [Pumps -> Pumping]
        /\ \A u \in Pumps : \A c, d \in pump'[u].held : c = d
        /\ \A u \in Pumps : \A y, z \in pump'[u].now : y = z
        /\ \A u \in Pumps : pump'[u].now # {} => pump'[u].held # {}
    <3>1. \A c, d \in pump[t].held : c = d
      BY DEF Typed
    <3> QED  BY <2>1, <3>1, MovesTyped
  <2>3. Handler(t, x, "new") \in Handlings
    BY <2>1, HeldIs DEF Handler, Handlings
  <2>4. handling' \subseteq Handlings
    BY <1>2, <2>3 DEF PumpSend, Typed
  <2> QED  BY <1>2, <2>2, <2>4 DEF PumpSend, Typed
<1>3. CASE PumpAcked(t)
  <2>1. PICK x \in Peers :
          /\ Moves(t, {[Held(t) EXCEPT !.delivered = @ \cup {x}]}, pump[t].todo, {})
          /\ handling' = handling \ {Handler(t, x, "acked")}
    BY <1>3, AckedMoves
  <2>2. /\ pump' \in [Pumps -> Pumping]
        /\ \A u \in Pumps : \A c, d \in pump'[u].held : c = d
        /\ \A u \in Pumps : \A y, z \in pump'[u].now : y = z
        /\ \A u \in Pumps : pump'[u].now # {} => pump'[u].held # {}
    BY <2>1, MovesTyped
  <2> QED  BY <1>3, <2>1, <2>2 DEF PumpAcked, Typed
<1>4. CASE PumpFail(t)
  <2>1. Moves(t, pump[t].held, pump[t].todo, {})
    BY <1>4, FailMoves
  <2>2. /\ pump' \in [Pumps -> Pumping]
        /\ \A u \in Pumps : \A c, d \in pump'[u].held : c = d
        /\ \A u \in Pumps : \A y, z \in pump'[u].now : y = z
        /\ \A u \in Pumps : pump'[u].now # {} => pump'[u].held # {}
    <3>1. \A c, d \in pump[t].held : c = d
      BY DEF Typed
    <3> QED  BY <2>1, <3>1, MovesTyped
  <2>3. handling' \subseteq Handlings
    BY <1>4, AbandonedIs DEF PumpFail, Typed
  <2>4. budget' \in Budget
    BY <1>4, SpendIs DEF PumpFail, Typed
  <2> QED  BY <1>4, <2>2, <2>3, <2>4 DEF PumpFail, Typed
<1>5. CASE PumpFinish(t)
  <2>1. Moves(t, {}, {}, {})
    BY <1>5, FinishMoves
  <2>2. /\ pump' \in [Pumps -> Pumping]
        /\ \A u \in Pumps : \A c, d \in pump'[u].held : c = d
        /\ \A u \in Pumps : \A y, z \in pump'[u].now : y = z
        /\ \A u \in Pumps : pump'[u].now # {} => pump'[u].held # {}
    BY <2>1, MovesTyped
  <2>3. queue' \in Seq(Copies)
    BY <1>5, HeldIs, AppendKeeps DEF PumpFinish, Typed
  <2>4. failed' \subseteq history
    BY <1>5 DEF PumpFinish, Typed
  <2>5. save' \in [Savers -> Saves]
    BY <1>0, <1>5, NotHeld DEF PumpFinish, Typed
  <2> QED  BY <1>5, <2>2, <2>3, <2>4, <2>5 DEF PumpFinish, Typed
<1> QED  BY <1>1, <1>2, <1>3, <1>4, <1>5 DEF Take, Delivery

\* A handler's next step.
LEMMA MovedIs ==
    ASSUME Typed, NEW h \in handling, NEW s \in {"append", "acked"}
    PROVE  /\ Moved(h, s) \subseteq Handlings
           /\ \A g \in Moved(h, s) : g \in handling \ {h} \/ g = [h EXCEPT !.step = s]
<1>1. h \in Handlings
  BY DEF Typed
<1>2. \A g \in Moved(h, s) : g \in handling \ {h} \/ g = [h EXCEPT !.step = s]
  BY DEF Moved
<1>3. ASSUME NEW g \in Moved(h, s) PROVE g \in Handlings
  <2>1. CASE g \in handling \ {h}
    BY <2>1 DEF Typed
  <2>2. CASE g = [h EXCEPT !.step = s]
    BY <1>1, <2>2, HandlerIs
  <2> QED  BY <1>2, <2>1, <2>2
<1> QED  BY <1>2, <1>3

LEMMA ReceiverTyped ==
    ASSUME Typed, NEW h \in handling, Receiver(h)
    PROVE  Typed'
<1> USE DEF mine
<1>1. CASE Check(h)
  <2>1. handling' \subseteq Handlings
    BY <1>1, MovedIs DEF Check
  <2>2. overlap' \in BOOLEAN
    BY <1>1 DEF Check
  <2> QED  BY <1>1, <2>1, <2>2 DEF Check, Typed
<1>2. CASE Show(h)
  <2>1. handling' \subseteq Handlings
    BY <1>2, MovedIs DEF Show
  <2>2. h.to \in Peers /\ h.msg \in Msgs
    BY HandlerIs DEF Typed
  <2>3. shown' \in [Peers -> [Msgs -> Nat]]
    BY <1>2, <2>2 DEF Show, Typed
  <2> QED  BY <1>2, <2>1, <2>3 DEF Show, Typed
<1> QED  BY <1>1, <1>2 DEF Receiver

LEMMA CrashTyped == ASSUME Typed, Crash PROVE Typed'
<1> USE DEF past
<1>1. budget' \in Budget
  BY SpendIs DEF Crash, Typed
<1>2. Idle \in Pumping /\ Idle.held = {} /\ Idle.now = {}
  BY DEF Idle, Pumping
<1>3. pump' \in [Pumps -> Pumping] /\ \A t \in Pumps : pump'[t] = Idle
  BY <1>2 DEF Crash
<1>4. save' \in [Savers -> Saves]
  BY NotHeld DEF Crash
<1>5. handling' \subseteq Handlings
  BY AbandonedIs DEF Crash
<1> QED  BY <1>1, <1>2, <1>3, <1>4, <1>5 DEF Crash, Typed

LEMMA InitTyped == Init => Typed
<1> SUFFICES ASSUME Init PROVE Typed
  OBVIOUS
<1>1. Idle \in Pumping /\ Idle.held = {} /\ Idle.now = {}
  BY DEF Idle, Pumping
<1>2. <<>> \in Seq(Copies) /\ NoSave \in Saves
  BY EmptySeq DEF NoSave, Saves
<1>3. budget \in Budget
  BY ChatAssumption DEF Init, Budget
<1> QED  BY <1>1, <1>2, <1>3 DEF Init, Typed

LEMMA TypedStep == Typed /\ [Next]_vars => Typed'
<1>1. ASSUME Typed, UNCHANGED vars PROVE Typed'
  BY <1>1 DEF vars, Typed
<1> QED  BY <1>1, UserTyped, DiscardTyped, SaveTyped, PumpTyped, ReceiverTyped, CrashTyped DEF Next

\* Every variable of the queue, its pumps and the receivers keeps its type, and a
\* pump holds one copy at most and waits for one peer at most.
THEOREM TypeCorrect == Spec => []TypeOK
<1>1. Typed => TypeOK
  <2> SUFFICES ASSUME Typed PROVE TypeOK
    OBVIOUS
  <2>1. Everywhere \subseteq Copies
    BY NotHeld DEF Everywhere, Typed
  <2>2. ASSUME NEW t \in Pumps PROVE Cardinality(pump[t].held) <= 1
    <3>1. CASE pump[t].held = {}
      BY <3>1, FS_EmptySet
    <3>2. CASE pump[t].held # {}
      <4>1. pump[t].held = {Held(t)}
        BY <3>2, HeldIs
      <4>2. Cardinality({Held(t)}) = 1
        BY FS_Singleton
      <4> QED  BY <4>1, <4>2
    <3> QED  BY <3>1, <3>2
  <2>3. ASSUME NEW t \in Pumps PROVE Cardinality(pump[t].now) <= 1
    <3>1. CASE pump[t].now = {}
      BY <3>1, FS_EmptySet
    <3>2. ASSUME NEW x \in pump[t].now PROVE Cardinality(pump[t].now) <= 1
      <4>1. pump[t].now = {x}
        BY DEF Typed
      <4>2. Cardinality({x}) = 1
        BY FS_Singleton
      <4> QED  BY <4>1, <4>2
    <3> QED  BY <3>1, <3>2
  <2>4. \A s \in Savers : save[s].step \in {"none", "lock", "write"}
    BY NotHeld DEF Saves
  <2> QED  BY <2>1, <2>2, <2>3, <2>4 DEF TypeOK, Typed, Pumping, Handlings
<1> QED  BY <1>1, InitTyped, TypedStep, PTL DEF Spec

-----------------------------------------------------------------------------
(* Copies are sound.                                                       *)

\* What was sent stays sent and what was shown stays shown, so that a copy that
\* was sound is sound after the step.
LEMMA SoundStays ==
    ASSUME Typed, CopiesSound, history \cup dropped \subseteq history' \cup dropped',
           \A x \in Peers, m \in Msgs : shown[x][m] > 0 => shown'[x][m] > 0
    PROVE  /\ Sound \subseteq Sound' /\ \A q \in Seq(Sound) : q \in Seq(Sound')
           /\ queue \in Seq(Sound') /\ disk \in Seq(Sound') /\ <<>> \in Seq(Sound')
           /\ \A s \in Savers : save[s].image \in Seq(Sound')
           /\ \A t \in Pumps : pump[t].held \subseteq Sound'
           /\ \A h \in handling : h.step = "acked" => shown'[h.to][h.msg] > 0
<1>1. Sound \subseteq Sound'
  BY DEF Sound, Copies
<1>2. ASSUME NEW q \in Seq(Sound) PROVE q \in Seq(Sound')
  <2>1. \A i \in DOMAIN q : q[i] \in Sound'
    BY <1>1, LenProperties
  <2> QED  BY <2>1, SeqOver
<1>3. ASSUME NEW h \in handling, h.step = "acked" PROVE shown'[h.to][h.msg] > 0
  <2>1. h.to \in Peers /\ h.msg \in Msgs
    BY HandlerIs DEF Typed
  <2> QED  BY <1>3, <2>1 DEF CopiesSound
<1> QED  BY <1>1, <1>2, <1>3, EmptySeq DEF CopiesSound

LEMMA UserSound ==
    ASSUME Typed, CopiesSound, User
    PROVE  CopiesSound'
<1> USE DEF past
<1>1. ASSUME Request, \A s \in Savers : save[s].image \in Seq(Sound'), <<>> \in Seq(Sound')
      PROVE  \A s \in Savers : save'[s].image \in Seq(Sound')
  BY <1>1 DEF Request, ToLock, Typed
<1>2. ASSUME NEW m \in Msgs, ChatSend(m) PROVE CopiesSound'
  <2>1. /\ history \cup dropped \subseteq history' \cup dropped' /\ shown' = shown
        /\ m \in history'
    BY <1>2 DEF ChatSend
  <2>2. Fresh(m) \in Sound'
    BY <2>1 DEF Sound, Fresh, Copies
  <2>3. queue' \in Seq(Sound')
    BY <1>2, <2>1, <2>2, SoundStays, AppendKeeps DEF ChatSend
  <2> QED  BY <1>1, <1>2, <2>1, <2>3, SoundStays DEF ChatSend, CopiesSound
<1>3. ASSUME NEW m \in Msgs, ChatResend(m) PROVE CopiesSound'
  <2>1. /\ history \cup dropped \subseteq history' \cup dropped' /\ shown' = shown
    BY <1>3 DEF ChatResend
  <2>2. m \in history \cup dropped
    BY <1>3 DEF ChatResend, Exists, Queued, CopiesSound, Sound
  <2>3. Fresh(m) \in Sound'
    BY <2>1, <2>2 DEF Sound, Fresh, Copies
  <2>4. queue' \in Seq(Sound')
    BY <1>3, <2>1, <2>3, SoundStays, AppendKeeps DEF ChatResend
  <2> QED  BY <1>1, <1>3, <2>1, <2>4, SoundStays DEF ChatResend, CopiesSound
<1>4. ASSUME NEW m \in Msgs, ChatCancelSend(m) PROVE CopiesSound'
  <2>1. /\ history \cup dropped \subseteq history' \cup dropped' /\ shown' = shown
    BY <1>4 DEF ChatCancelSend
  <2>2. queue' \in Seq(Sound')
    BY <1>4, <2>1, SoundStays, RetainedKeeps DEF ChatCancelSend
  <2> QED  BY <1>1, <1>4, <2>1, <2>2, SoundStays DEF ChatCancelSend, CopiesSound
<1>5. CASE ChatClearAll
  <2>1. /\ history \cup dropped \subseteq history' \cup dropped' /\ shown' = shown
    BY <1>5 DEF ChatClearAll
  <2>2. queue' \in Seq(Sound')
    BY <1>5, EmptySeq DEF ChatClearAll
  <2> QED  BY <1>1, <1>5, <2>1, <2>2, SoundStays DEF ChatClearAll, CopiesSound
<1> QED  BY <1>2, <1>3, <1>4, <1>5 DEF User

LEMMA DiscardSound ==
    ASSUME Typed, CopiesSound, NEW clears \in BOOLEAN, Discard(clears)
    PROVE  CopiesSound'
<1>1. /\ history \cup dropped \subseteq history' \cup dropped' /\ shown' = shown
  BY DEF Discard
<1>2. queue' \in Seq(Sound')
  BY <1>1, SoundStays, RetainedKeeps DEF Discard
<1>3. \A s \in Savers : save'[s].image \in Seq(Sound')
  BY <1>1, SoundStays DEF Discard, Typed, ToLock
<1> QED  BY <1>1, <1>2, <1>3, SoundStays DEF Discard, CopiesSound

LEMMA SaveSound ==
    ASSUME Typed, CopiesSound, NEW s \in Savers, Save(s)
    PROVE  CopiesSound'
<1> USE DEF past
<1>1. history' = history /\ dropped' = dropped /\ shown' = shown
  BY DEF Save, SnapshotQueue, WriteQueue
<1>2. CASE SnapshotQueue(s)
  <2>1. \A r \in Savers : save'[r].image \in Seq(Sound')
    BY <1>1, <1>2, SoundStays DEF SnapshotQueue, Typed, ToWrite
  <2> QED  BY <1>1, <1>2, <2>1, SoundStays DEF SnapshotQueue, CopiesSound
<1>3. CASE WriteQueue(s)
  <2>1. \A r \in Savers : save'[r].image \in Seq(Sound')
    BY <1>1, <1>3, SoundStays DEF WriteQueue, Typed, NoSave
  <2>2. disk' \in Seq(Sound')
    BY <1>1, <1>3, SoundStays DEF WriteQueue
  <2> QED  BY <1>1, <1>3, <2>1, <2>2, SoundStays DEF WriteQueue, CopiesSound
<1> QED  BY <1>2, <1>3 DEF Save

\* What a peer acked it has: the copy is marked with what is true.
LEMMA AckedSound ==
    ASSUME Typed, CopiesSound, NEW t \in Pumps, NEW x \in Peers, pump[t].held # {},
           Handler(t, x, "acked") \in handling
    PROVE  [Held(t) EXCEPT !.delivered = @ \cup {x}] \in Sound
<1> DEFINE c == Held(t)
<1>1. c \in Sound /\ c \in Copies
  BY HeldIs DEF CopiesSound
<1>2. shown[x][c.msg] > 0
  BY DEF CopiesSound, Handler
<1> HIDE DEF c
<1>3. [c EXCEPT !.delivered = @ \cup {x}] \in Copies
  BY <1>1 DEF Copies
<1>4. /\ [c EXCEPT !.delivered = @ \cup {x}].msg = c.msg
      /\ [c EXCEPT !.delivered = @ \cup {x}].delivered = c.delivered \cup {x}
  BY <1>1 DEF Copies
<1>5. [c EXCEPT !.delivered = @ \cup {x}] \in Sound
  BY <1>1, <1>2, <1>3, <1>4 DEF Sound
<1> QED  BY <1>5 DEF c

LEMMA PumpSound ==
    ASSUME Typed, CopiesSound, NEW t \in Pumps, Take(t) \/ Delivery(t)
    PROVE  CopiesSound'
<1> USE DEF past
<1>1. history' = history /\ dropped' = dropped /\ shown' = shown /\ disk' = disk
  BY DEF Take, Delivery, PumpTake, PumpSend, PumpAcked, PumpFail, PumpFinish
<1>2. Sound' = Sound
  BY <1>1 DEF Sound
<1>3. ASSUME NEW m \in Msgs, NEW S \in SUBSET Peers, PumpTake(t, m, S) PROVE CopiesSound'
  <2>1. /\ Moves(t, {queue[First(m)]}, S \ queue[First(m)].delivered, {})
        /\ First(m) \in DOMAIN queue /\ queue' = Without(queue, First(m))
    BY <1>3, TakeMoves
  <2>2. queue[First(m)] \in Sound /\ queue' \in Seq(Sound)
    BY <2>1, WithoutKeeps, LenProperties DEF CopiesSound
  <2>3. \A u \in Pumps : pump'[u].held \subseteq Sound
    BY <2>1, <2>2 DEF Moves, CopiesSound
  <2> QED  BY <1>1, <1>2, <1>3, <2>2, <2>3 DEF PumpTake, CopiesSound
<1>4. ASSUME NEW x \in Peers, PumpSend(t, x) PROVE CopiesSound'
  <2>1. Moves(t, pump[t].held, pump[t].todo \ {x}, {x})
    BY <1>4, SendMoves
  <2>2. \A u \in Pumps : pump'[u].held \subseteq Sound
    BY <2>1 DEF Moves, CopiesSound
  <2>3. \A h \in handling' : h.step = "acked" => shown[h.to][h.msg] > 0
    BY <1>4 DEF PumpSend, Handler, CopiesSound
  <2> QED  BY <1>1, <1>2, <1>4, <2>2, <2>3 DEF PumpSend, CopiesSound
<1>5. CASE PumpAcked(t)
  <2>1. PICK x \in Peers :
          /\ Handler(t, x, "acked") \in handling /\ pump[t].held # {}
          /\ Moves(t, {[Held(t) EXCEPT !.delivered = @ \cup {x}]}, pump[t].todo, {})
          /\ handling' = handling \ {Handler(t, x, "acked")}
    BY <1>5, AckedMoves
  <2>2. \A u \in Pumps : pump'[u].held \subseteq Sound
    <3>1. [Held(t) EXCEPT !.delivered = @ \cup {x}] \in Sound
      BY <2>1, AckedSound
    <3> QED  BY <2>1, <3>1 DEF Moves, CopiesSound
  <2> QED  BY <1>1, <1>2, <1>5, <2>1, <2>2 DEF PumpAcked, CopiesSound
<1>6. CASE PumpFail(t)
  <2>1. Moves(t, pump[t].held, pump[t].todo, {})
    BY <1>6, FailMoves
  <2>2. \A u \in Pumps : pump'[u].held \subseteq Sound
    BY <2>1 DEF Moves, CopiesSound
  <2>3. \A h \in handling' : h.step = "acked" => shown[h.to][h.msg] > 0
    <3>1. \A h \in handling' :
            h \in handling \/ \E g \in handling : g.step # "acked" /\ h = [g EXCEPT !.by = Nobody]
      BY <1>6, AbandonedIs DEF PumpFail
    <3>2. \A g \in handling : [g EXCEPT !.by = Nobody].step = g.step
      BY HandlerIs DEF Typed
    <3> QED  BY <3>1, <3>2 DEF CopiesSound
  <2> QED  BY <1>1, <1>2, <1>6, <2>2, <2>3 DEF PumpFail, CopiesSound
<1>7. CASE PumpFinish(t)
  <2>1. Moves(t, {}, {}, {})
    BY <1>7, FinishMoves
  <2>2. \A u \in Pumps : pump'[u].held \subseteq Sound
    BY <2>1 DEF Moves, CopiesSound
  <2>3. queue' \in Seq(Sound)
    <3>1. Held(t) \in Sound
      BY <1>7, HeldIs DEF PumpFinish, CopiesSound
    <3> QED  BY <1>7, <3>1, AppendKeeps DEF PumpFinish, CopiesSound
  <2>4. \A s \in Savers : save'[s].image \in Seq(Sound)
    BY <1>7, EmptySeq DEF PumpFinish, Typed, CopiesSound, ToLock
  <2> QED  BY <1>1, <1>2, <1>7, <2>2, <2>3, <2>4 DEF PumpFinish, CopiesSound
<1> QED  BY <1>3, <1>4, <1>5, <1>6, <1>7 DEF Take, Delivery

LEMMA ReceiverSound ==
    ASSUME Typed, CopiesSound, NEW h \in handling, Receiver(h)
    PROVE  CopiesSound'
<1> USE DEF mine
<1>1. h \in Handlings /\ h.to \in Peers /\ h.msg \in Msgs
  BY HandlerIs DEF Typed
<1>2. CASE Check(h)
  <2>1. shown' = shown /\ history' = history /\ dropped' = dropped
    BY <1>2 DEF Check
  <2>2. \A g \in handling' : g.step = "acked" => shown[g.to][g.msg] > 0
    <3>1. CASE shown[h.to][h.msg] > 0
      <4>1. handling' = Moved(h, "acked")
        BY <1>2, <3>1 DEF Check
      <4>2. ASSUME NEW g \in handling', g.step = "acked" PROVE shown[g.to][g.msg] > 0
        <5>1. g \in handling \/ g = [h EXCEPT !.step = "acked"]
          BY <4>1, MovedIs
        <5>2. CASE g \in handling
          BY <4>2, <5>2 DEF CopiesSound
        <5>3. CASE g = [h EXCEPT !.step = "acked"]
          BY <1>1, <3>1, <5>3, HandlerIs
        <5> QED  BY <5>1, <5>2, <5>3
      <4> QED  BY <4>2
    <3>2. CASE ~(shown[h.to][h.msg] > 0)
      <4>1. handling' = Moved(h, "append")
        BY <1>2, <3>2 DEF Check
      <4>2. [h EXCEPT !.step = "append"].step = "append"
        BY <1>1, HandlerIs
      <4>3. \A g \in handling' : g \in handling \/ g = [h EXCEPT !.step = "append"]
        BY <4>1, MovedIs
      <4> QED  BY <4>2, <4>3 DEF CopiesSound
    <3> QED  BY <3>1, <3>2
  <2> QED  BY <1>2, <2>1, <2>2, SoundStays DEF Check, CopiesSound
<1>3. CASE Show(h)
  <2>1. /\ shown'[h.to][h.msg] > 0
        /\ \A x \in Peers, m \in Msgs : shown[x][m] > 0 => shown'[x][m] > 0
    BY <1>1, <1>3 DEF Show, Typed
  <2>2. history' = history /\ dropped' = dropped /\ handling' = Moved(h, "acked")
    BY <1>3 DEF Show
  <2>3. \A g \in handling : g.step = "acked" => shown'[g.to][g.msg] > 0
    BY <2>1, <2>2, SoundStays
  <2>4. \A g \in handling' : g.step = "acked" => shown'[g.to][g.msg] > 0
    <3>1. /\ [h EXCEPT !.step = "acked"].to = h.to
          /\ [h EXCEPT !.step = "acked"].msg = h.msg
      BY <1>1, HandlerIs
    <3>2. \A g \in handling' : g \in handling \/ g = [h EXCEPT !.step = "acked"]
      BY <2>2, MovedIs
    <3> QED  BY <2>1, <2>3, <3>1, <3>2
  <2> QED  BY <1>3, <2>1, <2>2, <2>4, SoundStays DEF Show, CopiesSound
<1> QED  BY <1>2, <1>3 DEF Receiver

LEMMA CrashSound == ASSUME Typed, CopiesSound, Crash PROVE CopiesSound'
<1> USE DEF past
<1>1. history' = history /\ dropped' = dropped /\ shown' = shown
  BY DEF Crash
<1>2. \A h \in handling' : h.step = "acked" => shown[h.to][h.msg] > 0
  <2>1. \A h \in handling' :
          h \in handling \/ \E g \in handling : g.step # "acked" /\ h = [g EXCEPT !.by = Nobody]
    BY AbandonedIs DEF Crash
  <2>2. \A g \in handling : [g EXCEPT !.by = Nobody].step = g.step
    BY HandlerIs DEF Typed
  <2> QED  BY <2>1, <2>2 DEF CopiesSound
<1> QED  BY <1>1, <1>2, SoundStays DEF Crash, CopiesSound, Idle, NoSave

LEMMA InitSound == Init => CopiesSound
<1> SUFFICES ASSUME Init PROVE CopiesSound
  OBVIOUS
<1> QED  BY EmptySeq DEF Init, CopiesSound, Idle, NoSave

LEMMA SoundStep == Typed /\ CopiesSound /\ [Next]_vars => CopiesSound'
<1>1. ASSUME CopiesSound, UNCHANGED vars PROVE CopiesSound'
  BY <1>1 DEF vars, CopiesSound, Sound
<1> QED  BY <1>1, UserSound, DiscardSound, SaveSound, PumpSound, ReceiverSound, CrashSound DEF Next

\* A peer that a copy counts as having the message has it: wherever the copy
\* lies, whatever was lost, repeated, cancelled or restarted from an old file.
THEOREM AckedIsShown == Spec => []DeliveredTrue
<1>1. CopiesSound => DeliveredTrue
  BY DEF CopiesSound, DeliveredTrue, Everywhere, Sound
<1> QED  BY <1>1, InitTyped, TypedStep, InitSound, SoundStep, PTL DEF Spec

-----------------------------------------------------------------------------
(* One copy of each message.                                               *)

\* Wherever a message is, it was sent.
LEMMA SentOnly ==
    ASSUME CopiesSound
    PROVE  /\ \A i \in DOMAIN queue : queue[i].msg \in history \cup dropped
           /\ \A t \in Pumps : \A c \in pump[t].held : c.msg \in history \cup dropped
BY LenProperties DEF CopiesSound, Sound

LEMMA EmptyApart == Distinct(<<>>)
BY DEF Distinct

\* A request leaves what it does not snapshot.
LEMMA RequestApart ==
    ASSUME Typed, Apart, Request
    PROVE  \A s \in Savers : Distinct(save'[s].image)
BY EmptyApart DEF Request, ToLock, Typed, Apart

LEMMA UserApart ==
    ASSUME Typed, CopiesSound, OneCopy, User
    PROVE  OneCopy'
<1> USE DEF past
<1>1. ASSUME NEW m \in Msgs, ChatSend(m) PROVE OneCopy'
  <2> SUFFICES ASSUME budget.repeat = MaxRepeat PROVE Apart'
    BY <1>1 DEF ChatSend, OneCopy
  <2>1. Apart
    BY DEF OneCopy
  <2>2. /\ m \notin history \cup dropped /\ queue' = Append(queue, Fresh(m))
        /\ Fresh(m).msg = m /\ Fresh(m) \in Copies
    BY <1>1 DEF ChatSend, Fresh, Copies
  <2>3. \A i \in DOMAIN queue : queue[i].msg # Fresh(m).msg
    BY <2>2, SentOnly
  <2>4. Distinct(queue')
    BY <2>1, <2>2, <2>3, AppendKeeps DEF Typed, Apart
  <2>5. \A t \in Pumps : \A c \in pump[t].held : ~Queued(c.msg)'
    <3>1. \A j \in DOMAIN queue' :
            queue'[j].msg = m \/ \E k \in DOMAIN queue : queue'[j] = queue[k]
      <4>1. \A j \in DOMAIN queue' :
              queue'[j] = Fresh(m) \/ \E k \in DOMAIN queue : queue'[j] = queue[k]
        <5>1. queue \in Seq(Copies)
          BY DEF Typed
        <5>2. \A j \in DOMAIN Append(queue, Fresh(m)) :
                \/ Append(queue, Fresh(m))[j] = Fresh(m)
                \/ \E k \in DOMAIN queue : Append(queue, Fresh(m))[j] = queue[k]
          BY <2>2, <5>1, AppendKeeps
        <5> QED  BY <2>2, <5>2
      <4> QED  BY <2>2, <4>1
    <3> QED  BY <2>1, <2>2, <3>1, SentOnly DEF Apart, Queued
  <2> QED  BY <1>1, <2>1, <2>4, <2>5, RequestApart DEF ChatSend, Apart
<1>2. ASSUME NEW m \in Msgs, ChatResend(m) PROVE OneCopy'
  BY <1>2, SpendIs DEF ChatResend, OneCopy, Typed
<1>3. ASSUME NEW S, queue' = Retained(queue, S), Request, Spend("cancel"), pump' = pump, disk' = disk
      PROVE  OneCopy'
  <2> SUFFICES ASSUME budget'.repeat = MaxRepeat PROVE Apart'
    BY DEF OneCopy
  <2>1. Apart
    BY <1>3, SpendIs DEF OneCopy, Typed
  <2>2. Distinct(queue')
    BY <1>3, <2>1, RetainedKeeps DEF Typed, Apart
  <2>3. \A t \in Pumps : \A c \in pump[t].held : ~Queued(c.msg)'
    <3>1. \A j \in DOMAIN queue' : \E k \in DOMAIN queue : queue'[j] = queue[k]
      BY <1>3, RetainedKeeps DEF Typed
    <3> QED  BY <2>1, <3>1 DEF Apart, Queued
  <2> QED  BY <1>3, <2>1, <2>2, <2>3, RequestApart DEF Apart
<1>4. ASSUME NEW m \in Msgs, ChatCancelSend(m) PROVE OneCopy'
  BY <1>3, <1>4 DEF ChatCancelSend
<1>5. CASE ChatClearAll
  <2> SUFFICES ASSUME budget'.repeat = MaxRepeat PROVE Apart'
    BY DEF OneCopy
  <2>1. Apart
    BY <1>5, SpendIs DEF ChatClearAll, OneCopy, Typed
  <2> QED  BY <1>5, <2>1, RequestApart, EmptyApart DEF ChatClearAll, Apart, Queued
<1> QED  BY <1>1, <1>2, <1>4, <1>5 DEF User

LEMMA DiscardApart ==
    ASSUME Typed, OneCopy, NEW clears \in BOOLEAN, Discard(clears)
    PROVE  OneCopy'
<1> SUFFICES ASSUME budget'.repeat = MaxRepeat PROVE Apart'
  BY DEF OneCopy
<1>1. Apart
  BY SpendIs DEF Discard, OneCopy, Typed
<1>2. queue' = Retained(queue, Msgs \ Direct)
  BY DEF Discard
<1>3. Distinct(queue')
  BY <1>1, <1>2, RetainedKeeps DEF Typed, Apart
<1>4. \A t \in Pumps : \A c \in pump[t].held : ~Queued(c.msg)'
  <2>1. \A j \in DOMAIN queue' : \E k \in DOMAIN queue : queue'[j] = queue[k]
    BY <1>2, RetainedKeeps DEF Typed
  <2> QED  BY <1>1, <2>1 DEF Apart, Queued
<1>5. \A s \in Savers : Distinct(save'[s].image)
  BY <1>1, EmptyApart DEF Discard, ToLock, Typed, Apart
<1> QED  BY <1>1, <1>3, <1>4, <1>5 DEF Discard, Apart

LEMMA SaveApart ==
    ASSUME Typed, OneCopy, NEW s \in Savers, Save(s)
    PROVE  OneCopy'
<1> USE DEF past
<1> SUFFICES ASSUME budget'.repeat = MaxRepeat PROVE Apart'
  BY DEF OneCopy
<1>1. Apart /\ queue' = queue /\ pump' = pump
  BY DEF Save, SnapshotQueue, WriteQueue, OneCopy
<1>2. CASE SnapshotQueue(s)
  <2>1. \A r \in Savers : Distinct(save'[r].image)
    BY <1>1, <1>2 DEF SnapshotQueue, Typed, ToWrite, Apart
  <2> QED  BY <1>1, <1>2, <2>1 DEF SnapshotQueue, Apart, Queued
<1>3. CASE WriteQueue(s)
  <2>1. \A r \in Savers : Distinct(save'[r].image)
    BY <1>1, <1>3, EmptyApart DEF WriteQueue, Typed, NoSave, Apart
  <2>2. Distinct(disk')
    BY <1>1, <1>3 DEF WriteQueue, Apart
  <2> QED  BY <1>1, <1>3, <2>1, <2>2 DEF WriteQueue, Apart, Queued
<1> QED  BY <1>2, <1>3 DEF Save

\* A pump whose copy is of the message it had before leaves the pumps apart.
LEMMA SameApart ==
    ASSUME Typed, Apart, NEW t \in Pumps, NEW held, NEW todo, NEW now, Moves(t, held, todo, now),
           queue' = queue, disk' = disk, save' = save,
           \A c \in held : \E d \in pump[t].held : c.msg = d.msg
    PROVE  Apart'
<1>1. \A u \in Pumps : \A c \in pump'[u].held : \E d \in pump[u].held : c.msg = d.msg
  BY DEF Moves
<1>2. \A u \in Pumps : \A c \in pump'[u].held : ~Queued(c.msg)'
  BY <1>1 DEF Apart, Queued
<1>3. \A u, v \in Pumps : \A c \in pump'[u].held, d \in pump'[v].held : c.msg = d.msg => u = v
  <2> SUFFICES ASSUME NEW u \in Pumps, NEW v \in Pumps, NEW c \in pump'[u].held,
                      NEW d \in pump'[v].held, c.msg = d.msg
               PROVE  u = v
    OBVIOUS
  <2>1. PICK e \in pump[u].held : c.msg = e.msg
    BY <1>1
  <2>2. PICK f \in pump[v].held : d.msg = f.msg
    BY <1>1
  <2> QED  BY <2>1, <2>2 DEF Apart
<1> QED  BY <1>2, <1>3 DEF Apart

LEMMA PumpApart ==
    ASSUME Typed, OneCopy, NEW t \in Pumps, Take(t) \/ Delivery(t)
    PROVE  OneCopy'
<1> USE DEF past
<1> SUFFICES ASSUME budget'.repeat = MaxRepeat PROVE Apart'
  BY DEF OneCopy
<1>1. ASSUME NEW m \in Msgs, NEW S \in SUBSET Peers, PumpTake(t, m, S) PROVE Apart'
  <2> DEFINE c == queue[First(m)]
  <2>1. /\ Moves(t, {c}, S \ c.delivered, {}) /\ c.msg = m
        /\ First(m) \in DOMAIN queue /\ queue' = Without(queue, First(m))
        /\ budget.repeat = MaxRepeat
    BY <1>1, TakeMoves
  <2>2. Apart
    BY <2>1 DEF OneCopy
  <2>3. /\ Distinct(queue')
        /\ \A j \in DOMAIN queue' : queue'[j].msg # m
    BY <2>1, <2>2, WithoutKeeps DEF Typed, Apart
  <2>4. \A j \in DOMAIN queue' : \E k \in DOMAIN queue : queue'[j] = queue[k]
    <3>1. queue \in Seq(Copies)
      BY DEF Typed
    <3>2. \A j \in DOMAIN Without(queue, First(m)) :
            \E k \in DOMAIN queue : Without(queue, First(m))[j] = queue[k]
      BY <2>1, <3>1, WithoutKeeps
    <3> QED  BY <2>1, <3>2
  <2>5. Queued(m)
    BY <2>1 DEF Queued
  <2> HIDE DEF c
  <2>6. \A u \in Pumps : \/ u = t /\ pump'[u].held = {c}
                         \/ u # t /\ pump'[u].held = pump[u].held
    BY <2>1 DEF Moves
  <2>7. \A u \in Pumps : \A d \in pump[u].held : d.msg # m
    BY <2>2, <2>5 DEF Apart
  <2>8. \A u \in Pumps : \A d \in pump'[u].held : ~Queued(d.msg)'
    BY <2>1, <2>2, <2>3, <2>4, <2>6 DEF Apart, Queued
  <2>9. \A u, v \in Pumps : \A d \in pump'[u].held, e \in pump'[v].held : d.msg = e.msg => u = v
    BY <2>1, <2>2, <2>6, <2>7 DEF Apart
  <2> QED  BY <1>1, <2>2, <2>3, <2>8, <2>9 DEF PumpTake, Apart
<1>2. ASSUME NEW x \in Peers, PumpSend(t, x) PROVE Apart'
  <2>1. Moves(t, pump[t].held, pump[t].todo \ {x}, {x}) /\ Apart
    BY <1>2, SendMoves DEF PumpSend, OneCopy
  <2> QED  BY <1>2, <2>1, SameApart DEF PumpSend
<1>3. CASE PumpAcked(t)
  <2>1. PICK x \in Peers :
          /\ pump[t].held # {}
          /\ Moves(t, {[Held(t) EXCEPT !.delivered = @ \cup {x}]}, pump[t].todo, {})
    BY <1>3, AckedMoves
  <2> DEFINE c == [Held(t) EXCEPT !.delivered = @ \cup {x}]
  <2>2. c.msg = Held(t).msg /\ Held(t) \in pump[t].held
    BY <2>1, HeldIs DEF Copies
  <2>3. Moves(t, {c}, pump[t].todo, {})
    BY <2>1
  <2>4. Apart
    BY <1>3 DEF PumpAcked, OneCopy
  <2> HIDE DEF c
  <2>5. \A d \in {c} : \E e \in pump[t].held : d.msg = e.msg
    BY <2>2
  <2>6. queue' = queue /\ disk' = disk /\ save' = save
    BY <1>3 DEF PumpAcked
  <2> QED  BY <2>3, <2>4, <2>5, <2>6, SameApart
<1>4. CASE PumpFail(t)
  <2>1. Moves(t, pump[t].held, pump[t].todo, {})
    BY <1>4, FailMoves
  <2>2. Apart
    BY <1>4, SpendIs DEF PumpFail, OneCopy, Typed
  <2> QED  BY <1>4, <2>1, <2>2, SameApart DEF PumpFail
<1>5. CASE PumpFinish(t)
  <2> DEFINE c == Held(t)
  <2>1. Moves(t, {}, {}, {}) /\ Apart /\ c \in pump[t].held /\ c \in Copies
    BY <1>5, FinishMoves, HeldIs DEF PumpFinish, OneCopy
  <2>2. queue' = queue \/ queue' = Append(queue, c)
    BY <1>5 DEF PumpFinish
  <2> HIDE DEF c
  <2>3. \A i \in DOMAIN queue : queue[i].msg # c.msg
    BY <2>1 DEF Apart, Queued
  <2>4. Distinct(queue')
    <3>1. Distinct(Append(queue, c))
      BY <2>1, <2>3, AppendKeeps DEF Typed, Apart
    <3> QED  BY <2>1, <2>2, <3>1 DEF Apart
  <2>5. \A j \in DOMAIN queue' : queue'[j] = c \/ \E k \in DOMAIN queue : queue'[j] = queue[k]
    <3>1. queue \in Seq(Copies)
      BY DEF Typed
    <3>2. \A j \in DOMAIN Append(queue, c) :
            Append(queue, c)[j] = c \/ \E k \in DOMAIN queue : Append(queue, c)[j] = queue[k]
      BY <2>1, <3>1, AppendKeeps
    <3> QED  BY <2>2, <3>2
  <2>6. \A u \in Pumps : \/ u = t /\ pump'[u].held = {}
                         \/ u # t /\ pump'[u].held = pump[u].held
    BY <2>1 DEF Moves
  <2>7. \A u \in Pumps : \A d \in pump'[u].held : ~Queued(d.msg)'
    <3>1. \A u \in Pumps : \A d \in pump'[u].held : d.msg # c.msg
      BY <2>1, <2>6 DEF Apart
    <3> QED  BY <2>1, <2>5, <2>6, <3>1 DEF Apart, Queued
  <2>8. \A u, v \in Pumps : \A d \in pump'[u].held, e \in pump'[v].held : d.msg = e.msg => u = v
    BY <2>1, <2>6 DEF Apart
  <2>9. \A s \in Savers : Distinct(save'[s].image)
    BY <1>5, <2>1, EmptyApart DEF PumpFinish, ToLock, Typed, Apart
  <2> QED  BY <1>5, <2>1, <2>4, <2>7, <2>8, <2>9 DEF PumpFinish, Apart
<1> QED  BY <1>1, <1>2, <1>3, <1>4, <1>5 DEF Take, Delivery

LEMMA CrashApart == ASSUME Typed, OneCopy, Crash PROVE OneCopy'
<1> SUFFICES ASSUME budget'.repeat = MaxRepeat PROVE Apart'
  BY DEF OneCopy
<1>1. Apart
  BY SpendIs DEF Crash, OneCopy, Typed
<1> QED  BY <1>1, EmptyApart DEF Crash, Apart, Idle, NoSave

LEMMA ApartStep == Typed /\ CopiesSound /\ OneCopy /\ [Next]_vars => OneCopy'
<1>1. ASSUME OneCopy, queue' = queue, pump' = pump, save' = save, disk' = disk, budget' = budget
      PROVE  OneCopy'
  BY <1>1 DEF OneCopy, Apart, Queued
<1>2. ASSUME OneCopy, UNCHANGED vars PROVE OneCopy'
  BY <1>1, <1>2 DEF vars
<1>3. ASSUME OneCopy, NEW h \in handling, Receiver(h) PROVE OneCopy'
  BY <1>1, <1>3 DEF Receiver, Check, Show, mine
<1> QED  BY <1>2, <1>3, UserApart, DiscardApart, SaveApart, PumpApart, CrashApart DEF Next

LEMMA InitApart == Init => OneCopy
<1> SUFFICES ASSUME Init PROVE OneCopy
  OBVIOUS
<1> QED  BY EmptyApart DEF Init, OneCopy, Apart, Idle, NoSave

LEMMA OneOrNone ==
    ASSUME NEW S, \A x, y \in S : x = y
    PROVE  (S = {} => Cardinality(S) = 0) /\ (S # {} => Cardinality(S) = 1)
<1>1. ASSUME NEW x \in S PROVE Cardinality(S) = 1
  <2>1. S = {x}
    OBVIOUS
  <2>2. Cardinality({x}) = 1
    BY FS_Singleton
  <2> QED  BY <2>1, <2>2
<1> QED  BY <1>1, FS_EmptySet

\* However many pumps run at once, and whatever was lost, failed, cancelled or
\* restarted, a message is in the queue once or with one pump, unless the user
\* repeats it.
THEOREM OneCopyOnly == Spec => []OneAtATime
<1>1. Typed /\ OneCopy => OneAtATime
  <2> SUFFICES ASSUME Typed, Apart, NEW m \in Msgs PROVE Alive(m) <= 1
    BY DEF OneCopy, OneAtATime
  <2> DEFINE Q == {i \in DOMAIN queue : queue[i].msg = m}
             P == {t \in Pumps : \E c \in pump[t].held : c.msg = m}
  <2>1. \A i, j \in Q : i = j
    BY DEF Apart, Distinct
  <2>2. \A t, u \in P : t = u
    BY DEF Apart
  <2>3. Q = {} \/ P = {}
    BY DEF Apart, Queued
  <2>4. Alive(m) = Cardinality(Q) + Cardinality(P)
    BY DEF Alive
  <2> HIDE DEF Q, P
  <2>5. (Q = {} => Cardinality(Q) = 0) /\ (Q # {} => Cardinality(Q) = 1)
    BY <2>1, OneOrNone
  <2>6. (P = {} => Cardinality(P) = 0) /\ (P # {} => Cardinality(P) = 1)
    BY <2>2, OneOrNone
  <2> QED  BY <2>3, <2>4, <2>5, <2>6
<1> QED  BY <1>1, InitTyped, TypedStep, InitSound, SoundStep, InitApart, ApartStep, PTL DEF Spec

-----------------------------------------------------------------------------
(* Shown once.                                                             *)

LEMMA NoneNewShow ==
    ASSUME AboutToShow, shown' = shown, overlap' = overlap,
           \A h \in handling' : h.step = "append" => h \in handling
    PROVE  AboutToShow'
BY DEF AboutToShow

\* A handler left behind shows what it would have shown.
LEMMA LeftShow ==
    ASSUME Typed, AboutToShow, NEW S \in SUBSET Pumps, handling' = Abandoned(S),
           shown' = shown, overlap' = overlap
    PROVE  AboutToShow'
<1> DEFINE Left(g) == IF g.by \in S THEN [g EXCEPT !.by = Nobody] ELSE g
<1>1. ASSUME NEW h \in handling'
      PROVE  \E g \in handling : h.msg = g.msg /\ h.to = g.to /\ h.step = g.step /\ h = Left(g)
  <2>1. CASE h \in handling /\ h.by \notin S
    BY <2>1
  <2>2. ASSUME NEW g \in handling, g.by \in S, h = [g EXCEPT !.by = Nobody]
        PROVE  h.msg = g.msg /\ h.to = g.to /\ h.step = g.step /\ h = Left(g)
    <3>1. g \in Handlings
      BY DEF Typed
    <3> QED  BY <2>2, <3>1, HandlerIs
  <2> QED  BY <2>1, <2>2 DEF Abandoned
<1> HIDE DEF Left
<1> SUFFICES ASSUME ~overlap PROVE
             /\ \A h \in handling' : h.step = "append" => shown[h.to][h.msg] = 0
             /\ \A g, h \in handling' :
                   (g.step = "append" /\ h.step = "append" /\ g.msg = h.msg /\ g.to = h.to) => g = h
  BY DEF AboutToShow
<1>2. ASSUME NEW h \in handling', h.step = "append" PROVE shown[h.to][h.msg] = 0
  BY <1>1, <1>2 DEF AboutToShow
<1>3. ASSUME NEW h \in handling', NEW k \in handling', h.step = "append", k.step = "append",
             h.msg = k.msg, h.to = k.to
      PROVE  h = k
  <2>1. PICK g \in handling : h.msg = g.msg /\ h.to = g.to /\ h.step = g.step /\ h = Left(g)
    BY <1>1
  <2>2. PICK f \in handling : k.msg = f.msg /\ k.to = f.to /\ k.step = f.step /\ k = Left(f)
    BY <1>1
  <2>3. g = f
    BY <1>3, <2>1, <2>2 DEF AboutToShow
  <2> QED  BY <2>1, <2>2, <2>3
<1> QED  BY <1>2, <1>3

LEMMA CheckShow ==
    ASSUME Typed, AboutToShow, NEW h \in handling, Check(h)
    PROVE  AboutToShow'
<1>1. h \in Handlings /\ h.to \in Peers /\ h.msg \in Msgs
  BY HandlerIs DEF Typed
<1>2. shown' = shown /\ (overlap' = FALSE => ~overlap)
  BY DEF Check, Typed
<1>3. CASE shown[h.to][h.msg] > 0
  <2>1. \A g \in handling' : g \in handling \/ g = [h EXCEPT !.step = "acked"]
    BY <1>3, MovedIs DEF Check
  <2>2. [h EXCEPT !.step = "acked"].step = "acked"
    BY <1>1, HandlerIs
  <2>3. \A g \in handling' : g.step = "append" => g \in handling
    BY <2>1, <2>2
  <2>4. overlap' \/ overlap' = overlap
    BY DEF Check, Typed
  <2> QED  BY <1>2, <2>3, <2>4, NoneNewShow DEF AboutToShow
<1>4. CASE ~(shown[h.to][h.msg] > 0)
  <2> DEFINE k == [h EXCEPT !.step = "append"]
  <2>1. \A g \in handling' : g \in handling \/ g = k
    BY <1>4, MovedIs DEF Check
  <2>2. k.to = h.to /\ k.msg = h.msg
    BY <1>1, HandlerIs
  <2>3. shown[h.to][h.msg] = 0
    BY <1>1, <1>4 DEF Typed
  <2> HIDE DEF k
  <2> SUFFICES ASSUME ~overlap' PROVE AboutToShow'
    BY DEF AboutToShow
  <2>4. /\ ~overlap
        /\ \A g \in handling : ~(g.msg = h.msg /\ g.to = h.to /\ g.step = "append")
    BY DEF Check
  <2>5. \A g \in handling' : g.step = "append" => shown[g.to][g.msg] = 0
    BY <2>1, <2>2, <2>3, <2>4 DEF AboutToShow
  <2>6. \A f, g \in handling' :
          (f.step = "append" /\ g.step = "append" /\ f.msg = g.msg /\ f.to = g.to) => f = g
    BY <2>1, <2>2, <2>4 DEF AboutToShow
  <2> QED  BY <1>2, <2>4, <2>5, <2>6 DEF AboutToShow
<1> QED  BY <1>3, <1>4

LEMMA ShowShow ==
    ASSUME Typed, AboutToShow, NEW h \in handling, Show(h)
    PROVE  AboutToShow'
<1> SUFFICES ASSUME ~overlap PROVE AboutToShow'
  BY DEF Show, AboutToShow
<1>1. h \in Handlings /\ h.to \in Peers /\ h.msg \in Msgs
  BY HandlerIs DEF Typed
<1>2. /\ h.step = "append" /\ handling' = Moved(h, "acked")
      /\ shown' = [shown EXCEPT ![h.to][h.msg] = @ + 1]
  BY DEF Show
<1>3. shown[h.to][h.msg] = 0
  BY <1>2 DEF AboutToShow
<1>4. \A x \in Peers, m \in Msgs :
        IF x = h.to /\ m = h.msg THEN shown'[x][m] = 1 ELSE shown'[x][m] = shown[x][m]
  BY <1>1, <1>2, <1>3 DEF Typed
<1>5. \A g \in handling' : g.step = "append" => g \in handling \ {h}
  <2>1. [h EXCEPT !.step = "acked"].step = "acked"
    BY <1>1, HandlerIs
  <2> QED  BY <1>2, <2>1, MovedIs
<1>6. \A x \in Peers, m \in Msgs : shown'[x][m] <= 1
  BY <1>4 DEF AboutToShow
<1>7. ASSUME NEW g \in handling', g.step = "append" PROVE shown'[g.to][g.msg] = 0
  <2>1. g \in handling \ {h} /\ g.to \in Peers /\ g.msg \in Msgs
    BY <1>5, <1>7, HandlerIs DEF Typed
  <2>2. ~(g.to = h.to /\ g.msg = h.msg) /\ shown[g.to][g.msg] = 0
    BY <1>2, <1>7, <2>1 DEF AboutToShow
  <2> QED  BY <1>4, <2>1, <2>2
<1>8. \A f, g \in handling' :
        (f.step = "append" /\ g.step = "append" /\ f.msg = g.msg /\ f.to = g.to) => f = g
  BY <1>5 DEF AboutToShow
<1> QED  BY <1>6, <1>7, <1>8 DEF AboutToShow

LEMMA ShowStep == Typed /\ AboutToShow /\ [Next]_vars => AboutToShow'
<1> USE DEF past
<1> SUFFICES ASSUME Typed, AboutToShow, [Next]_vars PROVE AboutToShow'
  OBVIOUS
<1>1. ASSUME shown' = shown, overlap' = overlap, handling' \subseteq handling PROVE AboutToShow'
  BY <1>1, NoneNewShow
<1>2. CASE UNCHANGED vars
  BY <1>1, <1>2 DEF vars
<1>3. CASE User
  BY <1>1, <1>3 DEF User, ChatSend, ChatResend, ChatCancelSend, ChatClearAll
<1>4. ASSUME NEW clears \in BOOLEAN, Discard(clears) PROVE AboutToShow'
  BY <1>1, <1>4 DEF Discard
<1>5. ASSUME NEW s \in Savers, Save(s) PROVE AboutToShow'
  BY <1>1, <1>5 DEF Save, SnapshotQueue, WriteQueue
<1>6. ASSUME NEW t \in Pumps, Take(t) \/ Delivery(t) PROVE AboutToShow'
  <2>1. CASE Take(t)
    BY <1>1, <2>1 DEF Take, PumpTake
  <2>2. ASSUME NEW x \in Peers, PumpSend(t, x) PROVE AboutToShow'
    <3>1. Handler(t, x, "new").step # "append"
      BY DEF Handler
    <3>2. \A h \in handling' : h.step = "append" => h \in handling
      BY <2>2, <3>1 DEF PumpSend
    <3> QED  BY <2>2, <3>2, NoneNewShow DEF PumpSend
  <2>3. CASE PumpAcked(t)
    BY <1>1, <2>3 DEF PumpAcked
  <2>4. CASE PumpFail(t)
    <3>1. shown' = shown /\ overlap' = overlap
      BY <2>4 DEF PumpFail
    <3>2. handling' \subseteq handling \/ handling' = Abandoned({t})
      BY <2>4 DEF PumpFail
    <3> QED  BY <1>1, <3>1, <3>2, LeftShow
  <2>5. CASE PumpFinish(t)
    BY <1>1, <2>5 DEF PumpFinish
  <2> QED  BY <1>6, <2>1, <2>2, <2>3, <2>4, <2>5 DEF Delivery
<1>7. ASSUME NEW h \in handling, Receiver(h) PROVE AboutToShow'
  BY <1>7, CheckShow, ShowShow DEF Receiver
<1>8. CASE Crash
  BY <1>8, LeftShow DEF Crash
<1> QED  BY <1>2, <1>3, <1>4, <1>5, <1>6, <1>7, <1>8 DEF Next

\* A retry of what a peer has, from whichever pump or from before a restart, does
\* not show up again there, as long as its connections do not overlap.
THEOREM NoneTwice == Spec => []ShownOnce
<1>1. Init => AboutToShow
  BY DEF Init, AboutToShow
<1>2. AboutToShow => ShownOnce
  BY DEF AboutToShow, ShownOnce
<1> QED  BY <1>1, <1>2, InitTyped, TypedStep, ShowStep, PTL DEF Spec

-----------------------------------------------------------------------------
(* Nothing is lost while the daemon runs.                                  *)

Cared(m) == Heard(m) \/ Queued(m) \/ InHand(m)

\* What is heard stays heard, and a message in the queue or with a pump is there
\* after a step that keeps every copy of it.
LEMMA CaredStays ==
    ASSUME Typed, NEW m \in Msgs, Cared(m),
           \A x \in Peers : shown[x][m] > 0 => shown'[x][m] > 0,
           Queued(m) => Queued(m)', InHand(m) => InHand(m)'
    PROVE  Cared(m)'
<1>1. Audience(m) \subseteq Peers
  BY ChatAssumption DEF Audience
<1> QED  BY <1>1 DEF Cared, Heard, Audience

LEMMA QueueKept ==
    ASSUME Typed, NEW m,
           \A k \in DOMAIN queue : queue[k].msg = m => \E j \in DOMAIN queue' : queue'[j] = queue[k]
    PROVE  Queued(m) => Queued(m)'
BY DEF Queued

LEMMA UserKeeps ==
    ASSUME Typed, NotLost, User
    PROVE  NotLost'
<1> USE DEF past
<1> SUFFICES ASSUME budget'.crash = MaxCrash, NEW m \in history' \ dropped' PROVE Cared(m)'
  BY DEF NotLost, Cared
<1>0. queue \in Seq(Copies) /\ pump' = pump /\ shown' = shown
  BY DEF User, ChatSend, ChatResend, ChatCancelSend, ChatClearAll, Typed
<1>1. budget.crash = MaxCrash
  BY SpendIs DEF User, ChatSend, ChatResend, ChatCancelSend, ChatClearAll, Typed
<1>2. ASSUME m \in Msgs, m \in history \ dropped, Queued(m) => Queued(m)' PROVE Cared(m)'
  <2>1. Cared(m)
    BY <1>1, <1>2 DEF NotLost, Cared
  <2>2. InHand(m) => InHand(m)'
    BY <1>0 DEF InHand
  <2> QED  BY <1>0, <1>2, <2>1, <2>2, CaredStays
<1>3. ASSUME NEW n \in Msgs, queue' = Append(queue, Fresh(n)), m \in Msgs PROVE
          (Queued(m) => Queued(m)') /\ (m = n => Queued(m)')
  <2>1. Fresh(n) \in Copies /\ Fresh(n).msg = n
    BY DEF Fresh, Copies
  <2> DEFINE c == Fresh(n)
  <2>2. c \in Copies /\ c.msg = n /\ queue' = Append(queue, c)
    BY <1>3, <2>1
  <2> HIDE DEF c
  <2>3. \A k \in DOMAIN queue : \E j \in DOMAIN Append(queue, c) : Append(queue, c)[j] = queue[k]
    BY <1>0, <2>2, AppendKeeps
  <2>4. \E j \in DOMAIN Append(queue, c) : Append(queue, c)[j] = c
    BY <1>0, <2>2, AppendKeeps
  <2> QED  BY <2>2, <2>3, <2>4 DEF Queued
<1>4. ASSUME NEW n \in Msgs, ChatSend(n) PROVE Cared(m)'
  <2>1. history' = history \cup {n} /\ dropped' = dropped /\ queue' = Append(queue, Fresh(n))
    BY <1>4 DEF ChatSend
  <2>2. m \in Msgs
    BY <2>1 DEF Typed
  <2>3. CASE m = n
    BY <1>3, <2>1, <2>2, <2>3 DEF Cared
  <2>4. CASE m # n
    BY <1>2, <1>3, <2>1, <2>2, <2>4
  <2> QED  BY <2>3, <2>4
<1>5. ASSUME NEW n \in Msgs, ChatResend(n) PROVE Cared(m)'
  <2>1. /\ history' = history /\ dropped' = dropped
        /\ queue' = queue \/ queue' = Append(queue, Fresh(n))
    BY <1>5 DEF ChatResend
  <2>2. m \in Msgs
    BY <2>1 DEF Typed
  <2>3. Queued(m) => Queued(m)'
    BY <1>3, <2>1, <2>2 DEF Queued
  <2> QED  BY <1>2, <2>1, <2>2, <2>3
<1>6. ASSUME NEW n \in Msgs, ChatCancelSend(n) PROVE Cared(m)'
  <2>1. history' = history /\ dropped' = dropped \cup {n} /\ queue' = Retained(queue, Msgs \ {n})
    BY <1>6 DEF ChatCancelSend
  <2>2. m \in Msgs \ {n} /\ m \in history \ dropped
    BY <2>1 DEF Typed
  <2>3. \A k \in DOMAIN queue : queue[k].msg \in Msgs \ {n} =>
            \E j \in DOMAIN queue' : queue'[j] = queue[k]
    BY <1>0, <2>1, RetainedKeeps
  <2> QED  BY <1>2, <2>2, <2>3, QueueKept
<1>7. CASE ChatClearAll
  BY <1>7 DEF ChatClearAll
<1> QED  BY <1>4, <1>5, <1>6, <1>7 DEF User

LEMMA DiscardKeeps ==
    ASSUME Typed, NotLost, NEW clears \in BOOLEAN, Discard(clears)
    PROVE  NotLost'
<1> SUFFICES ASSUME budget'.crash = MaxCrash, NEW m \in history' \ dropped' PROVE Cared(m)'
  BY DEF NotLost, Cared
<1>1. budget.crash = MaxCrash
  BY SpendIs DEF Discard, Typed
<1>2. m \in history \ dropped /\ m \in Msgs \ Direct
  BY DEF Discard, Typed
<1>3. queue \in Seq(Copies) /\ pump' = pump /\ shown' = shown /\ queue' = Retained(queue, Msgs \ Direct)
  BY DEF Discard, Typed
<1>4. \A k \in DOMAIN queue : queue[k].msg \in Msgs \ Direct =>
          \E j \in DOMAIN queue' : queue'[j] = queue[k]
  BY <1>3, RetainedKeeps
<1>5. Cared(m) /\ (InHand(m) => InHand(m)')
  BY <1>1, <1>2, <1>3 DEF NotLost, Cared, InHand
<1> QED  BY <1>2, <1>3, <1>4, <1>5, QueueKept, CaredStays

\* A pump that gives up a copy has delivered it, or puts it back.
LEMMA DoneHeard ==
    ASSUME Typed, CopiesSound, NEW c \in Sound, Done(c)
    PROVE  Heard(c.msg)
<1>1. c \in Copies /\ \A x \in c.delivered : shown[x][c.msg] > 0
  BY DEF Sound
<1>2. c.delivered \subseteq Peers
  BY <1>1 DEF Copies
<1> QED  BY <1>1, <1>2, ChatAssumption DEF Done, Heard, Audience

LEMMA PumpKeeps ==
    ASSUME Typed, CopiesSound, NotLost, NEW t \in Pumps, Take(t) \/ Delivery(t)
    PROVE  NotLost'
<1> USE DEF past
<1> SUFFICES ASSUME budget'.crash = MaxCrash, NEW m \in history' \ dropped' PROVE Cared(m)'
  BY DEF NotLost, Cared
<1>0. history' = history /\ dropped' = dropped /\ shown' = shown /\ queue \in Seq(Copies)
  BY DEF Take, Delivery, PumpTake, PumpSend, PumpAcked, PumpFail, PumpFinish, Typed
<1>1. m \in history \ dropped /\ m \in Msgs
  BY <1>0 DEF Typed
<1>2. ASSUME budget.crash = MaxCrash, Queued(m) => Queued(m)', InHand(m) => InHand(m)'
      PROVE  Cared(m)'
  <2>1. Cared(m)
    BY <1>1, <1>2 DEF NotLost, Cared
  <2> QED  BY <1>0, <1>1, <1>2, <2>1, CaredStays
<1>3. ASSUME NEW held, NEW todo, NEW now, Moves(t, held, todo, now), queue' = queue,
             \A c \in pump[t].held : \E d \in held : d.msg = c.msg, budget.crash = MaxCrash
      PROVE  Cared(m)'
  <2>1. InHand(m) => InHand(m)'
    BY <1>3 DEF InHand, Moves
  <2> QED  BY <1>2, <1>3, <2>1 DEF Queued
<1>4. ASSUME NEW n \in Msgs, NEW S \in SUBSET Peers, PumpTake(t, n, S) PROVE Cared(m)'
  <2> DEFINE c == queue[First(n)]
  <2>1. /\ Moves(t, {c}, S \ c.delivered, {}) /\ c.msg = n /\ pump[t] = Idle
        /\ First(n) \in DOMAIN queue /\ queue' = Without(queue, First(n))
        /\ budget.crash = MaxCrash
    BY <1>4, TakeMoves
  <2>2. \A k \in DOMAIN queue \ {First(n)} : \E j \in DOMAIN queue' : queue'[j] = queue[k]
    BY <1>0, <2>1, WithoutKeeps
  <2> HIDE DEF c
  <2>3. InHand(m) => InHand(m)'
    BY <2>1 DEF InHand, Moves, Idle
  <2>4. CASE m = n
    <3>1. InHand(m)'
      BY <2>1, <2>4 DEF InHand, Moves
    <3> QED  BY <3>1 DEF Cared
  <2>5. CASE m # n
    <3>1. \A k \in DOMAIN queue : queue[k].msg = m => k # First(n)
      BY <2>1, <2>5 DEF c
    <3>2. Queued(m) => Queued(m)'
      BY <2>2, <3>1, QueueKept
    <3> QED  BY <1>2, <2>1, <2>3, <3>2
  <2> QED  BY <2>4, <2>5
<1>5. ASSUME NEW x \in Peers, PumpSend(t, x) PROVE Cared(m)'
  <2>1. Moves(t, pump[t].held, pump[t].todo \ {x}, {x})
    BY <1>5, SendMoves
  <2>2. queue' = queue /\ budget' = budget
    BY <1>5 DEF PumpSend
  <2> QED  BY <1>3, <2>1, <2>2
<1>6. CASE PumpAcked(t)
  <2>1. PICK x \in Peers :
          /\ pump[t].held # {}
          /\ Moves(t, {[Held(t) EXCEPT !.delivered = @ \cup {x}]}, pump[t].todo, {})
    BY <1>6, AckedMoves
  <2> DEFINE c == [Held(t) EXCEPT !.delivered = @ \cup {x}]
  <2>2. c.msg = Held(t).msg /\ pump[t].held = {Held(t)}
    BY <2>1, HeldIs DEF Copies
  <2>3. Moves(t, {c}, pump[t].todo, {}) /\ queue' = queue /\ budget' = budget
    BY <1>6, <2>1 DEF PumpAcked
  <2> HIDE DEF c
  <2>4. \A d \in pump[t].held : \E e \in {c} : e.msg = d.msg
    BY <2>2
  <2> QED  BY <1>3, <2>3, <2>4
<1>7. CASE PumpFail(t)
  <2>1. Moves(t, pump[t].held, pump[t].todo, {})
    BY <1>7, FailMoves
  <2>2. queue' = queue /\ budget.crash = MaxCrash
    BY <1>7, SpendIs DEF PumpFail, Typed
  <2> QED  BY <1>3, <2>1, <2>2
<1>8. CASE PumpFinish(t)
  <2> DEFINE c == Held(t)
  <2>1. Moves(t, {}, {}, {}) /\ pump[t].held = {c} /\ c \in pump[t].held /\ c \in Copies
    BY <1>8, FinishMoves, HeldIs DEF PumpFinish
  <2>2. /\ queue' = IF Done(c) THEN queue ELSE Append(queue, c)
        /\ budget' = budget
    BY <1>8 DEF PumpFinish
  <2>3. c \in Sound
    BY <2>1 DEF CopiesSound
  <2> HIDE DEF c
  <2>4. /\ \A k \in DOMAIN queue : \E j \in DOMAIN Append(queue, c) : Append(queue, c)[j] = queue[k]
        /\ \E j \in DOMAIN Append(queue, c) : Append(queue, c)[j] = c
    BY <1>0, <2>1, AppendKeeps
  <2>5. Queued(m) => Queued(m)'
    BY <2>2, <2>4 DEF Queued
  <2>6. CASE m = c.msg
    <3>1. CASE Done(c)
      <4>1. Heard(m)
        BY <2>3, <2>6, <3>1, DoneHeard
      <4> QED  BY <1>0, <4>1 DEF Cared, Heard
    <3>2. CASE ~Done(c)
      BY <2>2, <2>4, <2>6, <3>2 DEF Cared, Queued
    <3> QED  BY <3>1, <3>2
  <2>7. CASE m # c.msg
    <3>1. InHand(m) => InHand(m)'
      BY <2>1, <2>7 DEF InHand, Moves
    <3> QED  BY <1>2, <2>2, <2>5, <3>1
  <2> QED  BY <2>6, <2>7
<1> QED  BY <1>4, <1>5, <1>6, <1>7, <1>8 DEF Take, Delivery

LEMMA KeptStep == Typed /\ CopiesSound /\ NotLost /\ [Next]_vars => NotLost'
<1> USE DEF past
<1> SUFFICES ASSUME Typed, CopiesSound, NotLost, [Next]_vars PROVE NotLost'
  OBVIOUS
<1>1. ASSUME history' = history, dropped' = dropped, queue' = queue, pump' = pump, budget' = budget,
             \A x \in Peers, m \in Msgs : shown[x][m] > 0 => shown'[x][m] > 0
      PROVE  NotLost'
  <2> SUFFICES ASSUME budget.crash = MaxCrash, NEW m \in history \ dropped PROVE Cared(m)'
    BY <1>1 DEF NotLost, Cared
  <2>1. Cared(m) /\ m \in Msgs
    BY DEF NotLost, Cared, Typed
  <2> QED  BY <1>1, <2>1, CaredStays DEF Queued, InHand
<1>2. CASE UNCHANGED vars
  BY <1>1, <1>2 DEF vars
<1>3. ASSUME NEW s \in Savers, Save(s) PROVE NotLost'
  BY <1>1, <1>3 DEF Save, SnapshotQueue, WriteQueue
<1>4. ASSUME NEW h \in handling, Receiver(h) PROVE NotLost'
  <2>1. CASE Check(h)
    BY <1>1, <2>1 DEF Check, mine
  <2>2. CASE Show(h)
    <3>1. h.to \in Peers /\ h.msg \in Msgs
      BY HandlerIs DEF Typed
    <3>2. \A x \in Peers, m \in Msgs : shown[x][m] > 0 => shown'[x][m] > 0
      BY <2>2, <3>1 DEF Show, Typed
    <3> QED  BY <1>1, <2>2, <3>2 DEF Show, mine
  <2> QED  BY <1>4, <2>1, <2>2 DEF Receiver
<1>5. CASE Crash
  BY <1>5, SpendIs DEF Crash, NotLost, Typed
<1> QED  BY <1>2, <1>3, <1>4, <1>5, UserKeeps, DiscardKeeps, PumpKeeps DEF Next

\* While the daemon runs, whatever is repeated, cancelled, missed or fails, a
\* message that was neither delivered nor dropped is in the queue or with a pump.
THEOREM NoneLost == Spec => []NoSilentLoss
<1>1. Init => NotLost
  BY DEF Init, NotLost
<1>2. Typed /\ NotLost => NoSilentLoss
  <2> SUFFICES ASSUME Typed, NotLost, budget.crash = MaxCrash, NEW m \in history \ dropped,
                      ~Heard(m)
               PROVE  Alive(m) > 0
    BY DEF NoSilentLoss, Kept
  <2> DEFINE Q == {i \in DOMAIN queue : queue[i].msg = m}
             P == {t \in Pumps : \E c \in pump[t].held : c.msg = m}
  <2>1. Q # {} \/ P # {}
    BY DEF NotLost, Queued, InHand
  <2>2. IsFiniteSet(Q)
    <3>1. Len(queue) \in Nat /\ DOMAIN queue = 1 .. Len(queue)
      BY DEF Typed
    <3>2. IsFiniteSet(1 .. Len(queue))
      BY <3>1, FS_Interval
    <3> QED  BY <3>1, <3>2, FS_Subset
  <2>3. IsFiniteSet(P)
    BY ChatAssumption, FS_Subset
  <2>4. Alive(m) = Cardinality(Q) + Cardinality(P)
    BY DEF Alive
  <2> HIDE DEF Q, P
  <2>5. Cardinality(Q) \in Nat /\ (Cardinality(Q) = 0 <=> Q = {})
    BY <2>2, FS_CardinalityType, FS_EmptySet
  <2>6. Cardinality(P) \in Nat /\ (Cardinality(P) = 0 <=> P = {})
    BY <2>3, FS_CardinalityType, FS_EmptySet
  <2> QED  BY <2>1, <2>4, <2>5, <2>6
<1> QED  BY <1>1, <1>2, InitTyped, TypedStep, InitSound, SoundStep, KeptStep, PTL DEF Spec

\* All of it at once, whatever the messages, the peers and the bounds.
THEOREM QueueInvariant == Spec => []Inv
<1>1. Init => AboutToShow /\ NotLost
  BY DEF Init, AboutToShow, NotLost
<1>2. Init => Inv
  BY <1>1, InitTyped, InitSound, InitApart DEF Inv
<1>3. Inv /\ [Next]_vars => Inv'
  BY TypedStep, SoundStep, ApartStep, ShowStep, KeptStep DEF Inv
<1> QED  BY <1>2, <1>3, PTL DEF Spec
=============================================================================
