---------------------------- MODULE PvrListsProofs ----------------------------
(***************************************************************************)
(* Proofs about PvrBuffers: the list of mappings, the cache of freed       *)
(* buffers and their counters agree with the records and buffers they are  *)
(* about, the mapping of scanout is the one that is remembered apart, and  *)
(* the least recently used mapping is never one that is in use.            *)
(***************************************************************************)
EXTENDS PvrBuffersProofs, WellFoundedInduction

-----------------------------------------------------------------------------
(* Induction over the natural numbers, and what it lets one define. *)

\* Numbers, if there are any, have a least one.
LEMMA LeastNumber ==
  ASSUME NEW S \in SUBSET Nat, S # {}
  PROVE  \E m \in S : \A k \in S : m <= k
<1>1. PICK R : /\ IsWellFoundedOn(R, Nat)
               /\ \A x, y \in Nat : <<y, x>> \in R <=> y < x
  <2> DEFINE Q == OpToRel(<, Nat)
  <2>1. IsWellFoundedOn(Q, Nat)
    BY NatLessThanWellFounded
  <2>2. \A x, y \in Nat : <<y, x>> \in Q <=> y < x
    BY DEF OpToRel
  <2> HIDE DEF Q
  <2> QED  BY <2>1, <2>2
<1>2. PICK x \in S : \A y \in S : ~ (<<y, x>> \in R)
  BY <1>1, WFMin
<1>3. \A y \in S : ~ (y < x)
  BY <1>1, <1>2
<1>4. \A y \in S : x <= y
  BY <1>3
<1> QED  BY <1>4

\* A set with 0, and the successor of each of its numbers, has them all.
LEMMA NumbersInduction ==
  ASSUME NEW T, 0 \in T, \A n \in Nat : n \in T => n + 1 \in T
  PROVE  Nat \subseteq T
<1> DEFINE S == {n \in Nat : n \notin T}
<1> SUFFICES ASSUME S # {} PROVE FALSE
  OBVIOUS
<1>1. PICK m \in S : \A k \in S : m <= k
  <2>1. S \in SUBSET Nat
    OBVIOUS
  <2> HIDE DEF S
  <2> QED  BY <2>1, LeastNumber
<1>2. m # 0 /\ m - 1 \in Nat
  OBVIOUS
<1>3. m - 1 \in T
  BY <1>1, <1>2
<1> QED  BY <1>2, <1>3

\* f goes from a through n steps of g.
Steps(f, S, a, n, g) ==
  f \in [0 .. n -> S] /\ f[0] = a /\ \A i \in 1 .. n : f[i] = g[i][f[i - 1]]

\* There is such a function.
LEMMA StepsExist ==
  ASSUME NEW S, NEW a \in S, NEW n \in Nat, NEW g \in [1 .. n -> [S -> S]]
  PROVE  \E f : Steps(f, S, a, n, g)
<1> DEFINE T == {m \in Nat : m <= n => \E f : Steps(f, S, a, m, g)}
<1>1. 0 \in T
  <2>1. Steps([i \in 0 .. 0 |-> a], S, a, 0, g)
    BY DEF Steps
  <2> QED  BY <2>1
<1>2. ASSUME NEW m \in Nat, m \in T PROVE m + 1 \in T
  <2> SUFFICES ASSUME m + 1 <= n PROVE \E f : Steps(f, S, a, m + 1, g)
    OBVIOUS
  <2>1. PICK f : Steps(f, S, a, m, g)
    BY <1>2
  <2> DEFINE h == [i \in 0 .. (m + 1) |-> IF i = m + 1 THEN g[m + 1][f[m]] ELSE f[i]]
  <2>2. f[m] \in S /\ g[m + 1] \in [S -> S]
    BY <2>1 DEF Steps
  <2>3. h \in [0 .. (m + 1) -> S] /\ h[0] = a
    BY <2>1, <2>2 DEF Steps
  <2>4. ASSUME NEW i \in 1 .. (m + 1) PROVE h[i] = g[i][h[i - 1]]
    <3>1. CASE i = m + 1
      <4>1. h[i] = g[m + 1][f[m]] /\ h[i - 1] = f[m]
        BY <3>1
      <4> QED  BY <3>1, <4>1
    <3>2. CASE i \in 1 .. m
      <4>1. h[i] = f[i] /\ h[i - 1] = f[i - 1]
        BY <3>2
      <4> QED  BY <2>1, <3>2, <4>1 DEF Steps
    <3> QED  BY <3>1, <3>2
  <2> HIDE DEF h
  <2>5. Steps(h, S, a, m + 1, g)
    BY <2>3, <2>4 DEF Steps
  <2> QED  BY <2>5
<1> HIDE DEF T
<1>3. Nat \subseteq T
  BY <1>1, <1>2, NumbersInduction
<1> QED  BY <1>3 DEF T

-----------------------------------------------------------------------------
(* The pages of a list of cache entries. *)

\* Total, of buffers that have the sizes w.
TotalIn(s, w) ==
  LET sum[i \in 0 .. Len(s)] == IF i = 0 THEN 0 ELSE sum[i - 1] + w[s[i].bo]
  IN  sum[Len(s)]

\* The sizes of its entries.
Sizes(s, w) == [i \in 1 .. Len(s) |-> w[s[i].bo]]

\* f has the sums of the first numbers of a.
Sums(f, n, a) == f \in [0 .. n -> Nat] /\ f[0] = 0 /\ \A i \in 1 .. n : f[i] = f[i - 1] + a[i]

\* d numbers of a after the k-th are those of b after the l-th.
SameStretch(a, n, k, b, m, l, d) ==
  /\ n \in Nat /\ a \in [1 .. n -> Nat] /\ k \in Nat /\ d \in Nat /\ k + d <= n
  /\ m \in Nat /\ b \in [1 .. m -> Nat] /\ l \in Nat /\ l + d <= m
  /\ \A i \in 1 .. d : a[k + i] = b[l + i]

\* Stretches of the same numbers add up to the same.
LEMMA SumsAgree ==
  ASSUME NEW n, NEW m, NEW a, NEW b, NEW k, NEW l, NEW d, NEW f, NEW g,
         Sums(f, n, a), Sums(g, m, b), SameStretch(a, n, k, b, m, l, d)
  PROVE  f[k + d] - f[k] = g[l + d] - g[l]
<1>0. /\ n \in Nat /\ a \in [1 .. n -> Nat] /\ k \in Nat /\ d \in Nat /\ k + d <= n
      /\ m \in Nat /\ b \in [1 .. m -> Nat] /\ l \in Nat /\ l + d <= m
      /\ \A i \in 1 .. d : a[k + i] = b[l + i]
  BY DEF SameStretch
<1> DEFINE T == {i \in Nat : i <= d => f[k + i] - f[k] = g[l + i] - g[l]}
<1>1. \A i \in 0 .. d : k + i \in 0 .. n /\ l + i \in 0 .. m
  BY <1>0
<1>2. \A i \in 0 .. d : f[k + i] \in Nat /\ g[l + i] \in Nat
  BY <1>1 DEF Sums
<1>3. 0 \in T
  <2>1. k + 0 = k /\ l + 0 = l /\ 0 \in 0 .. d
    BY <1>0
  <2>2. f[k] \in Nat /\ g[l] \in Nat
    BY <1>2, <2>1
  <2> QED  BY <2>1, <2>2
<1>4. ASSUME NEW i \in Nat, i \in T PROVE i + 1 \in T
  <2> SUFFICES ASSUME i + 1 <= d PROVE f[k + (i + 1)] - f[k] = g[l + (i + 1)] - g[l]
    OBVIOUS
  <2>1. f[k + i] - f[k] = g[l + i] - g[l]
    <3>1. i <= d
      BY <1>0
    <3> QED  BY <1>4, <3>1
  <2>2. f[k + (i + 1)] = f[k + i] + a[k + (i + 1)]
    <3>1. k + (i + 1) \in 1 .. n /\ (k + (i + 1)) - 1 = k + i
      BY <1>0
    <3> QED  BY <3>1 DEF Sums
  <2>3. g[l + (i + 1)] = g[l + i] + b[l + (i + 1)]
    <3>1. l + (i + 1) \in 1 .. m /\ (l + (i + 1)) - 1 = l + i
      BY <1>0
    <3> QED  BY <3>1 DEF Sums
  <2>4. a[k + (i + 1)] = b[l + (i + 1)] /\ a[k + (i + 1)] \in Nat
    <3>1. i + 1 \in 1 .. d /\ k + (i + 1) \in 1 .. n
      BY <1>0
    <3> QED  BY <1>0, <3>1
  <2>5. f[k + i] \in Nat /\ g[l + i] \in Nat /\ f[k] \in Nat /\ g[l] \in Nat
    <3>1. i \in 0 .. d /\ 0 \in 0 .. d /\ k + 0 = k /\ l + 0 = l
      BY <1>0
    <3> QED  BY <1>2, <3>1
  <2> DEFINE p == f[k + i]
             q == f[k]
             r == g[l + i]
             s == g[l]
             x == a[k + (i + 1)]
  <2>6. f[k + (i + 1)] = p + x /\ g[l + (i + 1)] = r + x
    BY <2>2, <2>3, <2>4
  <2>7. p \in Nat /\ q \in Nat /\ r \in Nat /\ s \in Nat /\ x \in Nat /\ p - q = r - s
    BY <2>1, <2>4, <2>5
  <2> HIDE DEF p, q, r, s, x
  <2>8. (p + x) - q = (r + x) - s
    BY <2>7
  <2>9. f[k + (i + 1)] - q = g[l + (i + 1)] - s
    BY <2>6, <2>8
  <2> QED  BY <2>9 DEF q, s
<1> HIDE DEF T
<1>5. Nat \subseteq T
  BY <1>3, <1>4, NumbersInduction
<1> QED  BY <1>0, <1>5 DEF T

\* The numbers there are to add.
LEMMA SizesType ==
  ASSUME NEW s \in Seq(Entry), NEW w \in [Bo -> Nat]
  PROVE  /\ Len(s) \in Nat /\ Sizes(s, w) \in [1 .. Len(s) -> Nat]
         /\ \A i \in 1 .. Len(s) : Sizes(s, w)[i] = w[s[i].bo]
<1>1. \A i \in 1 .. Len(s) : s[i] \in Entry
  OBVIOUS
<1>2. \A i \in 1 .. Len(s) : w[s[i].bo] \in Nat
  BY <1>1 DEF Entry
<1> QED  BY <1>2 DEF Sizes

\* The sums exist, and Total is the last.
LEMMA TotalSums ==
  ASSUME NEW s \in Seq(Entry), NEW w \in [Bo -> Nat]
  PROVE  \E f : Sums(f, Len(s), Sizes(s, w)) /\ TotalIn(s, w) = f[Len(s)]
<1> DEFINE n == Len(s)
           a == Sizes(s, w)
           F(f) == [i \in 0 .. n |-> IF i = 0 THEN 0 ELSE f[i - 1] + w[s[i].bo]]
           c == CHOOSE f : f = F(f)
           g == [i \in 1 .. n |-> [x \in Nat |-> x + a[i]]]
<1>1. TotalIn(s, w) = c[n]
  BY DEF TotalIn
<1>2. n \in Nat /\ a \in [1 .. n -> Nat] /\ \A i \in 1 .. n : a[i] = w[s[i].bo]
  BY SizesType
<1> HIDE DEF c, n, a
<1>3. g \in [1 .. n -> [Nat -> Nat]]
  BY <1>2
<1>4. \A i \in 1 .. n, x \in Nat : g[i][x] = x + a[i]
  OBVIOUS
<1> HIDE DEF g
<1>5. PICK h : Steps(h, Nat, 0, n, g)
  BY <1>2, <1>3, StepsExist
<1>6. Sums(h, n, a)
  <2>1. h \in [0 .. n -> Nat] /\ h[0] = 0
    BY <1>5 DEF Steps
  <2>2. ASSUME NEW i \in 1 .. n PROVE h[i] = h[i - 1] + a[i]
    <3>1. h[i - 1] \in Nat
      BY <1>2, <2>1
    <3> QED  BY <1>4, <1>5, <3>1 DEF Steps
  <2> QED  BY <2>1, <2>2 DEF Sums
<1>7. h = F(h)
  <2>1. h = [i \in 0 .. n |-> h[i]]
    BY <1>6 DEF Sums
  <2>2. ASSUME NEW i \in 0 .. n PROVE h[i] = IF i = 0 THEN 0 ELSE h[i - 1] + w[s[i].bo]
    <3>1. CASE i = 0
      BY <1>6, <3>1 DEF Sums
    <3>2. CASE i \in 1 .. n
      BY <1>2, <1>6, <3>2 DEF Sums
    <3> QED  BY <1>2, <3>1, <3>2
  <2> QED  BY <2>1, <2>2
<1>8. c = F(c)
  BY <1>7 DEF c
<1>9. \A i \in 0 .. n : c[i] = IF i = 0 THEN 0 ELSE c[i - 1] + w[s[i].bo]
  BY <1>8
<1> DEFINE T == {i \in Nat : i <= n => c[i] = h[i]}
<1>10. \A i \in 0 .. n : c[i] = h[i]
  <2>1. 0 \in T
    BY <1>2, <1>6, <1>9 DEF Sums
  <2>2. ASSUME NEW i \in Nat, i \in T PROVE i + 1 \in T
    <3> SUFFICES ASSUME i + 1 <= n PROVE c[i + 1] = h[i + 1]
      OBVIOUS
    <3>1. (i + 1) - 1 = i /\ i + 1 \in 1 .. n /\ i + 1 \in 0 .. n /\ i + 1 # 0
      BY <1>2
    <3>2. c[i + 1] = c[i] + w[s[i + 1].bo]
      BY <1>9, <3>1
    <3>3. h[i + 1] = h[i] + a[i + 1]
      BY <1>6, <3>1 DEF Sums
    <3> QED  BY <1>2, <2>2, <3>1, <3>2, <3>3
  <2> HIDE DEF T
  <2>3. Nat \subseteq T
    BY <2>1, <2>2, NumbersInduction
  <2> QED  BY <2>3 DEF T
<1>11. c[n] = h[n]
  BY <1>2, <1>10
<1> QED  BY <1>1, <1>6, <1>11 DEF n, a

\* Lists of entries that have the same sizes have the same pages.
LEMMA TotalOfSizes ==
  ASSUME NEW s \in Seq(Entry), NEW v \in [Bo -> Nat], NEW w \in [Bo -> Nat],
         \A b \in BosOf(s) : v[b] = w[b]
  PROVE  TotalIn(s, v) = TotalIn(s, w) /\ TotalIn(s, v) \in Nat
<1> DEFINE n == Len(s)
           a == Sizes(s, v)
           b == Sizes(s, w)
<1>1. /\ n \in Nat /\ a \in [1 .. n -> Nat] /\ b \in [1 .. n -> Nat]
      /\ \A i \in 1 .. n : a[i] = v[s[i].bo] /\ b[i] = w[s[i].bo]
  BY SizesType
<1>2. \A i \in 1 .. n : a[i] = b[i]
  BY <1>1 DEF BosOf
<1>3. PICK f : Sums(f, n, a) /\ TotalIn(s, v) = f[n]
  BY TotalSums
<1>4. PICK g : Sums(g, n, b) /\ TotalIn(s, w) = g[n]
  BY TotalSums
<1> HIDE DEF n, a, b
<1>5. f[0] = 0 /\ g[0] = 0 /\ f[n] \in Nat /\ g[n] \in Nat
  BY <1>1, <1>3, <1>4 DEF Sums
<1>6. SameStretch(a, n, 0, b, n, 0, n)
  <2>1. 0 + n <= n /\ 0 \in Nat /\ \A i \in 1 .. n : 0 + i = i
    BY <1>1
  <2> QED  BY <1>1, <1>2, <2>1 DEF SameStretch
<1>7. f[0 + n] - f[0] = g[0 + n] - g[0]
  BY <1>3, <1>4, <1>6, SumsAgree
<1>8. 0 + n = n
  BY <1>1
<1> QED  BY <1>3, <1>4, <1>5, <1>7, <1>8

\* The pages of two lists, one after the other.
LEMMA TotalConcat ==
  ASSUME NEW s \in Seq(Entry), NEW t \in Seq(Entry), NEW w \in [Bo -> Nat]
  PROVE  TotalIn(s \o t, w) = TotalIn(s, w) + TotalIn(t, w)
<1> DEFINE u == s \o t
           a == Sizes(s, w)
           b == Sizes(t, w)
           c == Sizes(u, w)
           n == Len(s)
           m == Len(t)
<1>1. /\ u \in Seq(Entry) /\ Len(u) = n + m
      /\ \A i \in 1 .. n : u[i] = s[i]
      /\ \A i \in 1 .. m : u[n + i] = t[i]
  OBVIOUS
<1> HIDE DEF u
<1>2. /\ n \in Nat /\ a \in [1 .. n -> Nat] /\ \A i \in 1 .. n : a[i] = w[s[i].bo]
      /\ m \in Nat /\ b \in [1 .. m -> Nat] /\ \A i \in 1 .. m : b[i] = w[t[i].bo]
      /\ c \in [1 .. n + m -> Nat] /\ \A i \in 1 .. n + m : c[i] = w[u[i].bo]
  BY <1>1, SizesType
<1>3. PICK f : Sums(f, n + m, c) /\ TotalIn(u, w) = f[n + m]
  BY <1>1, TotalSums
<1>4. PICK g : Sums(g, n, a) /\ TotalIn(s, w) = g[n]
  BY TotalSums
<1>5. PICK h : Sums(h, m, b) /\ TotalIn(t, w) = h[m]
  BY TotalSums
<1> HIDE DEF a, b, c, n, m
<1>6. SameStretch(c, n + m, 0, a, n, 0, n)
  <2>1. ASSUME NEW i \in 1 .. n PROVE c[i] = a[i] /\ 0 + i = i
    <3>1. i \in 1 .. n + m /\ 0 + i = i
      BY <1>2
    <3>2. c[i] = w[u[i].bo]
      BY <1>2, <3>1
    <3> QED  BY <1>1, <1>2, <3>1, <3>2
  <2>2. 0 + n <= n + m /\ 0 + n <= n /\ 0 \in Nat /\ n + m \in Nat
    BY <1>2
  <2> QED  BY <1>2, <2>1, <2>2 DEF SameStretch
<1>7. SameStretch(c, n + m, n, b, m, 0, m)
  <2>1. ASSUME NEW i \in 1 .. m PROVE c[n + i] = b[i] /\ 0 + i = i
    <3>1. n + i \in 1 .. n + m /\ 0 + i = i
      BY <1>2
    <3>2. c[n + i] = w[u[n + i].bo]
      BY <1>2, <3>1
    <3> QED  BY <1>1, <1>2, <3>1, <3>2
  <2>2. 0 + m <= m /\ 0 \in Nat /\ n + m \in Nat /\ n + m <= n + m
    BY <1>2
  <2> QED  BY <1>2, <2>1, <2>2 DEF SameStretch
<1>8. f[0 + n] - f[0] = g[0 + n] - g[0]
  BY <1>3, <1>4, <1>6, SumsAgree
<1>9. f[n + m] - f[n] = h[0 + m] - h[0]
  BY <1>3, <1>5, <1>7, SumsAgree
<1>10. /\ f[0] = 0 /\ g[0] = 0 /\ h[0] = 0
       /\ f[n] \in Nat /\ f[n + m] \in Nat /\ g[n] \in Nat /\ h[m] \in Nat
  <2>1. n \in 0 .. n + m /\ n + m \in 0 .. n + m /\ n \in 0 .. n /\ m \in 0 .. m
    BY <1>2
  <2> QED  BY <1>3, <1>4, <1>5, <2>1 DEF Sums
<1>11. 0 + n = n /\ 0 + m = m
  BY <1>2
<1>12. TotalIn(u, w) = TotalIn(s, w) + TotalIn(t, w)
  BY <1>3, <1>4, <1>5, <1>8, <1>9, <1>10, <1>11
<1> QED  BY <1>12 DEF u

\* Of one entry, or of none.
LEMMA TotalOfOne ==
  ASSUME NEW w \in [Bo -> Nat]
  PROVE  TotalIn(<<>>, w) = 0 /\ \A e \in Entry : TotalIn(<<e>>, w) = w[e.bo]
<1>1. TotalIn(<<>>, w) = 0
  <2> DEFINE s == <<>>
  <2>1. s \in Seq(Entry) /\ Len(s) = 0
    OBVIOUS
  <2> HIDE DEF s
  <2>2. PICK f : Sums(f, Len(s), Sizes(s, w)) /\ TotalIn(s, w) = f[Len(s)]
    BY <2>1, TotalSums
  <2>3. TotalIn(s, w) = 0
    BY <2>1, <2>2 DEF Sums
  <2> QED  BY <2>3 DEF s
<1>2. ASSUME NEW e \in Entry PROVE TotalIn(<<e>>, w) = w[e.bo]
  <2> DEFINE s == <<e>>
  <2>1. s \in Seq(Entry) /\ Len(s) = 1 /\ s[1] = e
    OBVIOUS
  <2> HIDE DEF s
  <2>2. PICK f : Sums(f, Len(s), Sizes(s, w)) /\ TotalIn(s, w) = f[Len(s)]
    BY <2>1, TotalSums
  <2>3. Sizes(s, w)[1] = w[e.bo] /\ w[e.bo] \in Nat
    <3>1. 1 \in 1 .. Len(s)
      BY <2>1
    <3>2. w[e.bo] \in Nat
      BY DEF Entry
    <3> QED  BY <2>1, <3>1, <3>2, SizesType
  <2>4. f[0] = 0 /\ f[1] = f[1 - 1] + Sizes(s, w)[1]
    BY <2>1, <2>2 DEF Sums
  <2>5. TotalIn(s, w) = w[e.bo]
    BY <2>1, <2>2, <2>3, <2>4
  <2> QED  BY <2>5 DEF s
<1> QED  BY <1>1, <1>2

\* Total is that of the sizes there are.
LEMMA TotalNow ==
  \A s : Total(s) = TotalIn(s, size) /\ Total(s)' = TotalIn(s', size')
  BY DEF Total, TotalIn

\* It is a number of pages, none for an empty list.
LEMMA TotalType ==
  ASSUME NEW s \in Seq(Entry), NEW w \in [Bo -> Nat]
  PROVE  Len(s) \in Nat /\ TotalIn(s, w) \in Nat /\ (Len(s) = 0 => TotalIn(s, w) = 0)
<1>1. PICK f : Sums(f, Len(s), Sizes(s, w)) /\ TotalIn(s, w) = f[Len(s)]
  BY TotalSums
<1>2. Len(s) \in Nat /\ Len(s) \in 0 .. Len(s)
  OBVIOUS
<1>3. f \in [0 .. Len(s) -> Nat] /\ f[0] = 0
  BY <1>1 DEF Sums
<1> QED  BY <1>1, <1>2, <1>3

\* A list is what comes before an entry and what comes from there on.
LEMMA TotalCut ==
  ASSUME NEW s \in Seq(Entry), NEW w \in [Bo -> Nat], NEW n \in 0 .. Len(s)
  PROVE  /\ TotalIn(s, w) = TotalIn(SubSeq(s, 1, n), w) + TotalIn(SubSeq(s, n + 1, Len(s)), w)
         /\ TotalIn(SubSeq(s, 1, n), w) \in Nat
         /\ TotalIn(SubSeq(s, n + 1, Len(s)), w) \in Nat
<1> DEFINE a == SubSeq(s, 1, n)
           b == SubSeq(s, n + 1, Len(s))
<1>1. /\ a \in Seq(Entry) /\ Len(a) = n
      /\ \A i \in 1 .. n : a[i] = s[i]
  BY SubSeqPart
<1>2. /\ b \in Seq(Entry) /\ Len(b) = Len(s) - n
      /\ \A i \in 1 .. Len(s) - n : b[i] = s[n + i]
  BY SubSeqPart
<1> HIDE DEF a, b
<1>3. s = a \o b
  <2>1. 1 \in 1 .. Len(s) + 1 /\ n \in 1 - 1 .. Len(s) /\ Len(s) \in n .. Len(s)
    OBVIOUS
  <2>2. SubSeq(s, 1, n) \o SubSeq(s, n + 1, Len(s)) = SubSeq(s, 1, Len(s))
    BY <2>1, ConcatAdjacentSubSeq
  <2>3. SubSeq(s, 1, Len(s)) = s
    BY SubSeqFull
  <2> QED  BY <2>2, <2>3 DEF a, b
<1>4. TotalIn(a, w) \in Nat /\ TotalIn(b, w) \in Nat
  BY <1>1, <1>2, TotalOfSizes
<1>5. TotalIn(s, w) = TotalIn(a, w) + TotalIn(b, w)
  BY <1>1, <1>2, <1>3, TotalConcat
<1> QED  BY <1>4, <1>5 DEF a, b

\* An entry more, at the end.
LEMMA TotalAppend ==
  ASSUME NEW s \in Seq(Entry), NEW e \in Entry, NEW w \in [Bo -> Nat]
  PROVE  TotalIn(Append(s, e), w) = TotalIn(s, w) + w[e.bo]
<1>1. Append(s, e) = s \o <<e>> /\ <<e>> \in Seq(Entry)
  OBVIOUS
<1>2. TotalIn(s \o <<e>>, w) = TotalIn(s, w) + TotalIn(<<e>>, w)
  BY <1>1, TotalConcat
<1> QED  BY <1>1, <1>2, TotalOfOne

\* An entry less.
LEMMA TotalWithout ==
  ASSUME NEW s \in Seq(Entry), NEW i \in 1 .. Len(s), NEW w \in [Bo -> Nat]
  PROVE  /\ TotalIn(s, w) = TotalIn(Without(s, i), w) + w[s[i].bo]
         /\ TotalIn(Without(s, i), w) \in Nat /\ w[s[i].bo] \in Nat
         /\ Len(Without(s, i)) = Len(s) - 1
<1> DEFINE a == SubSeq(s, 1, i - 1)
           b == SubSeq(s, i, Len(s))
           c == SubSeq(s, i + 1, Len(s))
<1>0. i - 1 \in 0 .. Len(s) /\ (i - 1) + 1 = i /\ i \in 0 .. Len(s) /\ Len(s) \in Nat
      /\ s[i] \in Entry
  OBVIOUS
<1>1. a \in Seq(Entry) /\ Len(a) = i - 1
  BY <1>0, SubSeqPart
<1>2. b \in Seq(Entry) /\ c \in Seq(Entry) /\ Len(c) = Len(s) - i
  BY <1>0, SubSeqPart
<1> DEFINE e == s[i]
<1>3. b = <<e>> \o c
  <2>1. Len(s) \in i .. Len(s)
    BY <1>0
  <2> QED  BY <2>1, SubSeqRecursiveFirst
<1>4. /\ TotalIn(s, w) = TotalIn(a, w) + TotalIn(b, w)
      /\ TotalIn(a, w) \in Nat /\ TotalIn(b, w) \in Nat
  BY <1>0, TotalCut
<1> HIDE DEF a, b, c
<1>6. TotalIn(b, w) = w[e.bo] + TotalIn(c, w) /\ TotalIn(c, w) \in Nat /\ w[e.bo] \in Nat
  <2>1. <<e>> \in Seq(Entry) /\ e \in Entry
    BY <1>0
  <2>2. TotalIn(b, w) = TotalIn(<<e>>, w) + TotalIn(c, w)
    BY <1>2, <1>3, <2>1, TotalConcat
  <2>3. w[e.bo] \in Nat
    BY <2>1 DEF Entry
  <2> QED  BY <1>2, <2>1, <2>2, <2>3, TotalOfOne, TotalOfSizes
<1>7. TotalIn(a \o c, w) = TotalIn(a, w) + TotalIn(c, w)
  BY <1>1, <1>2, TotalConcat
<1>8. Len(a \o c) = Len(s) - 1
  <2>1. Len(a \o c) = Len(a) + Len(c)
    BY <1>1, <1>2, ConcatProperties
  <2> QED  BY <1>0, <1>1, <1>2, <2>1
<1>9. Without(s, i) = a \o c
  BY DEF Without, a, c
<1> QED  BY <1>4, <1>6, <1>7, <1>8, <1>9

\* Once the loop of sgxBoCachePut ends, what is left of the cache is within its
\* limit.
LEMMA EvictionsEnough ==
  ASSUME size \in [Bo -> Nat], NEW s \in Seq(Entry)
  PROVE  LET n == Evictions(s, Total(s))
         IN  /\ n \in 0 .. Len(s)
             /\ Total(s) = Total(SubSeq(s, 1, n)) + Total(SubSeq(s, n + 1, Len(s)))
             /\ Total(SubSeq(s, 1, n)) \in Nat /\ Total(SubSeq(s, n + 1, Len(s))) \in Nat
             /\ Total(SubSeq(s, n + 1, Len(s))) <= CacheSize
<1> DEFINE l == Len(s)
           L(j) == Total(s) - Total(SubSeq(s, 1, j))
           n == Evictions(s, Total(s))
           G == {j \in 0 .. l : L(j) <= CacheSize}
           T == {k \in 1 .. l : \A j \in 0 .. (k - 1) : L(j) > CacheSize}
<1>1. l \in Nat /\ CacheSize \in Nat /\ l \in 0 .. l
  BY NumbersAssumption
<1>2. ASSUME NEW j \in 0 .. l
      PROVE  /\ Total(s) = Total(SubSeq(s, 1, j)) + Total(SubSeq(s, j + 1, l))
             /\ Total(SubSeq(s, 1, j)) \in Nat /\ Total(SubSeq(s, j + 1, l)) \in Nat
             /\ L(j) = Total(SubSeq(s, j + 1, l))
  <2>1. /\ Total(s) = Total(SubSeq(s, 1, j)) + Total(SubSeq(s, j + 1, l))
        /\ Total(SubSeq(s, 1, j)) \in Nat /\ Total(SubSeq(s, j + 1, l)) \in Nat
    BY TotalCut, TotalNow
  <2> QED  BY <2>1
<1>3. \A j \in 0 .. l : L(j) \in Nat
  BY <1>2
<1>4. n = Cardinality(T)
  BY DEF Evictions
<1>5. L(l) = 0
  <2>1. Total(s) \in Nat /\ SubSeq(s, 1, l) = s
    BY SubSeqFull, TotalOfSizes, TotalNow
  <2>2. L(l) = Total(s) - Total(s)
    BY <2>1
  <2>3. \A x \in Nat : x - x = 0
    OBVIOUS
  <2> HIDE DEF L
  <2> QED  BY <2>1, <2>2, <2>3
<1> HIDE DEF l, L, n
<1>6. PICK m \in G : \A j \in G : m <= j
  <2>1. G \in SUBSET Nat /\ l \in G
    BY <1>1, <1>5
  <2> HIDE DEF G
  <2> QED  BY <2>1, LeastNumber
<1>7. T = 1 .. m
  <2>1. ASSUME NEW k \in 1 .. m PROVE k \in T
    <3>1. k \in 1 .. l
      BY <1>1
    <3>2. ASSUME NEW j \in 0 .. (k - 1) PROVE L(j) > CacheSize
      <4>1. j \in 0 .. l /\ ~(m <= j)
        BY <1>1
      <4>2. ~(L(j) <= CacheSize)
        BY <1>6, <4>1
      <4> QED  BY <1>1, <1>3, <4>1, <4>2
    <3> QED  BY <3>1, <3>2
  <2>2. ASSUME NEW k \in T, k > m PROVE FALSE
    <3>1. m \in 0 .. (k - 1)
      BY <2>2
    <3>2. L(m) > CacheSize /\ L(m) <= CacheSize /\ L(m) \in Nat
      BY <1>3, <3>1
    <3> QED  BY <1>1, <3>2
  <2>3. \A k \in T : k \in 1 .. m
    <3>1. \A k \in T : ~(k > m)
      BY <2>2
    <3>2. \A k \in T : k \in Nat /\ k >= 1
      BY <1>1
    <3> HIDE DEF T
    <3> QED  BY <1>1, <3>1, <3>2
  <2> HIDE DEF T
  <2> QED  BY <2>1, <2>3
<1>8. n = m
  <2>1. m \in Nat
    BY <1>1
  <2>2. Cardinality(1 .. m) = m
    BY <2>1, FS_Interval
  <2> QED  BY <1>4, <1>7, <2>2
<1>9. m \in 0 .. l /\ L(m) <= CacheSize
  OBVIOUS
<1> QED  BY <1>2, <1>8, <1>9 DEF l, n

-----------------------------------------------------------------------------
(* The list of mappings. *)

Members(s) == {s[i] : i \in 1 .. Len(s)}

\* No record is in the list twice.
Once(s) == \A i, j \in 1 .. Len(s) : s[i] = s[j] => i = j

\* A record more, at the end.
LEMMA AppendMember ==
  ASSUME NEW s \in Seq(Priv), NEW x \in Priv
  PROVE  LET t == Append(s, x)
         IN  /\ t \in Seq(Priv) /\ t # <<>> /\ t[Len(t)] = x
             /\ Len(t) = Len(s) + 1
             /\ Members(t) = Members(s) \cup {x}
             /\ Once(s) /\ x \notin Members(s) => Once(t)
<1> DEFINE t == Append(s, x)
<1>1. /\ t \in Seq(Priv) /\ Len(t) = Len(s) + 1 /\ t[Len(s) + 1] = x /\ Len(s) \in Nat
      /\ \A i \in 1 .. Len(s) : t[i] = s[i]
  OBVIOUS
<1> HIDE DEF t
<1>2. \A i \in 1 .. Len(t) : i \in 1 .. Len(s) \/ i = Len(s) + 1
  BY <1>1
<1>3. t # <<>>
  BY <1>1
<1>4. Members(t) = Members(s) \cup {x}
  BY <1>1, <1>2 DEF Members
<1>5. ASSUME Once(s), x \notin Members(s) PROVE Once(t)
  <2> SUFFICES ASSUME NEW i \in 1 .. Len(t), NEW j \in 1 .. Len(t), t[i] = t[j] PROVE i = j
    BY DEF Once
  <2>1. \A k \in 1 .. Len(s) : s[k] # x
    BY <1>5 DEF Members
  <2> QED  BY <1>1, <1>2, <1>5, <2>1 DEF Once
<1> QED  BY <1>1, <1>3, <1>4, <1>5 DEF t

\* Delist takes out the members of gone, and nothing else.
LEMMA DelistFacts ==
  ASSUME NEW s \in Seq(Priv), NEW gone
  PROVE  LET t == Delist(s, gone)
         IN  /\ t \in Seq(Priv)
             /\ Members(t) = Members(s) \ gone
             /\ Once(s) => Once(t)
<1> DEFINE n == Len(s)
           F(f) == [i \in 0 .. n |-> IF i = 0 THEN <<>>
                                     ELSE IF s[i] \in gone THEN f[i - 1]
                                          ELSE Append(f[i - 1], s[i])]
           c == CHOOSE f : f = F(f)
           g == [i \in 1 .. n |-> [x \in Seq(Priv) |-> IF s[i] \in gone THEN x
                                                       ELSE Append(x, s[i])]]
<1>1. Delist(s, gone) = c[n]
  BY DEF Delist
<1>2. n \in Nat /\ \A i \in 1 .. n : s[i] \in Priv
  OBVIOUS
<1> HIDE DEF c
<1>3. g \in [1 .. n -> [Seq(Priv) -> Seq(Priv)]]
  <2>1. ASSUME NEW i \in 1 .. n, NEW x \in Seq(Priv)
        PROVE  (IF s[i] \in gone THEN x ELSE Append(x, s[i])) \in Seq(Priv)
    BY <1>2
  <2> QED  BY <2>1
<1>4. \A i \in 1 .. n, x \in Seq(Priv) :
        g[i][x] = IF s[i] \in gone THEN x ELSE Append(x, s[i])
  OBVIOUS
<1> HIDE DEF g
<1>5. PICK h : Steps(h, Seq(Priv), <<>>, n, g)
  <2>1. <<>> \in Seq(Priv)
    OBVIOUS
  <2> HIDE DEF n
  <2> QED  BY <1>2, <1>3, <2>1, StepsExist
<1> HIDE DEF n
<1>6. h = F(h)
  <2>1. h \in [0 .. n -> Seq(Priv)] /\ h = [i \in 0 .. n |-> h[i]] /\ h[0] = <<>>
    BY <1>5 DEF Steps
  <2>2. ASSUME NEW i \in 0 .. n
        PROVE  h[i] = IF i = 0 THEN <<>>
                      ELSE IF s[i] \in gone THEN h[i - 1] ELSE Append(h[i - 1], s[i])
    <3>1. CASE i = 0
      BY <2>1, <3>1
    <3>2. CASE i \in 1 .. n
      <4>1. i - 1 \in 0 .. n /\ i # 0
        BY <1>2, <3>2
      <4>2. h[i] = g[i][h[i - 1]] /\ h[i - 1] \in Seq(Priv)
        BY <1>5, <2>1, <3>2, <4>1 DEF Steps
      <4> QED  BY <1>4, <3>2, <4>1, <4>2
    <3> QED  BY <1>2, <3>1, <3>2
  <2> QED  BY <2>1, <2>2
<1>7. c = F(c)
  BY <1>6 DEF c
<1>8. /\ c[0] = <<>>
      /\ \A i \in 1 .. n : c[i] = IF s[i] \in gone THEN c[i - 1] ELSE Append(c[i - 1], s[i])
  <2>1. \A i \in 0 .. n : c[i] = F(c)[i]
    BY <1>7
  <2>2. ASSUME NEW i \in 1 .. n
        PROVE  c[i] = IF s[i] \in gone THEN c[i - 1] ELSE Append(c[i - 1], s[i])
    <3>1. i \in 0 .. n /\ i # 0
      BY <1>2
    <3> QED  BY <2>1, <3>1
  <2>3. c[0] = <<>>
    BY <1>2, <2>1
  <2> QED  BY <2>2, <2>3
<1> DEFINE P(i) == /\ c[i] \in Seq(Priv)
                   /\ Members(c[i]) = {s[j] : j \in 1 .. i} \ gone
                   /\ Once(s) => Once(c[i])
           T == {i \in Nat : i <= n => P(i)}
<1>9. 0 \in T
  <2>1. Members(<<>>) = {} /\ Once(<<>>) /\ <<>> \in Seq(Priv)
    BY DEF Members, Once
  <2>2. {s[j] : j \in 1 .. 0} = {}
    OBVIOUS
  <2> QED  BY <1>8, <2>1, <2>2
<1>10. ASSUME NEW i \in Nat, i \in T PROVE i + 1 \in T
  <2> SUFFICES ASSUME i + 1 <= n PROVE P(i + 1)
    OBVIOUS
  <2>1. i <= n /\ i + 1 \in 1 .. n /\ (i + 1) - 1 = i
    BY <1>2
  <2>2. P(i)
    BY <1>10, <2>1
  <2>3. {s[j] : j \in 1 .. i + 1} = {s[j] : j \in 1 .. i} \cup {s[i + 1]}
    <3>1. \A j : j \in 1 .. i + 1 <=> j \in 1 .. i \/ j = i + 1
      OBVIOUS
    <3> QED  BY <3>1
  <2>4. CASE s[i + 1] \in gone
    <3>1. c[i + 1] = c[i]
      BY <1>8, <2>1, <2>4
    <3> QED  BY <2>2, <2>3, <2>4, <3>1
  <2>5. CASE s[i + 1] \notin gone
    <3>1. c[i + 1] = Append(c[i], s[i + 1]) /\ s[i + 1] \in Priv
      BY <1>2, <1>8, <2>1, <2>5
    <3>2. c[i + 1] \in Seq(Priv) /\ Members(c[i + 1]) = Members(c[i]) \cup {s[i + 1]}
      BY <2>2, <3>1, AppendMember
    <3>3. ASSUME Once(s) PROVE Once(c[i + 1])
      <4>1. s[i + 1] \notin {s[j] : j \in 1 .. i}
        <5>1. \A j \in 1 .. i : j \in 1 .. Len(s) /\ i + 1 \in 1 .. Len(s) /\ j # i + 1
          BY <1>2 DEF n
        <5> QED  BY <3>3, <5>1 DEF Once
      <4>2. s[i + 1] \notin Members(c[i])
        BY <2>2, <4>1
      <4>3. Once(c[i]) /\ c[i] \in Seq(Priv)
        BY <2>2, <3>3
      <4>4. Once(Append(c[i], s[i + 1]))
        BY <3>1, <4>2, <4>3, AppendMember
      <4> QED  BY <3>1, <4>4
    <3> QED  BY <2>2, <2>3, <2>5, <3>2, <3>3
  <2> QED  BY <2>4, <2>5
<1> HIDE DEF T, P
<1>11. Nat \subseteq T
  BY <1>9, <1>10, NumbersInduction
<1>12. P(n)
  BY <1>2, <1>11 DEF T
<1>13. {s[j] : j \in 1 .. n} = Members(s)
  BY DEF Members, n
<1> QED  BY <1>1, <1>12, <1>13 DEF P

\* A list without repetitions is as long as it has members.
LEMMA LengthOfMembers ==
  ASSUME NEW s \in Seq(Priv), Once(s)
  PROVE  IsFiniteSet(Members(s)) /\ Cardinality(Members(s)) = Len(s)
<1> DEFINE I == 1 .. Len(s)
           M == Members(s)
<1>1. IsFiniteSet(I) /\ Cardinality(I) = Len(s)
  <2>1. Len(s) \in Nat
    OBVIOUS
  <2> QED  BY <2>1, FS_Interval
<1>2. s \in Bijection(I, M)
  <2>1. s \in [I -> M]
    <3>1. s = [i \in I |-> s[i]]
      OBVIOUS
    <3>2. \A i \in I : s[i] \in M
      BY DEF Members
    <3> QED  BY <3>1, <3>2
  <2>2. \A i, j \in I : s[i] = s[j] => i = j
    BY DEF Once
  <2>3. \A y \in M : \E i \in I : s[i] = y
    BY DEF Members
  <2> HIDE DEF I, M
  <2> QED  BY <2>1, <2>2, <2>3 DEF Bijection, Injection, Surjection, IsInjective
<1>3. ExistsBijection(I, M)
  BY <1>2 DEF ExistsBijection
<1> HIDE DEF I, M
<1>4. IsFiniteSet(M) /\ Cardinality(M) = Cardinality(I)
  BY <1>1, <1>3, FS_Bijection
<1> QED  BY <1>1, <1>4 DEF M

\* Taking some of its members out shortens it by as many.
LEMMA DelistLength ==
  ASSUME NEW s \in Seq(Priv), Once(s), NEW gone \in SUBSET Members(s)
  PROVE  /\ IsFiniteSet(gone) /\ Cardinality(gone) \in Nat
         /\ Len(Delist(s, gone)) = Len(s) - Cardinality(gone)
<1> DEFINE t == Delist(s, gone)
           M == Members(s)
           N == Members(t)
<1>1. t \in Seq(Priv) /\ N = M \ gone /\ Once(t)
  BY DelistFacts
<1>2. IsFiniteSet(M) /\ Cardinality(M) = Len(s)
  BY LengthOfMembers
<1> HIDE DEF t
<1>3. IsFiniteSet(N) /\ Cardinality(N) = Len(t)
  BY <1>1, LengthOfMembers
<1>4. gone \in SUBSET M
  OBVIOUS
<1> HIDE DEF M, N
<1>5. IsFiniteSet(gone) /\ Cardinality(gone) \in Nat
  BY <1>2, <1>4, FS_Subset, FS_CardinalityType
<1>6. M \cap gone = gone
  BY <1>4
<1>7. Cardinality(M \ gone) = Cardinality(M) - Cardinality(M \cap gone)
  BY <1>2, FS_Difference
<1>8. Cardinality(N) = Cardinality(M) - Cardinality(gone)
  BY <1>1, <1>6, <1>7
<1>9. Len(t) = Len(s) - Cardinality(gone)
  BY <1>2, <1>3, <1>8
<1> QED  BY <1>5, <1>9 DEF t

\* A record becomes the most recently used one.
LEMMA MarkUsedFacts ==
  ASSUME NEW s \in Seq(Priv), Once(s), NEW x \in Priv
  PROVE  LET t == MarkUsed(s, x)
         IN  /\ t \in Seq(Priv) /\ t # <<>> /\ t[Len(t)] = x
             /\ Once(t) /\ Members(t) = Members(s) \cup {x}
             /\ Len(t) = IF x \in Members(s) THEN Len(s) ELSE Len(s) + 1
<1> DEFINE u == Delist(s, {x})
           t == Append(u, x)
<1>1. u \in Seq(Priv) /\ Members(u) = Members(s) \ {x} /\ Once(u)
  BY DelistFacts
<1>2. Len(u) = IF x \in Members(s) THEN Len(s) - 1 ELSE Len(s)
  <2>1. CASE x \in Members(s)
    <3>1. {x} \in SUBSET Members(s)
      BY <2>1
    <3> QED  BY <2>1, <3>1, DelistLength, FS_Singleton
  <2>2. CASE x \notin Members(s)
    <3>1. Members(u) = Members(s)
      BY <1>1, <2>2
    <3> HIDE DEF u
    <3> QED  BY <1>1, <2>2, <3>1, LengthOfMembers
  <2> QED  BY <2>1, <2>2
<1> HIDE DEF u
<1>3. /\ t \in Seq(Priv) /\ t # <<>> /\ t[Len(t)] = x /\ Len(t) = Len(u) + 1
      /\ Members(t) = Members(u) \cup {x} /\ Once(t)
  BY <1>1, AppendMember
<1>4. Members(t) = Members(s) \cup {x}
  BY <1>1, <1>3
<1>5. Len(t) = IF x \in Members(s) THEN Len(s) ELSE Len(s) + 1
  <2>1. Len(s) \in Nat
    OBVIOUS
  <2> QED  BY <1>2, <1>3, <2>1
<1> QED  BY <1>3, <1>4, <1>5 DEF MarkUsed, u

\* The records that have a mapping.
Mapped == {x \in privs : mapped[x] # None}

\* MapsListed, and the types it takes to prove it.
Listing ==
  /\ map_list \in Seq(Priv) /\ Once(map_list)
  /\ scanout_priv \in Priv \cup {None}
  /\ Members(map_list) = Mapped \ {scanout_priv}
  /\ map_count = Len(map_list) /\ map_count <= MaxMaps + 1

\* What is said of the list is said of the list alone.
LEMMA MembersOf ==
  ASSUME NEW s, map_list' = s
  PROVE  Members(map_list)' = Members(s) /\ Once(map_list)' = Once(s)
  BY DEF Members, Once

\* The records of gone lose their mappings; those of them that are in the list
\* leave it, and the scanout's is forgotten if it is one of them.
LEMMA DiscardKeeps ==
  ASSUME Listing, NEW gone \in SUBSET privs, NEW listed,
         mapped \in [Priv -> Bo \cup {None}], privs \in SUBSET Priv,
         listed = (gone \cap Mapped) \ {scanout_priv},
         Discard(gone, listed),
         scanout_priv' = IF scanout_priv \in gone THEN None ELSE scanout_priv
  PROVE  Listing'
<1> DEFINE t == Delist(map_list, listed)
<1>1. listed \in SUBSET Members(map_list)
  BY DEF Listing
<1>2. /\ t \in Seq(Priv) /\ Once(t) /\ Members(t) = Members(map_list) \ listed
  BY DelistFacts DEF Listing
<1>3. Cardinality(listed) \in Nat /\ Len(t) = Len(map_list) - Cardinality(listed)
  BY <1>1, DelistLength DEF Listing
<1>4. map_list' = t /\ map_count' = map_count - Cardinality(listed)
  BY DEF Discard
<1> HIDE DEF t
<1>5. Members(map_list)' = Members(t) /\ Once(map_list)' = Once(t)
  BY <1>4, MembersOf
<1>6. map_count' = Len(map_list') /\ map_count' <= MaxMaps + 1
  <2>1. MaxMaps \in Nat /\ Len(map_list) \in Nat
    BY NumbersAssumption DEF Listing
  <2>2. map_count = Len(map_list) /\ map_count <= MaxMaps + 1
    BY DEF Listing
  <2>3. \A i, j, k \in Nat : i <= k + 1 => i - j <= k + 1
    OBVIOUS
  <2>4. map_count' = Len(t) /\ Len(map_list) - Cardinality(listed) <= MaxMaps + 1
    BY <1>3, <1>4, <2>1, <2>2, <2>3
  <2> QED  BY <1>3, <1>4, <2>4
<1>7. scanout_priv' \in Priv \cup {None}
  BY DEF Listing
<1>8. Mapped' = Mapped \ gone
  <2>1. privs' = privs \ gone /\ mapped' = [x \in Priv |-> IF x \in gone THEN None ELSE mapped[x]]
    BY DEF Discard
  <2>2. \A x \in privs \ gone : mapped'[x] = mapped[x]
    BY <2>1
  <2> QED  BY <2>1, <2>2 DEF Mapped
<1>9. (Mapped \ {scanout_priv}) \ listed = Mapped' \ {scanout_priv'}
  <2>1. CASE scanout_priv \in gone
    <3>1. None \notin Mapped'
      BY <1>8, SetsAssumption DEF Mapped
    <3>2. scanout_priv' = None
      BY <2>1
    <3> QED  BY <1>8, <2>1, <3>1, <3>2
  <2>2. CASE scanout_priv \notin gone
    BY <1>8, <2>2
  <2> QED  BY <2>1, <2>2
<1>10. Members(map_list)' = Mapped' \ {scanout_priv'}
  BY <1>2, <1>5, <1>9 DEF Listing
<1> QED  BY <1>2, <1>4, <1>5, <1>6, <1>7, <1>10 DEF Listing

\* The record x of p may get a mapping, or be used again, when those of victims
\* have to go.
MayTrack(p, x, victims) ==
  /\ victims \subseteq Members(map_list) /\ x \notin victims
  /\ pix[p].bo = scanout => scanout_priv = x \/ (scanout_priv = None /\ x \notin Mapped)
  /\ pix[p].bo # scanout =>
       /\ scanout_priv # x
       /\ \/ map_count - Cardinality(victims) <= MaxMaps
          \/ victims = {} /\ x \in Members(map_list)

\* A record is mapped and marked as used, those of victims lose their mappings.
LEMMA TrackKeeps ==
  ASSUME Listing, privs \in SUBSET Priv,
         NEW p \in Pixmaps, NEW x \in Priv, NEW victims, MayTrack(p, x, victims),
         Track(p, x, victims), Mapped' = (Mapped \ victims) \cup {x}
  PROVE  Listing' /\ (pix[p].bo # scanout => map_list' # <<>> /\ map_list'[Len(map_list')] = x)
<1> DEFINE s == Spared(victims)
           t == MarkUsed(s, x)
<1>0. Len(map_list) \in Nat /\ map_count = Len(map_list) /\ MaxMaps \in Nat
      /\ map_count <= MaxMaps + 1
  BY NumbersAssumption DEF Listing
<1>1. s \in Seq(Priv) /\ Once(s) /\ Members(s) = Members(map_list) \ victims
  BY DelistFacts DEF Listing, Spared
<1>2. Cardinality(victims) \in Nat /\ Len(s) = Len(map_list) - Cardinality(victims)
  BY DelistLength DEF Listing, Spared, MayTrack
<1>3. /\ t \in Seq(Priv) /\ t # <<>> /\ t[Len(t)] = x /\ Once(t)
      /\ Members(t) = Members(s) \cup {x}
      /\ Len(t) = IF x \in Members(s) THEN Len(s) ELSE Len(s) + 1
  BY <1>1, MarkUsedFacts
<1>4. IsIn(x, s) <=> x \in Members(s)
  BY DEF IsIn, Members
<1>5. /\ pix[p].bo = scanout => /\ map_list' = s /\ scanout_priv' = x
                                /\ map_count' = map_count - Cardinality(victims)
      /\ pix[p].bo # scanout =>
           /\ map_list' = t /\ scanout_priv' = scanout_priv
           /\ map_count' = map_count - Cardinality(victims) + (IF IsIn(x, s) THEN 0 ELSE 1)
  BY DEF Track
<1> HIDE DEF s, t
<1>6. Len(s) \in Nat /\ Len(s) <= MaxMaps + 1
  BY <1>0, <1>1, <1>2
<1>7. CASE pix[p].bo = scanout
  <2>1. Members(map_list)' = Members(s) /\ Once(map_list)' = Once(s)
    BY <1>5, <1>7, MembersOf
  <2>2. Members(s) = Mapped' \ {x}
    <3>1. None \notin Mapped
      BY SetsAssumption DEF Mapped
    <3>2. Members(s) = (Mapped \ {scanout_priv}) \ victims
      BY <1>1 DEF Listing
    <3> QED  BY <1>7, <3>1, <3>2 DEF MayTrack
  <2>3. map_count' = Len(map_list') /\ map_count' <= MaxMaps + 1
    BY <1>0, <1>2, <1>5, <1>6, <1>7
  <2> QED  BY <1>1, <1>5, <1>7, <2>1, <2>2, <2>3 DEF Listing
<1>8. CASE pix[p].bo # scanout
  <2>1. Members(map_list)' = Members(t) /\ Once(map_list)' = Once(t)
    BY <1>5, <1>8, MembersOf
  <2>2. Members(t) = Mapped' \ {scanout_priv}
    BY <1>1, <1>3, <1>8 DEF Listing, MayTrack
  <2>3. map_count' = Len(t)
    BY <1>0, <1>2, <1>3, <1>4, <1>5, <1>6, <1>8
  <2>4. Len(t) <= MaxMaps + 1
    <3>1. CASE map_count - Cardinality(victims) <= MaxMaps
      BY <1>0, <1>2, <1>3, <1>6, <3>1
    <3>2. CASE victims = {} /\ x \in Members(map_list)
      BY <1>1, <1>3, <1>6, <3>2
    <3> QED  BY <1>8, <3>1, <3>2 DEF MayTrack
  <2> QED  BY <1>3, <1>5, <1>8, <2>1, <2>2, <2>3, <2>4 DEF Listing
<1> QED  BY <1>7, <1>8

-----------------------------------------------------------------------------
(* The invariant: what the lists, the counters and scanout_priv say. *)

\* p has the scanout buffer, mapped.
Scans(p) == pix[p].bo = scanout /\ HasMapping(p)

\* scanout_priv is the record of the pixmap that does.
ScanoutRemembered ==
  /\ scanout_priv # None => \E p \in Pixmaps : Scans(p) /\ pix[p].priv = scanout_priv
  /\ \A p \in Pixmaps : Scans(p) => pix[p].priv = scanout_priv

\* The operands of an operation are mapped, the first the most recently of all.
OperandsUsed ==
  /\ operands \subseteq Pixmaps /\ IsFiniteSet(operands)
  /\ \A p \in operands :
       /\ HasMapping(p)
       /\ operands = {p} /\ pix[p].bo # scanout =>
            map_list # <<>> /\ map_list[Len(map_list)] = pix[p].priv

Accounts == Listing /\ ScanoutRemembered /\ CacheAccounted /\ OperandsUsed

\* The list is about the mappings and the record of scanout.
LEMMA ListingStays ==
  ASSUME Listing, UNCHANGED mapVars
  PROVE  Listing'
<1>1. /\ map_list' = map_list /\ map_count' = map_count /\ scanout_priv' = scanout_priv
      /\ Mapped' = Mapped
  BY DEF mapVars, Mapped
<1>2. Members(map_list)' = Members(map_list) /\ Once(map_list)' = Once(map_list)
  BY <1>1, MembersOf
<1> QED  BY <1>1, <1>2 DEF Listing

\* The counters of the cache are about its list, and the sizes of what is in it.
LEMMA CacheStays ==
  ASSUME Typed, CacheAccounted, UNCHANGED cacheVars, size' \in [Bo -> Nat],
         \A b \in BosOf(bo_list) : size'[b] = size[b]
  PROVE  CacheAccounted'
<1>1. bo_list \in Seq(Entry) /\ size \in [Bo -> Nat]
  BY DEF Typed
<1>2. TotalIn(bo_list, size) = TotalIn(bo_list, size')
  BY <1>1, TotalOfSizes
<1>3. bo_list' = bo_list /\ bo_count' = bo_count /\ bo_size' = bo_size
  BY DEF cacheVars
<1>4. Total(bo_list)' = TotalIn(bo_list', size')
  BY DEF Total, TotalIn
<1>5. Total(bo_list)' = Total(bo_list)
  BY <1>2, <1>3, <1>4, TotalNow
<1> QED  BY <1>3, <1>5 DEF CacheAccounted

\* The cache is left with t, which has the pages n.
LEMMA CacheBecomes ==
  ASSUME NEW t \in Seq(Entry), size \in [Bo -> Nat], size' \in [Bo -> Nat],
         \A b \in BosOf(t) : size'[b] = size[b],
         bo_list' = t, bo_count' = Len(t), bo_size' = Total(t), Total(t) <= CacheSize
  PROVE  CacheAccounted'
<1>1. TotalIn(t, size) = TotalIn(t, size')
  BY TotalOfSizes
<1>2. Total(bo_list)' = TotalIn(t, size')
  BY DEF Total, TotalIn
<1>3. Total(bo_list)' = Total(t)
  BY <1>1, <1>2, TotalNow
<1> QED  BY <1>3 DEF CacheAccounted

\* No operation is under way.
LEMMA NoOperands ==
  ASSUME operands' = {}
  PROVE  OperandsUsed'
  BY FS_EmptySet DEF OperandsUsed

\* A pixmap other than the one that has the scanout buffer comes, changes or goes.
LEMMA ScanoutStays ==
  ASSUME ScanoutRemembered, NEW p \in Pix,
         UNCHANGED <<scanout, scanout_priv>>,
         \A q \in Pix \ {p} : pix'[q] = pix[q],
         p \in Pixmaps => ~Scans(p),
         p \in Pixmaps' => ~Scans(p)',
         \A q \in Pixmaps \ {p} : pix[q].bo = scanout /\ pix[q].priv # None =>
            mapped'[pix[q].priv] = mapped[pix[q].priv]
  PROVE  ScanoutRemembered'
<1>1. \A q \in Pix \ {p} : q \in Pixmaps' <=> q \in Pixmaps
  BY DEF Pixmaps
<1>2. \A q \in Pixmaps \ {p} : Scans(q)' <=> Scans(q)
  <2> SUFFICES ASSUME NEW q \in Pixmaps \ {p} PROVE Scans(q)' <=> Scans(q)
    OBVIOUS
  <2>1. pix'[q] = pix[q]
    BY DEF Pixmaps
  <2> QED  BY <2>1 DEF Scans, HasMapping
<1>3. \A q \in Pixmaps : q \in Pix
  BY DEF Pixmaps
<1>4. \A q \in Pixmaps' : q \in Pix
  BY DEF Pixmaps
<1>5. scanout_priv' # None => \E q \in Pixmaps' : Scans(q)' /\ pix'[q].priv = scanout_priv'
  <2> SUFFICES ASSUME scanout_priv # None
               PROVE  \E q \in Pixmaps' : Scans(q)' /\ pix'[q].priv = scanout_priv'
    OBVIOUS
  <2>1. PICK q \in Pixmaps : Scans(q) /\ pix[q].priv = scanout_priv
    BY DEF ScanoutRemembered
  <2>2. q \in Pix \ {p}
    BY <1>3, <2>1
  <2>3. pix'[q].priv = scanout_priv' /\ q \in Pixmaps' /\ Scans(q)'
    BY <1>1, <1>2, <2>1, <2>2
  <2> QED  BY <2>3
<1>6. ASSUME NEW q \in Pixmaps', Scans(q)' PROVE pix'[q].priv = scanout_priv'
  <2>1. q \in Pix \ {p}
    BY <1>4, <1>6
  <2>2. q \in Pixmaps /\ Scans(q) /\ pix'[q] = pix[q]
    BY <1>1, <1>2, <1>6, <2>1
  <2> QED  BY <2>2 DEF ScanoutRemembered
<1> QED  BY <1>5, <1>6 DEF ScanoutRemembered

-----------------------------------------------------------------------------
(* Every operation keeps it: the GPU operations. *)

\* Facts of the invariant about the pixmap a GPU operation uses.
LEMMA OperandFacts ==
  ASSUME HInv, Accounts, NEW p \in Pixmaps
  PROVE  /\ p \in Pix /\ pix[p].bo \in Bo /\ pix[p].priv \in Priv \cup {None}
         /\ pix[p].priv # None => pix[p].priv \in privs
         /\ HasMapping(p) <=> pix[p].priv \in Mapped
         /\ pix[p].bo = scanout /\ HasMapping(p) => pix[p].priv = scanout_priv
         /\ pix[p].bo # scanout /\ pix[p].priv # None => pix[p].priv # scanout_priv
         /\ pix[p].bo = scanout /\ ~HasMapping(p) => scanout_priv = None
         /\ \A q \in Pixmaps \ {p} : pix[q].bo # pix[p].bo
                                     /\ (pix[q].priv = pix[p].priv => pix[p].priv = None)
<1>1. p \in Pix /\ pix[p].bo \in Bo /\ pix[p].priv \in Priv \cup {None}
  BY PixmapFields DEF HInv, PixmapsBacked
<1>2. pix[p].priv # None => pix[p].priv \in privs
  BY <1>1 DEF HInv, PrivsAlive
<1>3. HasMapping(p) <=> pix[p].priv \in Mapped
  <2>1. None \notin Mapped
    BY SetsAssumption DEF Mapped, HInv, Typed
  <2> QED  BY <1>2, <2>1 DEF HasMapping, Mapped
<1>4. \A q \in Pixmaps \ {p} : pix[q].bo # pix[p].bo
                               /\ (pix[q].priv = pix[p].priv => pix[p].priv = None)
  BY DEF HInv, PixmapsApart
<1>5. pix[p].bo = scanout /\ HasMapping(p) => pix[p].priv = scanout_priv
  BY DEF Accounts, ScanoutRemembered, Scans
<1>6. scanout_priv # None => \E q \in Pixmaps : Scans(q) /\ pix[q].priv = scanout_priv
  BY DEF Accounts, ScanoutRemembered
<1>7. pix[p].bo # scanout /\ pix[p].priv # None => pix[p].priv # scanout_priv
  BY <1>4, <1>6 DEF Scans
<1>8. pix[p].bo = scanout /\ ~HasMapping(p) => scanout_priv = None
  BY <1>4, <1>6 DEF Scans
<1> QED  BY <1>1, <1>2, <1>3, <1>4, <1>5, <1>7, <1>8

\* The number of operands, when there is room for one more.
LEMMA OperandsAre ==
  ASSUME Accounts, NEW p \in Pix, MayMap(p)
  PROVE  /\ operands = {} \/ \E q \in Pixmaps \ {p} : operands = {q}
         /\ IsFiniteSet(operands \cup {p})
<1>1. IsFiniteSet(operands) /\ operands \subseteq Pixmaps
  BY DEF Accounts, OperandsUsed
<1>2. Cardinality(operands) < 2 /\ p \notin operands
  BY DEF MayMap
<1>3. Cardinality(operands) \in Nat
  BY <1>1, FS_CardinalityType
<1>4. Cardinality(operands) = 0 \/ Cardinality(operands) = 1
  BY <1>2, <1>3
<1>5. operands = {} \/ \E q : operands = {q}
  BY <1>1, <1>4, FS_EmptySet, FS_Singleton
<1>6. IsFiniteSet(operands \cup {p})
  BY <1>1, FS_AddElement
<1> QED  BY <1>1, <1>2, <1>5, <1>6

\* A mapping that is there already becomes the most recently used one.
LEMMA MapHitAccounts ==
  ASSUME HInv, Accounts, NEW p \in Pix, MapHit(p)
  PROVE  Accounts'
<1> DEFINE x == pix[p].priv
<1>1. p \in Pixmaps /\ MayMap(p) /\ HasMapping(p) /\ Track(p, x, {})
      /\ operands' = operands \cup {p}
      /\ UNCHANGED <<pix, size, mapped, privs, cacheVars, scanout, phase>>
  BY DEF MapHit, MayMap
<1>2. /\ x \in Priv /\ x \in Mapped /\ privs \in SUBSET Priv
      /\ pix[p].bo = scanout => x = scanout_priv
      /\ pix[p].bo # scanout => x # scanout_priv
  <2>1. x # None
    BY <1>1 DEF HasMapping
  <2> QED  BY <1>1, <2>1, OperandFacts DEF HInv, Typed
<1> HIDE DEF x
<1>3. Mapped' = Mapped /\ Pixmaps' = Pixmaps
  BY <1>1 DEF Mapped, Pixmaps
<1>4. Listing' /\ (pix[p].bo # scanout => map_list' # <<>> /\ map_list'[Len(map_list')] = x)
  <2>1. MayTrack(p, x, {}) /\ Listing
    BY <1>2 DEF MayTrack, Accounts, Listing
  <2>2. Mapped' = (Mapped \ {}) \cup {x}
    BY <1>2, <1>3
  <2> QED  BY <1>1, <1>2, <2>1, <2>2, TrackKeeps
<1>5. ScanoutRemembered'
  <2>1. scanout_priv' = scanout_priv
    BY <1>1, <1>2 DEF Track
  <2>2. \A q \in Pixmaps : Scans(q)' <=> Scans(q)
    BY <1>1 DEF Scans, HasMapping
  <2> QED  BY <1>1, <1>3, <2>1, <2>2 DEF Accounts, ScanoutRemembered
<1>6. CacheAccounted'
  <2>1. UNCHANGED cacheVars /\ size' \in [Bo -> Nat] /\ \A b \in BosOf(bo_list) : size'[b] = size[b]
    BY <1>1 DEF HInv, Typed
  <2> QED  BY <2>1, CacheStays DEF HInv, Accounts
<1>7. OperandsUsed'
  <2>1. operands' \subseteq Pixmaps' /\ IsFiniteSet(operands')
    BY <1>1, <1>3, OperandsAre DEF Accounts, OperandsUsed
  <2>2. \A q \in operands' : HasMapping(q)'
    BY <1>1 DEF HasMapping, Accounts, OperandsUsed
  <2>3. ASSUME NEW q \in operands', operands' = {q}, pix'[q].bo # scanout'
        PROVE  map_list' # <<>> /\ map_list'[Len(map_list')] = pix'[q].priv
    <3>1. q = p
      BY <1>1, <2>3
    <3> QED  BY <1>1, <1>4, <2>3, <3>1 DEF x
  <2> QED  BY <2>1, <2>2, <2>3 DEF OperandsUsed
<1> QED  BY <1>4, <1>5, <1>6, <1>7 DEF Accounts

\* The victim of the LRU: the first of the list, when there are too many.
LEMMA VictimFacts ==
  ASSUME HInv, Accounts
  PROVE  /\ Victims \subseteq Members(map_list) /\ Victims \subseteq Mapped
         /\ scanout_priv \notin Victims
         /\ map_count - Cardinality(Victims) <= MaxMaps
         /\ Victims # {} => /\ Len(map_list) > 1
                            /\ map_list[Len(map_list)] \notin Victims
<1>1. /\ map_list \in Seq(Priv) /\ Once(map_list) /\ Len(map_list) \in Nat
      /\ map_count = Len(map_list) /\ map_count <= MaxMaps + 1
      /\ Members(map_list) = Mapped \ {scanout_priv}
  BY DEF Accounts, Listing
<1>2. MaxMaps \in Nat /\ MaxMaps > 0
  BY NumbersAssumption
<1>3. CASE map_count > MaxMaps /\ map_list # <<>>
  <2>1. Victims = {map_list[1]} /\ 1 \in 1 .. Len(map_list) /\ Len(map_list) > 1
    BY <1>1, <1>2, <1>3 DEF Victims
  <2>2. map_list[1] \in Members(map_list)
    BY <2>1 DEF Members
  <2>3. map_list[Len(map_list)] # map_list[1]
    <3>1. Len(map_list) \in 1 .. Len(map_list) /\ Len(map_list) # 1
      BY <1>1, <2>1
    <3> QED  BY <1>1, <2>1, <3>1 DEF Once
  <2>4. Cardinality(Victims) = 1
    BY <2>1, FS_Singleton
  <2>5. map_count - Cardinality(Victims) <= MaxMaps
    BY <1>1, <1>2, <2>4
  <2> QED  BY <1>1, <2>1, <2>2, <2>3, <2>5
<1>4. CASE ~(map_count > MaxMaps /\ map_list # <<>>)
  <2>1. Victims = {} /\ Cardinality(Victims) = 0
    BY <1>4, FS_EmptySet DEF Victims
  <2>2. map_count <= MaxMaps
    <3>1. map_list = <<>> => map_count = 0
      BY <1>1
    <3> QED  BY <1>1, <1>2, <1>4, <3>1
  <2> QED  BY <1>1, <1>2, <2>1, <2>2
<1> QED  BY <1>3, <1>4

\* A mapping is made, which may cost another one; never that of the other operand.
LEMMA MapMissAccounts ==
  ASSUME HInv, Accounts, NEW p \in Pix, NEW x \in Priv, MapMiss(p, x)
  PROVE  Accounts'
<1>1. p \in Pixmaps /\ MayMap(p) /\ ~HasMapping(p) /\ Track(p, x, Victims)
      /\ operands' = operands \cup {p} /\ x # None
      /\ UNCHANGED <<size, cacheVars, scanout, phase>>
  BY SetsAssumption DEF MapMiss, MayMap
<1>2. x = pix[p].priv \/ (pix[p].priv = None /\ x \notin privs)
  BY DEF MapMiss, Fresh
<1>3. /\ pix' \in [Pix -> PixRec \cup {None}]
      /\ Pixmaps' = Pixmaps
      /\ \A q \in Pixmaps : /\ pix'[q].bo = pix[q].bo /\ pix'[q].flags = pix[q].flags
                            /\ pix'[q].priv = IF q = p THEN x ELSE pix[q].priv
  <2>1. p \in Pixmaps /\ Typed /\ pix' = [pix EXCEPT ![p].priv = x] /\ x \in Priv \cup {None}
    BY <1>1 DEF HInv, MapMiss
  <2> QED  BY <2>1, PrivChanged
<1>4. /\ privs' = privs \cup {x} /\ privs \in SUBSET Priv /\ pix[p].bo \in Bo /\ pix[p].bo # None
      /\ \A y \in Priv : mapped'[y] = IF y = x THEN pix[p].bo
                                      ELSE IF y \in Victims THEN None ELSE mapped[y]
  BY <1>1, SetsAssumption DEF HInv, Typed, PixmapsBacked, MapMiss
<1>5. /\ Victims \subseteq Members(map_list) /\ Victims \subseteq Mapped
      /\ scanout_priv \notin Victims /\ map_count - Cardinality(Victims) <= MaxMaps
  BY VictimFacts
<1>6. x \notin Mapped /\ x # scanout_priv
      /\ (pix[p].bo = scanout => scanout_priv = None)
  <2>1. x \notin Mapped
    BY <1>1, <1>2, OperandFacts DEF Mapped
  <2>2. pix[p].bo = scanout => scanout_priv = None
    BY <1>1, OperandFacts
  <2>3. x # scanout_priv
    <3>1. scanout_priv # None => scanout_priv \in Mapped
      BY OperandFacts DEF Accounts, ScanoutRemembered, Scans
    <3> QED  BY <1>1, <2>1, <3>1
  <2> QED  BY <2>1, <2>2, <2>3
<1>7. \A q \in Pixmaps \ {p} : pix[q].priv # x /\ pix'[q] = pix[q]
  <2>1. \A q \in Pixmaps \ {p} : pix[q].priv # x
    <3> SUFFICES ASSUME NEW q \in Pixmaps \ {p}, pix[q].priv = x PROVE FALSE
      OBVIOUS
    <3>1. x \in privs
      BY <1>1, OperandFacts
    <3> QED  BY <1>1, <1>2, <3>1, OperandFacts
  <2>2. \A q \in Pixmaps \ {p} : pix'[q] = pix[q]
    BY <1>1 DEF MapMiss, HInv, Typed, Pixmaps
  <2> QED  BY <2>1, <2>2
<1> DEFINE v == Victims
<1>8. Mapped' = (Mapped \ v) \cup {x}
  BY <1>4, <1>5, <1>6 DEF Mapped
<1>9. MayTrack(p, x, v) /\ Track(p, x, v) /\ Listing
  BY <1>1, <1>5, <1>6 DEF MayTrack, Accounts
<1> HIDE DEF v
<1>10. Listing' /\ (pix[p].bo # scanout => map_list' # <<>> /\ map_list'[Len(map_list')] = x)
  BY <1>1, <1>4, <1>8, <1>9, TrackKeeps
<1>11. HasMapping(p)' /\ pix'[p].priv = x /\ p \in Pixmaps'
  BY <1>1, <1>3, <1>4 DEF HasMapping
<1>12. \A q \in Pixmaps \ {p} :
         HasMapping(q)' <=> HasMapping(q) /\ pix[q].priv \notin v
  <2> SUFFICES ASSUME NEW q \in Pixmaps \ {p}
               PROVE  HasMapping(q)' <=> HasMapping(q) /\ pix[q].priv \notin v
    OBVIOUS
  <2>1. pix'[q] = pix[q] /\ pix[q].priv \in Priv \cup {None} /\ pix[q].priv # x
    BY <1>7, OperandFacts
  <2>2. None \notin v
    BY <1>4, <1>5, SetsAssumption DEF Mapped, v
  <2> QED  BY <1>4, <2>1, <2>2 DEF HasMapping, v
<1>13. ScanoutRemembered'
  <2>1. CASE pix[p].bo = scanout
    <3>1. scanout_priv' = x /\ Scans(p)'
      BY <1>1, <1>3, <1>11, <2>1 DEF Track, Scans
    <3>2. \A q \in Pixmaps' : Scans(q)' => q = p
      <4>1. \A q \in Pixmaps \ {p} : pix'[q].bo # scanout'
        BY <1>1, <1>3, <2>1, OperandFacts
      <4> QED  BY <1>3, <4>1 DEF Scans
    <3> QED  BY <1>11, <3>1, <3>2 DEF ScanoutRemembered
  <2>2. CASE pix[p].bo # scanout
    <3>1. scanout_priv' = scanout_priv
      BY <1>1, <2>2 DEF Track
    <3>2. p \in Pixmaps' => ~Scans(p)'
      BY <1>1, <1>3, <2>2 DEF Scans
    <3>3. \A q \in Pixmaps \ {p} : pix[q].bo = scanout /\ pix[q].priv # None =>
             mapped'[pix[q].priv] = mapped[pix[q].priv]
      <4> SUFFICES ASSUME NEW q \in Pixmaps \ {p}, pix[q].bo = scanout, pix[q].priv # None
                   PROVE  mapped'[pix[q].priv] = mapped[pix[q].priv]
        OBVIOUS
      <4>1. pix[q].priv \in Priv /\ pix[q].priv # x
        BY <1>7, OperandFacts
      <4>2. pix[q].priv \notin Victims
        BY <1>5, OperandFacts
      <4> QED  BY <1>4, <4>1, <4>2
    <3>4. \A q \in Pix \ {p} : pix'[q] = pix[q]
      BY DEF MapMiss, HInv, Typed
    <3>5. p \in Pixmaps => ~Scans(p)
      BY <2>2 DEF Scans
    <3> QED  BY <1>1, <3>1, <3>2, <3>3, <3>4, <3>5, ScanoutStays DEF Accounts
  <2> QED  BY <2>1, <2>2
<1>14. CacheAccounted'
  <2>1. UNCHANGED cacheVars /\ size' \in [Bo -> Nat] /\ \A b \in BosOf(bo_list) : size'[b] = size[b]
    BY <1>1 DEF HInv, Typed
  <2> QED  BY <2>1, CacheStays DEF HInv, Accounts
<1>15. OperandsUsed'
  <2>1. operands' \subseteq Pixmaps' /\ IsFiniteSet(operands')
    BY <1>1, <1>3, OperandsAre DEF Accounts, OperandsUsed
  <2>2. ASSUME NEW q \in operands', q # p PROVE HasMapping(q)'
    <3>1. operands = {q} /\ q \in Pixmaps \ {p} /\ HasMapping(q)
      BY <1>1, <2>2, OperandsAre DEF Accounts, OperandsUsed
    <3>2. CASE pix[q].bo = scanout
      BY <1>5, <1>12, <3>1, <3>2, OperandFacts DEF v
    <3>3. CASE pix[q].bo # scanout
      <4>1. map_list[Len(map_list)] = pix[q].priv
        BY <3>1, <3>3 DEF Accounts, OperandsUsed
      <4>2. pix[q].priv \notin v
        BY <4>1, VictimFacts DEF v
      <4> QED  BY <1>12, <3>1, <4>2
    <3> QED  BY <3>2, <3>3
  <2>3. ASSUME NEW q \in operands', operands' = {q}, pix'[q].bo # scanout'
        PROVE  map_list' # <<>> /\ map_list'[Len(map_list')] = pix'[q].priv
    <3>1. q = p
      BY <1>1, <2>3
    <3> QED  BY <1>1, <1>3, <1>10, <1>11, <2>3, <3>1
  <2> QED  BY <1>11, <2>1, <2>2, <2>3 DEF OperandsUsed
<1> QED  BY <1>10, <1>13, <1>14, <1>15 DEF Accounts

\* A mapping could not be made, which may have cost another one all the same.
LEMMA MapFailsAccounts ==
  ASSUME HInv, Accounts, NEW p \in Pix, MapFails(p)
  PROVE  Accounts'
<1>1. p \in Pixmaps /\ ~HasMapping(p) /\ operands' = {}
      /\ map_list' = Spared(Victims) /\ map_count' = map_count - Cardinality(Victims)
      /\ UNCHANGED <<size, cacheVars, scanout, scanout_priv, phase>>
  BY DEF MapFails, MayMap
<1>2. /\ privs' = privs \ {pix[p].priv} /\ privs \in SUBSET Priv
      /\ \A y \in Priv : mapped'[y] = IF y \in Victims THEN None ELSE mapped[y]
      /\ \A q \in Pix \ {p} : pix'[q] = pix[q]
      /\ p \in Pix => pix'[p].priv = None
  <2>1. /\ privs' = privs \ {pix[p].priv} /\ privs \in SUBSET Priv
        /\ \A y \in Priv : mapped'[y] = IF y \in Victims THEN None ELSE mapped[y]
    BY DEF HInv, Typed, MapFails
  <2>2. \A q \in Pix \ {p} : pix'[q] = pix[q]
    BY DEF HInv, Typed, MapFails
  <2>3. p \in Pixmaps /\ Typed /\ pix' = [pix EXCEPT ![p].priv = None] /\ None \in Priv \cup {None}
    BY <1>1 DEF HInv, MapFails
  <2>4. /\ pix' \in [Pix -> PixRec \cup {None}]
        /\ Pixmaps' = Pixmaps
        /\ \A q \in Pixmaps : /\ pix'[q].bo = pix[q].bo /\ pix'[q].flags = pix[q].flags
                              /\ pix'[q].priv = IF q = p THEN None ELSE pix[q].priv
    BY <2>3, PrivChanged
  <2> QED  BY <1>1, <2>1, <2>2, <2>4
<1>3. /\ Victims \subseteq Members(map_list) /\ Victims \subseteq Mapped
      /\ scanout_priv \notin Victims /\ map_count - Cardinality(Victims) <= MaxMaps
  BY VictimFacts
<1>4. pix[p].priv \notin Mapped
  BY <1>1, OperandFacts
<1>5. Mapped' = Mapped \ Victims
  BY <1>2, <1>3, <1>4 DEF Mapped
<1>6. Listing'
  <2> DEFINE t == Delist(map_list, Victims)
  <2>1. t \in Seq(Priv) /\ Members(t) = Members(map_list) \ Victims /\ Once(t)
    BY DelistFacts DEF Accounts, Listing
  <2>2. Len(t) = Len(map_list) - Cardinality(Victims)
    BY <1>3, DelistLength DEF Accounts, Listing
  <2>3. map_list' = t
    BY <1>1 DEF Spared
  <2> HIDE DEF t
  <2>4. Members(map_list)' = Members(t) /\ Once(map_list)' = Once(t)
    BY <2>3, MembersOf
  <2>5. Len(t) \in Nat /\ MaxMaps \in Nat
    BY <2>1, NumbersAssumption
  <2>6. map_count' = Len(t) /\ map_count' <= MaxMaps + 1
    BY <1>1, <1>3, <2>2, <2>5 DEF Accounts, Listing
  <2>7. Members(t) = Mapped' \ {scanout_priv}
    BY <1>5, <2>1 DEF Accounts, Listing
  <2> QED  BY <1>1, <2>1, <2>3, <2>4, <2>6, <2>7 DEF Accounts, Listing
<1>7. ScanoutRemembered'
  <2>1. ~Scans(p) /\ ~Scans(p)'
    BY <1>1, <1>2 DEF Scans, HasMapping
  <2>2. \A q \in Pixmaps \ {p} : pix[q].bo = scanout /\ pix[q].priv # None =>
           mapped'[pix[q].priv] = mapped[pix[q].priv]
    <3> SUFFICES ASSUME NEW q \in Pixmaps \ {p}, pix[q].bo = scanout, pix[q].priv # None
                 PROVE  mapped'[pix[q].priv] = mapped[pix[q].priv]
      OBVIOUS
    <3>1. pix[q].priv \in Priv /\ pix[q].priv \notin Victims
      BY <1>3, OperandFacts
    <3> QED  BY <1>2, <3>1
  <2> QED  BY <1>1, <1>2, <2>1, <2>2, ScanoutStays DEF Accounts
<1>8. CacheAccounted'
  <2>1. UNCHANGED cacheVars /\ size' \in [Bo -> Nat] /\ \A b \in BosOf(bo_list) : size'[b] = size[b]
    BY <1>1 DEF HInv, Typed
  <2> QED  BY <2>1, CacheStays DEF HInv, Accounts
<1> QED  BY <1>1, <1>6, <1>7, <1>8, NoOperands DEF Accounts

\* The operation ends; so it is when nothing of the sort changes.
LEMMA NothingAccounts ==
  ASSUME HInv, Accounts, operands' \in {operands, {}},
         UNCHANGED <<pix, size, mapVars, cacheVars, scanout, phase>>
  PROVE  Accounts'
<1>1. UNCHANGED <<mapVars, cacheVars>> /\ pix' = pix /\ size' = size /\ scanout' = scanout
      /\ scanout_priv' = scanout_priv /\ mapped' = mapped /\ map_list' = map_list
  BY DEF mapVars
<1>2. Listing'
  BY <1>1, ListingStays DEF Accounts
<1>3. CacheAccounted'
  BY <1>1, CacheStays DEF HInv, Typed, Accounts
<1>4. Pixmaps' = Pixmaps /\ \A q : (Scans(q)' <=> Scans(q)) /\ (HasMapping(q)' <=> HasMapping(q))
  BY <1>1 DEF Pixmaps, Scans, HasMapping
<1>5. ScanoutRemembered'
  BY <1>1, <1>4 DEF Accounts, ScanoutRemembered
<1>6. CASE operands' = operands
  <2>1. OperandsUsed'
    BY <1>1, <1>4, <1>6 DEF Accounts, OperandsUsed
  <2> QED  BY <1>2, <1>3, <1>5, <2>1 DEF Accounts
<1>7. CASE operands' = {}
  BY <1>2, <1>3, <1>5, <1>7, NoOperands DEF Accounts
<1> QED  BY <1>6, <1>7

-----------------------------------------------------------------------------
(* Pixmaps come, grow and go. *)

\* sgxUnmapPixmapBo.
LEMMA UnmapKeeps ==
  ASSUME HInv, Listing, NEW gone \in SUBSET privs, Unmap(gone)
  PROVE  Listing'
<1> DEFINE listed == {x \in gone \ {scanout_priv} : mapped[x] # None}
<1>1. listed = (gone \cap Mapped) \ {scanout_priv}
  BY DEF Mapped
<1>2. Discard(gone, listed)
      /\ scanout_priv' = IF scanout_priv \in gone THEN None ELSE scanout_priv
  BY DEF Unmap
<1>3. mapped \in [Priv -> Bo \cup {None}] /\ privs \in SUBSET Priv
  BY DEF HInv, Typed
<1> HIDE DEF listed
<1> QED  BY <1>1, <1>2, <1>3, DiscardKeeps

\* sgxBoCacheRemove.
LEMMA UncacheKeeps ==
  ASSUME HInv, Listing, NEW entries, PrivsOf(entries) \subseteq privs,
         scanout_priv \notin PrivsOf(entries), Uncache(entries)
  PROVE  Listing'
<1> DEFINE gone == PrivsOf(entries)
           listed == {x \in gone : mapped[x] # None}
<1>1. Discard(gone, listed) /\ scanout_priv' = scanout_priv
  BY DEF Uncache
<1>2. gone \in SUBSET privs /\ scanout_priv \notin gone
  OBVIOUS
<1>3. listed = (gone \cap Mapped) \ {scanout_priv}
  BY <1>2 DEF Mapped
<1>4. mapped \in [Priv -> Bo \cup {None}] /\ privs \in SUBSET Priv
  BY DEF HInv, Typed
<1> HIDE DEF gone, listed
<1> QED  BY <1>1, <1>2, <1>3, <1>4, DiscardKeeps

\* A buffer comes out of the cache,
LEMMA CreateCachedAccounts ==
  ASSUME HInv, Accounts, HInv', NEW p \in Pix, NEW n \in PageCount, CreateCached(p, n)
  PROVE  Accounts'
<1>1. PICK i \in 1 .. Len(bo_list) :
        /\ pix' = [pix EXCEPT ![p] = [bo |-> bo_list[i].bo, priv |-> bo_list[i].priv,
                                      flags |-> "wc"]]
        /\ bo_list' = Without(bo_list, i)
        /\ bo_count' = bo_count - 1 /\ bo_size' = bo_size - n
        /\ size[bo_list[i].bo] = n
  BY DEF CreateCached, First, Hits
<1>2. /\ UNCHANGED <<size, mapVars, scanout, operands, phase>> /\ operands = {}
      /\ p \notin Pixmaps
  BY DEF CreateCached, Idle
<1>3. bo_list \in Seq(Entry) /\ size \in [Bo -> Nat] /\ pix \in [Pix -> PixRec \cup {None}]
  BY DEF HInv, Typed
<1>4. CacheAccounted'
  <2> DEFINE t == Without(bo_list, i)
  <2>1. t \in Seq(Entry)
    BY <1>3, WithoutEntry DEF HInv, CacheApart
  <2>2. /\ TotalIn(bo_list, size) = TotalIn(t, size) + size[bo_list[i].bo]
        /\ TotalIn(t, size) \in Nat /\ size[bo_list[i].bo] \in Nat
        /\ Len(t) = Len(bo_list) - 1
    BY <1>3, TotalWithout
  <2> HIDE DEF t
  <2>3. Total(bo_list) = Total(t) + n /\ Total(t) \in Nat /\ n \in Nat
    BY <1>1, <2>2, TotalNow
  <2>4. bo_count = Len(bo_list) /\ bo_size = Total(bo_list) /\ bo_size <= CacheSize
    BY DEF Accounts, CacheAccounted
  <2>5. bo_count' = Len(t) /\ bo_size' = Total(t) /\ Total(t) <= CacheSize
    BY <1>1, <2>2, <2>3, <2>4, NumbersAssumption
  <2>6. size' = size /\ bo_list' = t
    BY <1>1, <1>2 DEF t
  <2> QED  BY <1>3, <2>1, <2>5, <2>6, CacheBecomes
<1>5. ScanoutRemembered'
  <2>1. \A q \in Pix \ {p} : pix'[q] = pix[q]
    BY <1>1, <1>3
  <2>2. pix'[p].flags = "wc"
    BY <1>1, <1>3
  <2>3. p \in Pixmaps' => ~Scans(p)'
    BY <2>2 DEF HInv, PixmapsBacked, Scans
  <2>4. UNCHANGED <<scanout, scanout_priv>> /\ mapped' = mapped
    BY <1>2 DEF mapVars
  <2> QED  BY <1>2, <2>1, <2>3, <2>4, ScanoutStays DEF Accounts
<1>6. Listing'
  BY <1>2, ListingStays DEF Accounts
<1> QED  BY <1>2, <1>4, <1>5, <1>6, NoOperands DEF Accounts

\* or from the kernel.
LEMMA CreateNewAccounts ==
  ASSUME HInv, Accounts, HInv', NEW p \in Pix, NEW n \in PageCount, NEW b \in Bo,
         NEW flags, CreateNew(p, n, b, flags)
  PROVE  Accounts'
<1>1. /\ UNCHANGED <<mapVars, cacheVars, scanout, operands, phase>> /\ operands = {}
      /\ p \notin Pixmaps /\ size[b] = 0
      /\ pix' = [pix EXCEPT ![p] = [bo |-> b, priv |-> None, flags |-> flags]]
      /\ size' = [size EXCEPT ![b] = n]
  BY DEF CreateNew, Idle, Fresh, FreeBos
<1>2. size \in [Bo -> Nat] /\ size' \in [Bo -> Nat] /\ pix \in [Pix -> PixRec \cup {None}]
  BY DEF HInv, Typed
<1>3. CacheAccounted'
  <2>1. b \notin BosOf(bo_list) /\ BosOf(bo_list) \subseteq Bo
    BY <1>1, HeldByEntry DEF HInv, BosAlive, Typed
  <2>2. \A c \in BosOf(bo_list) : size'[c] = size[c]
    BY <1>1, <1>2, <2>1
  <2> QED  BY <1>1, <1>2, <2>2, CacheStays DEF HInv, Accounts
<1>4. ScanoutRemembered'
  <2>1. \A q \in Pix \ {p} : pix'[q] = pix[q]
    BY <1>1, <1>2
  <2>2. ~Scans(p)'
    BY <1>1, <1>2 DEF Scans, HasMapping
  <2>3. UNCHANGED <<scanout, scanout_priv>> /\ mapped' = mapped
    BY <1>1 DEF mapVars
  <2> QED  BY <1>1, <2>1, <2>2, <2>3, ScanoutStays DEF Accounts
<1>5. Listing'
  BY <1>1, ListingStays DEF Accounts
<1> QED  BY <1>1, <1>3, <1>4, <1>5, NoOperands DEF Accounts

\* sgxBoCachePut leaves as many entries and pages as the counters will say.
LEMMA KeptTotals ==
  ASSUME HInv, CacheAccounted, NEW p \in Pixmaps, pix[p].flags = "wc"
  PROVE  /\ Kept(p) \in Seq(Entry) /\ Evicted(p) \in Seq(Entry)
         /\ Len(Kept(p)) = bo_count + 1 - Len(Evicted(p))
         /\ Total(Kept(p)) = PagesWith(p) - Total(Evicted(p))
         /\ Total(Kept(p)) \in Nat /\ Total(Kept(p)) <= CacheSize
<1> DEFINE e == [bo |-> pix[p].bo, priv |-> pix[p].priv]
           all == Append(bo_list, e)
           n == Evictions(all, Total(all))
           gone == SubSeq(all, 1, n)
           kept == SubSeq(all, n + 1, Len(all))
<1>1. e \in Entry /\ e.bo = pix[p].bo
  BY PixmapFields DEF HInv, PixmapsBacked, Entry
<1>2. bo_list \in Seq(Entry) /\ size \in [Bo -> Nat]
  BY DEF HInv, Typed
<1>3. bo_count = Len(bo_list) /\ bo_size = Total(bo_list)
  BY DEF CacheAccounted
<1>4. all = Enlarged(p)
  BY DEF Enlarged
<1> HIDE DEF e
<1>5. all \in Seq(Entry) /\ Len(all) = Len(bo_list) + 1
  BY <1>1, <1>2
<1>6. Total(all) = PagesWith(p)
  <2>1. TotalIn(all, size) = TotalIn(bo_list, size) + size[e.bo]
    BY <1>1, <1>2, TotalAppend
  <2> QED  BY <1>1, <1>3, <2>1, TotalNow DEF PagesWith
<1> HIDE DEF all
<1>7. /\ n \in 0 .. Len(all)
      /\ Total(all) = Total(gone) + Total(kept)
      /\ Total(gone) \in Nat /\ Total(kept) \in Nat /\ Total(kept) <= CacheSize
  BY <1>2, <1>5, EvictionsEnough
<1> HIDE DEF n
<1>8. /\ gone \in Seq(Entry) /\ Len(gone) = n
      /\ kept \in Seq(Entry) /\ Len(kept) = Len(all) - n
  BY <1>5, <1>7, SubSeqPart
<1>9. Evicted(p) = gone
  BY <1>4, <1>6 DEF Evicted, n
<1>10. Kept(p) = kept
  BY <1>4, <1>8, <1>9 DEF Kept
<1> HIDE DEF gone, kept
<1>11. Total(kept) = PagesWith(p) - Total(gone)
  BY <1>6, <1>7
<1>12. Len(kept) = bo_count + 1 - Len(gone)
  <2>1. Len(bo_list) \in Nat
    BY <1>2
  <2> QED  BY <1>3, <1>5, <1>7, <1>8, <2>1
<1> QED  BY <1>7, <1>8, <1>9, <1>10, <1>11, <1>12

\* None of the evicted records is that of scanout.
LEMMA EvictedRecords ==
  ASSUME HInv, Accounts, NEW p \in Pixmaps, pix[p].flags = "wc", Uncache(Evicted(p))
  PROVE  /\ Listing' /\ scanout_priv' = scanout_priv
         /\ \A q \in Pixmaps \ {p} : pix[q].bo = scanout /\ pix[q].priv # None =>
               mapped'[pix[q].priv] = mapped[pix[q].priv]
<1> DEFINE gone == Evicted(p)
<1>1. Split(p, gone, Kept(p)) /\ gone \in Seq(Entry)
  BY EvictedAndKept, KeptTotals DEF Accounts
<1> HIDE DEF gone
<1>2. PrivsOf(gone) \subseteq privs
  <2>1. PrivsOf(gone) \subseteq Priv
    BY <1>1, HeldByEntry
  <2> QED  BY <1>1, <2>1 DEF Split
<1>3. pix[p].bo # scanout
  BY DEF HInv, PixmapsBacked
<1>4. \A q \in Pixmaps \ {p} : pix[q].priv \notin PrivsOf(gone)
  BY <1>1 DEF Split
<1>5. scanout_priv \notin PrivsOf(gone)
  <2>1. CASE scanout_priv = None
    BY <2>1 DEF PrivsOf
  <2>2. CASE scanout_priv # None
    <3>1. PICK q \in Pixmaps : pix[q].bo = scanout /\ pix[q].priv = scanout_priv
      BY <2>2 DEF Accounts, ScanoutRemembered, Scans
    <3> QED  BY <1>3, <1>4, <3>1
  <2> QED  BY <2>1, <2>2
<1>6. Uncache(gone)
  BY DEF gone
<1>7. Listing'
  BY <1>2, <1>5, <1>6, UncacheKeeps DEF Accounts
<1>8. scanout_priv' = scanout_priv
      /\ mapped' = [x \in Priv |-> IF x \in PrivsOf(gone) THEN None ELSE mapped[x]]
  BY <1>6 DEF Uncache, Discard
<1>9. ASSUME NEW q \in Pixmaps \ {p}, pix[q].priv # None
      PROVE  mapped'[pix[q].priv] = mapped[pix[q].priv]
  <2>1. pix[q].priv \in Priv
    BY <1>9, PixmapFields DEF HInv
  <2> QED  BY <1>4, <1>8, <2>1
<1> QED  BY <1>7, <1>8, <1>9

\* A buffer goes to the cache, which may be too large then,
LEMMA DestroyToCacheAccounts ==
  ASSUME HInv, Accounts, HInv', NEW p \in Pix, DestroyToCache(p)
  PROVE  Accounts'
<1>1. /\ p \in Pixmaps /\ pix[p].flags = "wc" /\ operands = {} /\ operands' = operands
      /\ scanout' = scanout /\ Uncache(Evicted(p))
      /\ bo_list' = Kept(p)
      /\ bo_count' = bo_count + 1 - Len(Evicted(p))
      /\ bo_size' = PagesWith(p) - Total(Evicted(p))
      /\ size' = [c \in Bo |-> IF c \in BosOf(Evicted(p)) THEN 0 ELSE size[c]]
      /\ pix' = [pix EXCEPT ![p] = None]
  BY DEF DestroyToCache, Idle
<1>2. /\ Listing' /\ scanout_priv' = scanout_priv
      /\ \A q \in Pixmaps \ {p} : pix[q].bo = scanout /\ pix[q].priv # None =>
            mapped'[pix[q].priv] = mapped[pix[q].priv]
  BY <1>1, EvictedRecords
<1>3. CacheAccounted'
  <2> DEFINE t == Kept(p)
  <2>1. /\ t \in Seq(Entry) /\ bo_count' = Len(t) /\ bo_size' = Total(t) /\ Total(t) <= CacheSize
    BY <1>1, KeptTotals DEF Accounts
  <2>2. \A b \in BosOf(t) : size'[b] = size[b]
    <3>1. Split(p, Evicted(p), t)
      BY <1>1, EvictedAndKept
    <3>2. BosOf(t) \subseteq Bo
      BY <2>1, HeldByEntry
    <3> QED  BY <1>1, <3>1, <3>2 DEF Split
  <2>3. size \in [Bo -> Nat] /\ size' \in [Bo -> Nat] /\ bo_list' = t
    BY <1>1 DEF HInv, Typed
  <2> HIDE DEF t
  <2> QED  BY <2>1, <2>2, <2>3, CacheBecomes
<1>4. ScanoutRemembered'
  <2>1. (\A q \in Pix \ {p} : pix'[q] = pix[q]) /\ p \notin Pixmaps'
    BY <1>1 DEF HInv, Typed, Pixmaps
  <2>2. ~Scans(p)
    BY <1>1 DEF Scans, HInv, PixmapsBacked
  <2> QED  BY <1>1, <1>2, <2>1, <2>2, ScanoutStays DEF Accounts
<1> QED  BY <1>1, <1>2, <1>3, <1>4, NoOperands DEF Accounts

\* or is replaced by a larger one, from the cache or from the kernel.
LEMMA GrowAccounts ==
  ASSUME HInv, Accounts, HInv', NEW p \in Pix, NEW n \in PageCount, NEW b \in Bo, Grow(p, n, b)
  PROVE  Accounts'
<1> DEFINE kept == Kept(p)
           gone == Evicted(p)
<1>1. /\ p \in Pixmaps /\ pix[p].flags = "wc" /\ operands = {} /\ operands' = operands
      /\ scanout' = scanout /\ Uncache(Evicted(p))
  BY DEF Grow, Idle
<1>2. /\ Listing' /\ scanout_priv' = scanout_priv
      /\ \A q \in Pixmaps \ {p} : pix[q].bo = scanout /\ pix[q].priv # None =>
            mapped'[pix[q].priv] = mapped[pix[q].priv]
  BY <1>1, EvictedRecords
<1>3. \/ \E i \in 1 .. Len(kept) :
           /\ b = kept[i].bo /\ size[kept[i].bo] = n
           /\ Regrown(p, b, kept[i].priv, Without(kept, i))
           /\ bo_count' = bo_count - Len(gone)
           /\ bo_size' = (PagesWith(p) - Total(gone)) - n
           /\ size' = [c \in Bo |-> IF c \in BosOf(gone) THEN 0 ELSE size[c]]
      \/ /\ size[b] = 0 \/ b \in BosOf(gone)
         /\ Regrown(p, b, None, kept)
         /\ bo_count' = bo_count + 1 - Len(gone)
         /\ bo_size' = PagesWith(p) - Total(gone)
         /\ size' = [c \in Bo |-> IF c = b THEN n ELSE IF c \in BosOf(gone) THEN 0 ELSE size[c]]
  BY DEF Grow, First, Hits, Fresh, FreeBos, Regrown
<1>4. Split(p, gone, kept)
  BY <1>1, EvictedAndKept
<1>5. /\ kept \in Seq(Entry) /\ gone \in Seq(Entry)
      /\ Len(kept) = bo_count + 1 - Len(gone)
      /\ Total(kept) = PagesWith(p) - Total(gone)
      /\ Total(kept) \in Nat /\ Total(kept) <= CacheSize
  BY <1>1, KeptTotals DEF Accounts
<1>6. bo_count \in Nat /\ Len(gone) \in Nat /\ CacheSize \in Nat
  BY <1>5, NumbersAssumption DEF Accounts, CacheAccounted, HInv, Typed
<1>7. size \in [Bo -> Nat] /\ size' \in [Bo -> Nat] /\ pix \in [Pix -> PixRec \cup {None}]
      /\ BosOf(kept) \subseteq Bo
  BY <1>5, HeldByEntry DEF HInv, Typed
<1> HIDE DEF kept, gone
<1>8. ASSUME \E i \in 1 .. Len(kept) :
               /\ b = kept[i].bo /\ size[kept[i].bo] = n
               /\ Regrown(p, b, kept[i].priv, Without(kept, i))
               /\ bo_count' = bo_count - Len(gone)
               /\ bo_size' = (PagesWith(p) - Total(gone)) - n
               /\ size' = [c \in Bo |-> IF c \in BosOf(gone) THEN 0 ELSE size[c]]
      PROVE  CacheAccounted'
  <2>1. PICK i \in 1 .. Len(kept) :
          /\ size[kept[i].bo] = n
          /\ Regrown(p, b, kept[i].priv, Without(kept, i))
          /\ bo_count' = bo_count - Len(gone)
          /\ bo_size' = (PagesWith(p) - Total(gone)) - n
          /\ size' = [c \in Bo |-> IF c \in BosOf(gone) THEN 0 ELSE size[c]]
    BY <1>8
  <2> DEFINE t == Without(kept, i)
  <2>2. t \in Seq(Entry) /\ BosOf(t) \subseteq BosOf(kept)
    BY <1>4, <1>5, WithoutEntry DEF Split
  <2>3. /\ TotalIn(kept, size) = TotalIn(t, size) + size[kept[i].bo]
        /\ TotalIn(t, size) \in Nat /\ size[kept[i].bo] \in Nat
        /\ Len(t) = Len(kept) - 1
    BY <1>5, <1>7, TotalWithout
  <2> HIDE DEF t
  <2>4. Total(kept) = Total(t) + n /\ Total(t) \in Nat /\ n \in Nat
    BY <2>1, <2>3, TotalNow
  <2>5. bo_count' = Len(t)
    BY <1>5, <1>6, <2>1, <2>3
  <2>6. bo_size' = Total(t) /\ Total(t) <= CacheSize
    BY <1>5, <1>6, <2>1, <2>4
  <2>7. \A c \in BosOf(t) : size'[c] = size[c]
    BY <1>4, <1>7, <2>1, <2>2 DEF Split
  <2>8. bo_list' = t
    BY <2>1 DEF Regrown, t
  <2> QED  BY <1>7, <2>2, <2>5, <2>6, <2>7, <2>8, CacheBecomes
<1>9. ASSUME /\ size[b] = 0 \/ b \in BosOf(gone)
             /\ Regrown(p, b, None, kept)
             /\ bo_count' = bo_count + 1 - Len(gone)
             /\ bo_size' = PagesWith(p) - Total(gone)
             /\ size' = [c \in Bo |-> IF c = b THEN n ELSE IF c \in BosOf(gone) THEN 0 ELSE size[c]]
      PROVE  CacheAccounted'
  <2>1. b \notin BosOf(kept)
    BY <1>4, <1>9 DEF Split
  <2>2. \A c \in BosOf(kept) : size'[c] = size[c]
    BY <1>4, <1>7, <1>9, <2>1 DEF Split
  <2>3. bo_list' = kept /\ bo_count' = Len(kept) /\ bo_size' = Total(kept)
    BY <1>5, <1>9 DEF Regrown
  <2> QED  BY <1>5, <1>7, <2>2, <2>3, CacheBecomes
<1>10. CacheAccounted'
  BY <1>3, <1>8, <1>9
<1>11. PICK x : pix' = [pix EXCEPT ![p] = [bo |-> b, priv |-> x, flags |-> "wc"]]
  BY <1>3 DEF Regrown
<1>12. ScanoutRemembered'
  <2>1. \A q \in Pix \ {p} : pix'[q] = pix[q]
    BY <1>7, <1>11
  <2>2. pix'[p].flags = "wc"
    BY <1>7, <1>11
  <2>3. p \in Pixmaps' => ~Scans(p)'
    BY <2>2 DEF HInv, PixmapsBacked, Scans
  <2>4. ~Scans(p)
    BY <1>1 DEF Scans, HInv, PixmapsBacked
  <2> QED  BY <1>1, <1>2, <2>1, <2>3, <2>4, ScanoutStays DEF Accounts
<1> QED  BY <1>1, <1>2, <1>10, <1>12, NoOperands DEF Accounts

\* The mapping of a pixmap's buffer goes, and no other.
LEMMA UnmapRecords ==
  ASSUME HInv, Accounts, NEW p \in Pixmaps, Unmap({pix[p].priv} \ {None})
  PROVE  /\ Listing'
         /\ scanout_priv' = IF pix[p].bo = scanout THEN None ELSE scanout_priv
         /\ \A q \in Pixmaps \ {p} : pix[q].priv # None =>
               mapped'[pix[q].priv] = mapped[pix[q].priv]
<1> DEFINE gone == {pix[p].priv} \ {None}
<1>1. /\ gone \in SUBSET privs
      /\ \A q \in Pixmaps \ {p} : pix[q].priv \notin gone
  BY OperandFacts
<1>2. Unmap(gone)
  OBVIOUS
<1>3. pix[p].bo # scanout => scanout_priv \notin gone
  BY OperandFacts
<1>4. pix[p].bo = scanout /\ scanout_priv # None => scanout_priv \in gone
  BY OperandFacts DEF Accounts, ScanoutRemembered, Scans
<1> HIDE DEF gone
<1>5. Listing'
  BY <1>1, <1>2, UnmapKeeps DEF Accounts
<1>6. /\ scanout_priv' = IF scanout_priv \in gone THEN None ELSE scanout_priv
      /\ mapped' = [x \in Priv |-> IF x \in gone THEN None ELSE mapped[x]]
  BY <1>2 DEF Unmap, Discard
<1>7. ASSUME NEW q \in Pixmaps \ {p}, pix[q].priv # None
      PROVE  mapped'[pix[q].priv] = mapped[pix[q].priv]
  <2>1. pix[q].priv \in Priv
    BY <1>7, PixmapFields DEF HInv
  <2> QED  BY <1>1, <1>6, <2>1
<1> QED  BY <1>3, <1>4, <1>5, <1>6, <1>7

\* No pixmap has the scanout buffer mapped any more.
LEMMA ScanoutForgotten ==
  ASSUME scanout_priv' = None, \A q \in Pixmaps' : ~Scans(q)'
  PROVE  ScanoutRemembered'
  BY DEF ScanoutRemembered

\* A scanout-capable pixmap goes, be its buffer scanout or not.
LEMMA DestroyAndFreeAccounts ==
  ASSUME HInv, Accounts, HInv', NEW p \in Pix, DestroyAndFree(p)
  PROVE  Accounts'
<1>1. /\ p \in Pixmaps /\ operands = {} /\ operands' = operands
      /\ Unmap({pix[p].priv} \ {None})
      /\ size' = [c \in Bo |-> IF c \in Deletes(p) THEN 0 ELSE size[c]]
      /\ pix' = [pix EXCEPT ![p] = None]
      /\ UNCHANGED cacheVars /\ scanout' = scanout
  BY DEF DestroyAndFree, Idle
<1>2. size' \in [Bo -> Nat] /\ pix \in [Pix -> PixRec \cup {None}] /\ bo_list \in Seq(Entry)
  BY DEF HInv, Typed
<1>3. /\ Listing'
      /\ scanout_priv' = IF pix[p].bo = scanout THEN None ELSE scanout_priv
      /\ \A q \in Pixmaps \ {p} : pix[q].priv # None =>
            mapped'[pix[q].priv] = mapped[pix[q].priv]
  BY <1>1, UnmapRecords
<1>4. CacheAccounted'
  <2>1. pix[p].bo \notin BosOf(bo_list) /\ BosOf(bo_list) \subseteq Bo
    BY <1>1, <1>2, HeldByEntry DEF HInv, CacheApart
  <2>2. \A c \in BosOf(bo_list) : size'[c] = size[c]
    BY <1>1, <2>1 DEF Deletes
  <2> QED  BY <1>1, <1>2, <2>2, CacheStays DEF HInv, Accounts
<1>5. p \notin Pixmaps' /\ (\A q \in Pix \ {p} : pix'[q] = pix[q])
  BY <1>1, <1>2 DEF Pixmaps
<1>6. ScanoutRemembered'
  <2>1. CASE pix[p].bo = scanout
    <3>1. \A q \in Pixmaps' : q \in Pixmaps \ {p} /\ pix'[q] = pix[q]
      BY <1>5 DEF Pixmaps
    <3>2. \A q \in Pixmaps' : ~Scans(q)'
      BY <1>1, <2>1, <3>1, OperandFacts DEF Scans
    <3> QED  BY <1>3, <2>1, <3>2, ScanoutForgotten
  <2>2. CASE pix[p].bo # scanout
    <3>1. ~Scans(p)
      BY <2>2 DEF Scans
    <3> QED  BY <1>1, <1>3, <1>5, <2>2, <3>1, ScanoutStays DEF Accounts
  <2> QED  BY <2>1, <2>2
<1> QED  BY <1>1, <1>3, <1>4, <1>6, NoOperands DEF Accounts

-----------------------------------------------------------------------------
(* The screen pixmap. *)

\* It loses its record and gets buffer b.
LEMMA RootRewrapped ==
  ASSUME HInv, NEW b \in Bo, Rewrapped(b)
  PROVE  /\ Root \in Pixmaps /\ Pixmaps' = Pixmaps
         /\ pix'[Root].bo = b /\ pix'[Root].priv = None
         /\ \A q \in Pix \ {Root} : pix'[q] = pix[q]
<1>1. Root \in Pixmaps /\ pix[Root] \in PixRec /\ Root \in Pix
      /\ pix \in [Pix -> PixRec \cup {None}]
  BY PixmapFields DEF HInv, PixmapsBacked, Typed
<1> DEFINE r == [pix[Root] EXCEPT !.bo = b, !.priv = None]
<1>2. r \in PixRec /\ r.bo = b /\ r.priv = None
  BY <1>1 DEF PixRec
<1>3. pix' = [pix EXCEPT ![Root] = r]
  BY <1>1 DEF Rewrapped
<1> HIDE DEF r
<1>4. r # None /\ r \in PixRec \cup {None} /\ Typed
  BY <1>2, NoneAssumption DEF HInv
<1>5. /\ pix'[Root] = r /\ \A q \in Pix \ {Root} : pix'[q] = pix[q]
      /\ Pixmaps' = IF r = None THEN Pixmaps \ {Root} ELSE Pixmaps \cup {Root}
  BY <1>1, <1>3, <1>4, OneChanged
<1> QED  BY <1>1, <1>2, <1>4, <1>5

\* A flipped screen pixmap gets a buffer of its own.
LEMMA ReplaceFrontAccounts ==
  ASSUME HInv, Accounts, HInv', NEW n \in PageCount, NEW b \in Bo, ReplaceFront(n, b)
  PROVE  Accounts'
<1>1. /\ operands = {} /\ operands' = operands /\ pix[Root].bo # scanout
      /\ size[b] = 0 /\ Rewrapped(b) /\ Unmap({pix[Root].priv} \ {None})
      /\ size' = [c \in Bo |-> IF c = b THEN n ELSE IF c \in Deletes(Root) THEN 0 ELSE size[c]]
      /\ UNCHANGED cacheVars /\ scanout' = scanout
  BY DEF ReplaceFront, Idle, Rewrapped, Fresh, FreeBos
<1>2. size' \in [Bo -> Nat] /\ bo_list \in Seq(Entry)
  BY DEF HInv, Typed
<1>3. /\ Root \in Pixmaps /\ Pixmaps' = Pixmaps /\ Root \in Pix
      /\ pix'[Root].bo = b /\ pix'[Root].priv = None
      /\ \A q \in Pix \ {Root} : pix'[q] = pix[q]
  BY <1>1, RootRewrapped, SetsAssumption
<1>4. /\ Listing' /\ scanout_priv' = scanout_priv
      /\ \A q \in Pixmaps \ {Root} : pix[q].priv # None =>
            mapped'[pix[q].priv] = mapped[pix[q].priv]
  BY <1>1, <1>3, UnmapRecords
<1>5. CacheAccounted'
  <2>1. pix[Root].bo \notin BosOf(bo_list) /\ BosOf(bo_list) \subseteq Bo /\ b \notin BosOf(bo_list)
    BY <1>1, <1>2, <1>3, HeldByEntry DEF HInv, CacheApart, BosAlive
  <2>2. \A c \in BosOf(bo_list) : size'[c] = size[c]
    BY <1>1, <2>1 DEF Deletes
  <2> QED  BY <1>1, <1>2, <2>2, CacheStays DEF HInv, Accounts
<1>6. ScanoutRemembered'
  <2>1. ~Scans(Root) /\ ~Scans(Root)'
    BY <1>1, <1>3 DEF Scans, HasMapping
  <2> QED  BY <1>1, <1>3, <1>4, <2>1, ScanoutStays DEF Accounts
<1> QED  BY <1>1, <1>4, <1>5, <1>6, NoOperands DEF Accounts

\* A screen pixmap that has not been flipped is wrapped around scanout anew.
LEMMA WrapAccounts ==
  ASSUME HInv, Accounts, HInv', pix[Root].bo = scanout, scanout' \in Bo,
         Rewrapped(scanout'), UNCHANGED cacheVars, operands' = {},
         \A c \in BosOf(bo_list) : size'[c] = size[c]
  PROVE  Accounts'
<1>1. /\ Root \in Pixmaps /\ Pixmaps' = Pixmaps
      /\ pix'[Root].bo = scanout' /\ pix'[Root].priv = None
      /\ \A q \in Pix \ {Root} : pix'[q] = pix[q]
  BY RootRewrapped
<1>2. Listing' /\ scanout_priv' = None
  <2>1. Unmap({pix[Root].priv} \ {None})
    BY DEF Rewrapped
  <2> QED  BY <1>1, <2>1, UnmapRecords
<1>3. CacheAccounted'
  BY CacheStays DEF HInv, Accounts, Typed
<1>4. ASSUME NEW q \in Pixmaps' PROVE ~Scans(q)'
  <2>1. CASE q = Root
    BY <1>1, <2>1 DEF Scans, HasMapping
  <2>2. CASE q # Root
    BY <1>1, <1>4, <2>2 DEF HInv, PixmapsApart, Scans
  <2> QED  BY <2>1, <2>2
<1>5. ScanoutRemembered'
  BY <1>2, <1>4, ScanoutForgotten
<1> QED  BY <1>2, <1>3, <1>5, NoOperands DEF Accounts

\* drmmode_reallocate_scanout.
LEMMA ResizeAccounts ==
  ASSUME Tame, HInv, Accounts, HInv', NEW n \in PageCount, NEW b \in Bo, Resize(n, b)
  PROVE  Accounts'
<1>1. /\ pix[Root].bo = scanout /\ scanout' = b /\ Rewrapped(b)
      /\ UNCHANGED cacheVars /\ operands' = {} /\ (size[b] = 0 \/ b = scanout)
      /\ size' = [c \in Bo |-> IF c = b THEN n ELSE IF c = scanout THEN 0 ELSE size[c]]
  BY DEF Tame, Resize, Idle, WrapScanout, Rewrapped, Fresh, FreeBos
<1>2. scanout \notin BosOf(bo_list) /\ BosOf(bo_list) \subseteq Bo /\ b \notin BosOf(bo_list)
  BY <1>1, HeldByEntry DEF HInv, CacheApart, BosAlive, Typed
<1>3. \A c \in BosOf(bo_list) : size'[c] = size[c]
  BY <1>1, <1>2
<1> QED  BY <1>1, <1>3, WrapAccounts

\* Or it is the same scanout buffer.
LEMMA RewrapAccounts ==
  ASSUME Tame, HInv, Accounts, HInv', Rewrap
  PROVE  Accounts'
<1>1. /\ pix[Root].bo = scanout /\ scanout' = scanout /\ Rewrapped(scanout')
      /\ UNCHANGED cacheVars /\ operands' = {} /\ size' = size
  BY DEF Tame, Rewrap, Idle, WrapScanout, Rewrapped
<1>2. scanout' \in Bo
  BY <1>1 DEF HInv, Typed
<1> QED  BY <1>1, <1>2, WrapAccounts

\* exchangebufs: the mappings travel with the buffers.
LEMMA ExchangeAccounts ==
  ASSUME Tame, HInv, Accounts, HInv', NEW p \in Pix, Exchange(p)
  PROVE  Accounts'
<1> DEFINE Other(q) == IF q = Root THEN p ELSE IF q = p THEN Root ELSE q
<1>1. /\ p \in Pixmaps /\ Root \in Pixmaps /\ operands' = {}
      /\ UNCHANGED <<size, mapVars, cacheVars, scanout>>
      /\ pix' = [pix EXCEPT ![Root] = [@ EXCEPT !.bo = pix[p].bo, !.priv = pix[p].priv],
                            ![p]    = [@ EXCEPT !.bo = pix[Root].bo, !.priv = pix[Root].priv]]
  BY DEF Exchange, Idle, HInv, PixmapsBacked
<1>2. /\ pix[p] \in PixRec /\ pix[Root] \in PixRec /\ p \in Pix /\ Root \in Pix /\ p # Root
      /\ pix \in [Pix -> PixRec \cup {None}] /\ size \in [Bo -> Nat]
  BY <1>1, PixmapFields DEF HInv, Typed, Exchange
<1> DEFINE r == [pix[Root] EXCEPT !.bo = pix[p].bo, !.priv = pix[p].priv]
           t == [pix[p] EXCEPT !.bo = pix[Root].bo, !.priv = pix[Root].priv]
<1>3. /\ r \in PixRec /\ r.bo = pix[p].bo /\ r.priv = pix[p].priv
      /\ t \in PixRec /\ t.bo = pix[Root].bo /\ t.priv = pix[Root].priv
  BY <1>2 DEF PixRec
<1>4. pix' = [pix EXCEPT ![Root] = r, ![p] = t]
  BY <1>1, <1>2
<1> HIDE DEF r, t
<1>5. pix'[Root] = r /\ pix'[p] = t /\ \A q \in Pix \ {Root, p} : pix'[q] = pix[q]
  BY <1>2, <1>4
<1>6. Pixmaps' = Pixmaps
  BY <1>1, <1>3, <1>5, NoneAssumption DEF Pixmaps
<1>7. \A q \in Pixmaps : /\ Other(q) \in Pixmaps /\ Other(Other(q)) = q
                         /\ pix'[q].bo = pix[Other(q)].bo /\ pix'[q].priv = pix[Other(q)].priv
  BY <1>1, <1>3, <1>5 DEF Pixmaps
<1> HIDE DEF Other
<1>8. /\ scanout' = scanout /\ scanout_priv' = scanout_priv /\ mapped' = mapped /\ size' = size
  BY <1>1 DEF mapVars
<1>9. \A q \in Pixmaps : Scans(q)' <=> Scans(Other(q))
  BY <1>7, <1>8 DEF Scans, HasMapping
<1>10. ScanoutRemembered'
  <2>1. ASSUME NEW q \in Pixmaps', Scans(q)' PROVE pix'[q].priv = scanout_priv'
    <3>1. Other(q) \in Pixmaps /\ Scans(Other(q)) /\ pix'[q].priv = pix[Other(q)].priv
      BY <1>6, <1>7, <1>9, <2>1
    <3> QED  BY <1>8, <3>1 DEF Accounts, ScanoutRemembered
  <2>2. ASSUME scanout_priv' # None
        PROVE  \E q \in Pixmaps' : Scans(q)' /\ pix'[q].priv = scanout_priv'
    <3>1. PICK q \in Pixmaps : Scans(q) /\ pix[q].priv = scanout_priv
      BY <1>8, <2>2 DEF Accounts, ScanoutRemembered
    <3>2. Other(q) \in Pixmaps' /\ Scans(Other(q))' /\ pix'[Other(q)].priv = scanout_priv'
      BY <1>6, <1>7, <1>8, <1>9, <3>1
    <3> QED  BY <3>2
  <2> QED  BY <2>1, <2>2 DEF ScanoutRemembered
<1>11. Listing'
  BY <1>1, ListingStays DEF Accounts
<1>12. CacheAccounted'
  BY <1>1, <1>2, <1>8, CacheStays DEF HInv, Accounts
<1> QED  BY <1>1, <1>10, <1>11, <1>12, NoOperands DEF Accounts

-----------------------------------------------------------------------------
(* The screen is closed. *)

\* Afterwards the lists and the counters still agree, and no operation is under way.
Emptied ==
  /\ TypeOK /\ MapsListed /\ ScanoutTracked /\ CacheAccounted /\ operands = {}

\* CloseScreen: the mappings that are not the cache's are those of pixmaps, and
\* only the screen pixmap is left.
LEMMA CloseEmpties ==
  ASSUME HInv, Accounts, Close
  PROVE  Emptied'
<1> DEFINE cached == PrivsOf(bo_list)
           gone == cached \cup ({scanout_priv} \ {None})
           listed == {x \in cached : mapped[x] # None}
<1>1. /\ operands' = {} /\ Pixmaps = {Root} /\ phase' = "closed"
      /\ Discard(gone, listed)
      /\ scanout_priv' = None /\ scanout' = None /\ bo_list' = <<>>
      /\ bo_count' = bo_count - Len(bo_list) /\ bo_size' = bo_size - Total(bo_list)
      /\ size' = [c \in Bo |-> IF c \in BosOf(bo_list) \cup {scanout} THEN 0 ELSE size[c]]
      /\ pix' = pix
  BY DEF Close, Idle
<1>2. /\ pix \in [Pix -> PixRec \cup {None}] /\ size \in [Bo -> Nat] /\ bo_list \in Seq(Entry)
      /\ mapped \in [Priv -> Bo \cup {None}] /\ privs \in SUBSET Priv
  BY DEF HInv, Typed
<1>3. /\ cached \subseteq privs /\ scanout_priv \notin cached
      /\ (scanout_priv # None => scanout_priv \in privs)
  <2>1. cached \subseteq privs
    BY <1>2, HeldByEntry DEF HInv, PrivsAlive
  <2>2. scanout_priv # None => scanout_priv \in privs /\ scanout_priv \notin cached
    BY OperandFacts DEF Accounts, ScanoutRemembered, HInv, CacheApart
  <2>3. None \notin cached
    BY DEF PrivsOf
  <2> QED  BY <2>1, <2>2, <2>3
<1>4. gone \in SUBSET privs /\ listed = (gone \cap Mapped) \ {scanout_priv}
      /\ (scanout_priv # None => scanout_priv \in gone)
  BY <1>3 DEF Mapped
<1> HIDE DEF cached, gone, listed
<1>5. scanout_priv' = IF scanout_priv \in gone THEN None ELSE scanout_priv
  BY <1>1, <1>4
<1>6. Listing'
  BY <1>1, <1>2, <1>4, <1>5, DiscardKeeps DEF Accounts
<1>7. MapsListed'
  BY <1>6 DEF Listing, MapsListed, Members, Once, Mapped
<1>8. CacheAccounted' /\ bo_count' = 0 /\ bo_size' = 0
  <2>1. /\ bo_count = Len(bo_list) /\ bo_size = Total(bo_list) /\ Len(bo_list) \in Nat
        /\ Total(bo_list) \in Nat
    BY <1>2, TotalNow, TotalType DEF Accounts, CacheAccounted
  <2>2. bo_count' = 0 /\ bo_size' = 0
    BY <1>1, <2>1
  <2>3. Total(bo_list)' = TotalIn(bo_list', size')
    BY TotalNow
  <2>4. bo_list' \in Seq(Entry) /\ Len(bo_list') = 0 /\ size' \in [Bo -> Nat]
    BY <1>1, <1>2
  <2>5. Total(bo_list)' = 0
    BY <2>3, <2>4, TotalType
  <2> QED  BY <2>2, <2>4, <2>5, NumbersAssumption DEF CacheAccounted
<1>9. TypeOK'
  <2>1. size' \in [Bo -> Nat] /\ pix' \in [Pix -> PixRec \cup {None}]
    BY <1>1, <1>2
  <2>2. mapped' \in [Priv -> Bo \cup {None}] /\ privs' \in SUBSET Priv
    BY <1>1, <1>2 DEF Discard
  <2>3. map_list' \in Seq(Priv) /\ map_count' \in Nat
    BY <1>6 DEF Listing
  <2> QED  BY <1>1, <1>8, <2>1, <2>2, <2>3 DEF TypeOK
<1>10. ScanoutTracked'
  <2>1. ASSUME NEW h \in Holders', Held(h)'.priv # None
        PROVE  Held(h)'.priv # scanout_priv' /\ Held(h)'.bo # scanout'
    <3>1. h = <<"pixmap", Root>> /\ Held(h)' = pix[Root]
      BY <1>1 DEF Holders, Held, Pixmaps
    <3>2. pix[Root].bo \in Bo
      BY DEF HInv, PixmapsBacked
    <3> QED  BY <1>1, <2>1, <3>1, <3>2, SetsAssumption
  <2> QED  BY <2>1 DEF ScanoutTracked
<1> QED  BY <1>1, <1>7, <1>8, <1>9, <1>10 DEF Emptied

-----------------------------------------------------------------------------
(* The invariant is inductive. *)

\* While the screen is open, the owners of PvrBuffersProofs and the accounts above.
AInv ==
  /\ IInv
  /\ phase = "run" => Accounts
  /\ phase = "closed" => Emptied
  /\ phase \in {"run", "closed"}

\* Nothing is mapped and nothing is cached to start with.
LEMMA AccountsInit ==
  ASSUME Init
  PROVE  AInv
<1>1. IInv /\ phase = "run" /\ HInv
  BY InitHolds DEF Init, IInv
<1>2. /\ map_list = <<>> /\ map_count = 0 /\ privs = {} /\ scanout_priv = None /\ operands = {}
      /\ bo_list = <<>> /\ bo_count = 0 /\ bo_size = 0 /\ mapped = [x \in Priv |-> None]
  BY DEF Init
<1>3. Listing
  <2>1. Members(map_list) = {} /\ Once(map_list) /\ Mapped = {} /\ Len(map_list) = 0
    BY <1>2 DEF Members, Once, Mapped
  <2> QED  BY <1>2, <2>1, NumbersAssumption DEF Listing
<1>4. CacheAccounted
  <2>1. bo_list \in Seq(Entry) /\ Len(bo_list) = 0 /\ size \in [Bo -> Nat]
    BY <1>1, <1>2 DEF HInv, Typed
  <2>2. Total(bo_list) = 0
    BY <2>1, TotalNow, TotalType
  <2> QED  BY <1>2, <2>1, <2>2, NumbersAssumption DEF CacheAccounted
<1>5. ScanoutRemembered
  <2>1. \A p \in Pixmaps : pix[p].priv = None \/ mapped[pix[p].priv] = None
    BY <1>1, <1>2, PixmapFields DEF HInv
  <2> QED  BY <1>2, <2>1 DEF ScanoutRemembered, Scans, HasMapping
<1>6. OperandsUsed
  BY <1>2, FS_EmptySet DEF OperandsUsed
<1> QED  BY <1>1, <1>3, <1>4, <1>5, <1>6 DEF AInv, Accounts

\* Every operation on an open screen that leaves it open keeps the accounts.
LEMMA OperationAccounts ==
  ASSUME Tame, HInv, Accounts, HInv', Operation
  PROVE  Accounts'
<1>1. CASE \E p \in Pix : MapHit(p)
  BY <1>1, MapHitAccounts
<1>2. CASE \E p \in Pix : MapFails(p)
  BY <1>2, MapFailsAccounts
<1>3. CASE \E p \in Pix : \E x \in Priv : MapMiss(p, x)
  BY <1>3, MapMissAccounts
<1>4. CASE Done
  BY <1>4, NothingAccounts DEF Done
<1> QED  BY <1>1, <1>2, <1>3, <1>4 DEF Operation

\* So do those on pixmaps,
LEMMA PixmapAccounts ==
  ASSUME Tame, HInv, Accounts, HInv', Pixmap
  PROVE  Accounts'
<1>1. PICK p \in Pix, n \in PageCount :
        \/ CreateCached(p, n)
        \/ \E b \in Bo : CreateNew(p, n, b, "wc") \/ CreateNew(p, n, b, "scanout") \/ Grow(p, n, b)
        \/ DestroyToCache(p)
        \/ DestroyAndFree(p)
  BY DEF Pixmap
<1>2. CASE CreateCached(p, n)
  BY <1>2, CreateCachedAccounts
<1>3. ASSUME NEW b \in Bo, CreateNew(p, n, b, "wc") \/ CreateNew(p, n, b, "scanout")
      PROVE  Accounts'
  BY <1>3, CreateNewAccounts
<1>4. ASSUME NEW b \in Bo, Grow(p, n, b)
      PROVE  Accounts'
  BY <1>4, GrowAccounts
<1>5. CASE DestroyToCache(p)
  BY <1>5, DestroyToCacheAccounts
<1>6. CASE DestroyAndFree(p)
  BY <1>6, DestroyAndFreeAccounts
<1> QED  BY <1>1, <1>2, <1>3, <1>4, <1>5, <1>6

\* and those on the screen pixmap.
LEMMA ScreenAccounts ==
  ASSUME Tame, HInv, Accounts, HInv', Screen, ~Close
  PROVE  Accounts'
<1>1. CASE \E p \in Pix : Exchange(p)
  BY <1>1, ExchangeAccounts
<1>2. ASSUME NEW n \in PageCount, NEW b \in Bo, ReplaceFront(n, b)
      PROVE  Accounts'
  BY <1>2, ReplaceFrontAccounts
<1>3. ASSUME NEW n \in PageCount, NEW b \in Bo, Resize(n, b)
      PROVE  Accounts'
  BY <1>3, ResizeAccounts
<1>4. CASE Rewrap
  BY <1>4, RewrapAccounts
<1> QED  BY <1>1, <1>2, <1>3, <1>4 DEF Screen

\* Once the screen is closed nothing changes; only Close closes it.
LEMMA PhaseSteps ==
  ASSUME Next
  PROVE  /\ phase = "closed" /\ operands = {} => UNCHANGED vars
         /\ phase' = phase \/ Close
<1>1. CASE Operation
  <2>1. operands # {} \/ phase = "run"
    BY <1>1 DEF Operation, MapHit, MapFails, MapMiss, MayMap, Done
  <2>2. phase' = phase
    BY <1>1 DEF Operation, MapHit, MapFails, MapMiss, Done
  <2>3. ~(phase = "closed" /\ operands = {})
    BY <2>1
  <2> QED  BY <2>2, <2>3
<1>2. CASE Pixmap
  <2>1. PICK p \in Pix, n \in PageCount :
          \/ CreateCached(p, n)
          \/ \E b \in Bo : CreateNew(p, n, b, "wc") \/ CreateNew(p, n, b, "scanout") \/ Grow(p, n, b)
          \/ DestroyToCache(p)
          \/ DestroyAndFree(p)
    BY <1>2 DEF Pixmap
  <2>2. phase = "run"
    BY <2>1 DEF CreateCached, CreateNew, Grow, DestroyToCache, DestroyAndFree, Idle
  <2>3. phase' = phase
    BY <2>1 DEF CreateCached, CreateNew, Grow, DestroyToCache, DestroyAndFree
  <2> QED  BY <2>2, <2>3
<1>3. CASE Screen
  <2>1. phase = "run"
    BY <1>3 DEF Screen, Exchange, ReplaceFront, Resize, Rewrap, Close, Idle
  <2>2. phase' = phase \/ Close
    BY <1>3 DEF Screen, Exchange, ReplaceFront, Resize, Rewrap
  <2> QED  BY <2>1, <2>2
<1>4. CASE Stopped
  <2>1. UNCHANGED vars
    BY <1>4 DEF Stopped
  <2> QED  BY <2>1 DEF vars
<1> QED  BY <1>1, <1>2, <1>3, <1>4 DEF Next

\* A step in which nothing changes.
LEMMA StutterAccounts ==
  ASSUME AInv, UNCHANGED vars
  PROVE  AInv'
<1>1. UNCHANGED <<pix, size, mapVars, cacheVars, scanout, operands, phase>>
  BY DEF vars
<1>2. UNCHANGED <<pix, size, mapped, privs, bo_list, scanout>> /\ phase' = phase
  BY <1>1 DEF mapVars, cacheVars
<1>3. CASE phase = "run"
  <2>1. HInv /\ Accounts
    BY <1>3 DEF AInv, IInv
  <2>2. HInv' /\ Accounts'
    BY <1>1, <1>2, <2>1, NothingHappens, NothingAccounts
  <2> QED  BY <1>2, <1>3, <2>2 DEF AInv, IInv
<1>4. CASE phase = "closed"
  <2>1. Emptied
    BY <1>4 DEF AInv
  <2>2. TypeOK' /\ operands' = {}
    BY <1>1, <2>1 DEF Emptied, TypeOK, mapVars, cacheVars
  <2>3. MapsListed'
    BY <1>1, <2>1 DEF Emptied, MapsListed, mapVars
  <2>4. Holders' = Holders /\ \A h : Held(h)' = Held(h)
    BY <1>1 DEF Holders, Held, Pixmaps, cacheVars
  <2>5. ScanoutTracked'
    BY <1>1, <2>1, <2>4 DEF Emptied, ScanoutTracked, mapVars
  <2>6. CacheAccounted'
    BY <1>1, <2>1 DEF Emptied, CacheAccounted, Total, cacheVars
  <2> QED  BY <1>2, <1>4, <2>2, <2>3, <2>5, <2>6 DEF AInv, IInv, Emptied
<1> QED  BY <1>3, <1>4 DEF AInv

\* Every step keeps it.
LEMMA AccountsNext ==
  ASSUME Tame, AInv, [Next]_vars
  PROVE  AInv'
<1>1. CASE UNCHANGED vars
  BY <1>1, StutterAccounts
<1>2. CASE Next /\ phase = "closed"
  <2>1. UNCHANGED vars
    BY <1>2, PhaseSteps DEF AInv, Emptied
  <2> QED  BY <2>1, StutterAccounts
<1>3. CASE Next /\ phase = "run"
  <2>1. HInv /\ Accounts /\ IInv'
    BY <1>3, NextKeeps DEF AInv, IInv
  <2>2. CASE Close
    <3>1. Emptied' /\ phase' = "closed"
      BY <2>1, <2>2, CloseEmpties DEF Close
    <3> QED  BY <2>1, <3>1 DEF AInv
  <2>3. CASE ~Close
    <3>1. phase' = "run" /\ HInv'
      BY <1>3, <2>1, <2>3, PhaseSteps DEF IInv
    <3>2. Accounts'
      BY <1>1, <1>3, <2>1, <2>3, <3>1, OperationAccounts, PixmapAccounts, ScreenAccounts
         DEF Next, Stopped
    <3> QED  BY <2>1, <3>1, <3>2 DEF AInv
  <2> QED  BY <2>2, <2>3
<1> QED  BY <1>1, <1>2, <1>3 DEF AInv

\* While the server does what the driver was written for, the lists and the
\* counters are about what is mapped and what is cached.
THEOREM AccountsInvariant ==
  ASSUME Tame
  PROVE  Spec => []AInv
<1>1. Init => AInv
  BY AccountsInit
<1>2. AInv /\ [Next]_vars => AInv'
  BY AccountsNext
<1> QED  BY <1>1, <1>2, PTL DEF Spec

-----------------------------------------------------------------------------
(* What follows from it. *)

\* The types, and the counters that are natural numbers.
LEMMA ImpliesTypeOK ==
  ASSUME AInv
  PROVE  TypeOK
<1>1. CASE phase = "run"
  <2>1. HInv /\ Accounts
    BY <1>1 DEF AInv, IInv
  <2>2. map_count \in Nat /\ map_list \in Seq(Priv) /\ scanout_priv \in Priv \cup {None}
    BY <2>1 DEF Accounts, Listing
  <2>3. bo_count \in Nat /\ bo_size \in Nat
    BY <2>1, TotalNow, TotalType DEF Accounts, CacheAccounted, HInv, Typed
  <2>4. operands \in SUBSET Pix
    BY <2>1 DEF Accounts, OperandsUsed, Pixmaps
  <2> QED  BY <1>1, <2>1, <2>2, <2>3, <2>4 DEF TypeOK, HInv, Typed
<1>2. CASE phase = "closed"
  BY <1>2 DEF AInv, Emptied
<1> QED  BY <1>1, <1>2 DEF AInv

\* The list of mappings.
LEMMA ImpliesMapsListed ==
  ASSUME AInv
  PROVE  MapsListed
<1>1. CASE phase = "run"
  BY <1>1 DEF AInv, Accounts, Listing, MapsListed, Members, Once, Mapped
<1>2. CASE phase = "closed"
  BY <1>2 DEF AInv, Emptied
<1> QED  BY <1>1, <1>2 DEF AInv

\* The record of scanout, which no pixmap shares with another or with the cache.
LEMMA ImpliesScanoutTracked ==
  ASSUME AInv
  PROVE  ScanoutTracked
<1>1. CASE phase = "run"
  <2>1. HInv /\ Accounts
    BY <1>1 DEF AInv, IInv
  <2>2. ASSUME NEW h \in Holders, Held(h).priv # None
        PROVE  Held(h).priv = scanout_priv <=> Held(h).bo = scanout /\ mapped[Held(h).priv] # None
    <3>1. CASE \E p \in Pixmaps : h = <<"pixmap", p>> /\ Held(h) = pix[p]
      <4>1. PICK p \in Pixmaps : Held(h) = pix[p]
        BY <3>1
      <4>2. pix[p].priv # None
        BY <2>2, <4>1
      <4>3. HasMapping(p) <=> mapped[pix[p].priv] # None
        BY <4>2 DEF HasMapping
      <4>4. pix[p].bo = scanout /\ HasMapping(p) => pix[p].priv = scanout_priv
        BY <2>1, OperandFacts
      <4>5. pix[p].bo # scanout => pix[p].priv # scanout_priv
        BY <2>1, <4>2, OperandFacts
      <4>6. pix[p].bo = scanout /\ ~HasMapping(p) => scanout_priv = None
        BY <2>1, OperandFacts
      <4> QED  BY <4>1, <4>2, <4>3, <4>4, <4>5, <4>6
    <3>2. CASE \E i \in 1 .. Len(bo_list) : h = <<"cache", i>> /\ Held(h) = bo_list[i]
      <4>1. PICK i \in 1 .. Len(bo_list) : Held(h) = bo_list[i]
        BY <3>2
      <4>2. bo_list[i].bo \in BosOf(bo_list) /\ bo_list[i].priv \in PrivsOf(bo_list)
        BY <2>2, <4>1 DEF BosOf, PrivsOf
      <4>3. bo_list[i].bo # scanout
        BY <2>1, <4>2 DEF HInv, CacheApart
      <4>4. scanout_priv # bo_list[i].priv
        <5>1. scanout_priv # None => \E q \in Pixmaps : pix[q].priv = scanout_priv
          BY <2>1 DEF Accounts, ScanoutRemembered
        <5>2. \A q \in Pixmaps : pix[q].priv # bo_list[i].priv
          BY <2>1, <4>2 DEF HInv, CacheApart
        <5> QED  BY <2>2, <4>1, <5>1, <5>2
      <4> QED  BY <4>1, <4>3, <4>4
    <3> QED  BY <3>1, <3>2, HolderCases
  <2> QED  BY <2>2 DEF ScanoutTracked
<1>2. CASE phase = "closed"
  BY <1>2 DEF AInv, Emptied
<1> QED  BY <1>1, <1>2 DEF AInv

\* The cache, and the operands of a GPU operation.
LEMMA ImpliesCacheAndOperands ==
  ASSUME AInv
  PROVE  CacheAccounted /\ OperandsMapped
<1>1. CASE phase = "run"
  BY <1>1 DEF AInv, Accounts, OperandsUsed, OperandsMapped
<1>2. CASE phase = "closed"
  BY <1>2 DEF AInv, Emptied, OperandsMapped
<1> QED  BY <1>1, <1>2 DEF AInv

\* The unsigned counters map_count, bo_count and bo_size of pPVR never wrap below
\* zero, whatever is mapped, cached, evicted and freed (sgxMapRemove,
\* sgxBoCacheRemove).
THEOREM CountersNeverWrap ==
  ASSUME Tame
  PROVE  Spec => []TypeOK
<1>1. AInv => TypeOK
  BY ImpliesTypeOK
<1> QED  BY <1>1, AccountsInvariant, PTL

\* map_list holds every mapped record but the scanout's, once, map_count is its
\* length, and sgxMapUnmapLRU keeps it within one of PVR_MAX_BO_MAPS.
THEOREM MappingsAlwaysListed ==
  ASSUME Tame
  PROVE  Spec => []MapsListed
<1>1. AInv => MapsListed
  BY ImpliesMapsListed
<1> QED  BY <1>1, AccountsInvariant, PTL

\* scanout_priv is the record of the scanout buffer's mapping, and of no other,
\* whatever exchanges and resizes the buffer goes through.
THEOREM ScanoutAlwaysTracked ==
  ASSUME Tame
  PROVE  Spec => []ScanoutTracked
<1>1. AInv => ScanoutTracked
  BY ImpliesScanoutTracked
<1> QED  BY <1>1, AccountsInvariant, PTL

\* bo_count and bo_size are the length and the pages of the cache of freed
\* buffers, which sgxBoCachePut keeps within PVR_BO_CACHE_SIZE.
THEOREM CacheAlwaysAccounted ==
  ASSUME Tame
  PROVE  Spec => []CacheAccounted
<1>1. AInv => CacheAccounted
  BY ImpliesCacheAndOperands
<1> QED  BY <1>1, AccountsInvariant, PTL

\* sgxMapUnmapLRU, called to map the second pixmap of a copy, never takes the
\* mapping of the first.
THEOREM OperandsStayMapped ==
  ASSUME Tame
  PROVE  Spec => []OperandsMapped
<1>1. AInv => OperandsMapped
  BY ImpliesCacheAndOperands
<1> QED  BY <1>1, AccountsInvariant, PTL

=============================================================================
