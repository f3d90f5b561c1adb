-------------------------- MODULE PvrBuffersProofs --------------------------
(***************************************************************************)
(* Proofs about PvrBuffers: no buffer is deleted while something refers to *)
(* it, none is leaked or owned twice, each record of a mapping has one     *)
(* owner, and a mapping is of the buffer it travels with; for any pixmaps, *)
(* buffers, records, sizes and limits.  The cases in which the code goes   *)
(* wrong, MayResizeFlipped and MayFlipPlain, are excluded.                 *)
(***************************************************************************)
EXTENDS PvrBuffers, FiniteSetTheorems, SequenceTheorems, TLAPS

EntriesOf(s) == {s[i] : i \in 1 .. Len(s)}

\* No buffer and no record occurs twice in s.
Distinct(s) ==
  \A i, j \in 1 .. Len(s) :
    /\ s[i].bo = s[j].bo => i = j
    /\ s[i].priv = s[j].priv /\ s[i].priv # None => i = j

-----------------------------------------------------------------------------
(* Lists of cache entries. *)

\* The loop of sgxBoCachePut takes some number of entries from the front.
LEMMA EvictionsType ==
  ASSUME NEW entries \in Seq(Entry), NEW pages
  PROVE  Evictions(entries, pages) \in 0 .. Len(entries)
<1> DEFINE T == {k \in 1 .. Len(entries) :
                   \A j \in 0 .. (k - 1) : pages - Total(SubSeq(entries, 1, j)) > CacheSize}
<1>1. Len(entries) \in Nat  OBVIOUS
<1>2. IsFiniteSet(1 .. Len(entries)) /\ Cardinality(1 .. Len(entries)) = Len(entries)
  BY <1>1, FS_Interval
<1>3. T \in SUBSET (1 .. Len(entries))  OBVIOUS
<1> HIDE DEF T
<1>4. Cardinality(T) \in Nat /\ Cardinality(T) <= Len(entries)
  BY <1>2, <1>3, FS_Subset, FS_CardinalityType
<1> QED  BY <1>1, <1>4 DEF Evictions, T

\* What the entries of a list hold.
LEMMA EntryFields ==
  ASSUME NEW s \in Seq(Entry), NEW e \in EntriesOf(s)
  PROVE  e \in Entry /\ e.bo \in BosOf(s) /\ (e.priv # None => e.priv \in PrivsOf(s))
BY DEF EntriesOf, BosOf, PrivsOf

\* And conversely.
LEMMA HeldByEntry ==
  ASSUME NEW s \in Seq(Entry)
  PROVE  /\ \A b : b \in BosOf(s) <=> \E e \in EntriesOf(s) : e.bo = b
         /\ \A x : x \in PrivsOf(s) <=> x # None /\ \E e \in EntriesOf(s) : e.priv = x
         /\ BosOf(s) \subseteq Bo /\ PrivsOf(s) \subseteq Priv
<1>1. \A i \in 1 .. Len(s) : s[i] \in Entry  OBVIOUS
<1>2. \A b : b \in BosOf(s) <=> \E e \in EntriesOf(s) : e.bo = b
  BY Zenon DEF EntriesOf, BosOf
<1>3. \A x : x \in PrivsOf(s) <=> x # None /\ \E e \in EntriesOf(s) : e.priv = x
  BY Zenon DEF EntriesOf, PrivsOf
<1>4. BosOf(s) \subseteq Bo /\ PrivsOf(s) \subseteq Priv
  BY <1>1 DEF BosOf, PrivsOf, Entry
<1> QED  BY <1>2, <1>3, <1>4

\* The front of a list up to m, and the rest.
LEMMA SubSeqPart ==
  ASSUME NEW s \in Seq(Entry), NEW m \in 0 .. Len(s)
  PROVE  /\ SubSeq(s, 1, m) \in Seq(Entry) /\ Len(SubSeq(s, 1, m)) = m
         /\ \A i \in 1 .. m : SubSeq(s, 1, m)[i] = s[i]
         /\ SubSeq(s, m + 1, Len(s)) \in Seq(Entry)
         /\ Len(SubSeq(s, m + 1, Len(s))) = Len(s) - m
         /\ \A i \in 1 .. Len(s) - m : SubSeq(s, m + 1, Len(s))[i] = s[m + i]
<1>1. Len(s) \in Nat /\ m \in Nat /\ m <= Len(s)  OBVIOUS
<1>2. /\ SubSeq(s, 1, m) \in Seq(Entry)
      /\ Len(SubSeq(s, 1, m)) = IF 1 <= m THEN m - 1 + 1 ELSE 0
      /\ \A i \in 1 .. m - 1 + 1 : SubSeq(s, 1, m)[i] = s[1 + i - 1]
  BY <1>1, SubSeqProperties
<1>3. /\ SubSeq(s, m + 1, Len(s)) \in Seq(Entry)
      /\ Len(SubSeq(s, m + 1, Len(s))) = IF m + 1 <= Len(s) THEN Len(s) - (m + 1) + 1 ELSE 0
      /\ \A i \in 1 .. Len(s) - (m + 1) + 1 : SubSeq(s, m + 1, Len(s))[i] = s[(m + 1) + i - 1]
  BY <1>1, SubSeqProperties
<1> QED  BY <1>1, <1>2, <1>3

\* A list is cut into what is evicted and what is kept, which share nothing.
LEMMA CutEntries ==
  ASSUME NEW s \in Seq(Entry), Distinct(s), NEW n \in 0 .. Len(s)
  PROVE  LET a == SubSeq(s, 1, n)
             b == SubSeq(s, n + 1, Len(s))
         IN  /\ a \in Seq(Entry) /\ b \in Seq(Entry) /\ Len(a) = n
             /\ EntriesOf(s) = EntriesOf(a) \cup EntriesOf(b)
             /\ BosOf(s) = BosOf(a) \cup BosOf(b)
             /\ PrivsOf(s) = PrivsOf(a) \cup PrivsOf(b)
             /\ Distinct(b)
             /\ BosOf(a) \cap BosOf(b) = {}
             /\ PrivsOf(a) \cap PrivsOf(b) = {}
<1> DEFINE a == SubSeq(s, 1, n)
           b == SubSeq(s, n + 1, Len(s))
<1>1. /\ a \in Seq(Entry) /\ Len(a) = n
      /\ \A i \in 1 .. n : a[i] = s[i]
  BY SubSeqPart
<1>2. /\ b \in Seq(Entry) /\ Len(b) = Len(s) - n
      /\ \A i \in 1 .. Len(s) - n : b[i] = s[n + i]
  BY SubSeqPart
<1> HIDE DEF a, b
<1>3. EntriesOf(s) = EntriesOf(a) \cup EntriesOf(b)
  <2>1. ASSUME NEW i \in 1 .. Len(s) PROVE s[i] \in EntriesOf(a) \cup EntriesOf(b)
    <3>1. CASE i <= n  BY <1>1, <3>1 DEF EntriesOf
    <3>2. CASE i > n
      <4>1. i - n \in 1 .. Len(b) /\ b[i - n] = s[i]  BY <1>2, <3>2
      <4> QED  BY <4>1 DEF EntriesOf
    <3> QED  BY <3>1, <3>2
  <2>2. \A e \in EntriesOf(a) : e \in EntriesOf(s)  BY <1>1 DEF EntriesOf
  <2>3. ASSUME NEW i \in 1 .. Len(b) PROVE b[i] \in EntriesOf(s)
    <3>1. n + i \in 1 .. Len(s) /\ b[i] = s[n + i]  BY <1>2
    <3> QED  BY <3>1 DEF EntriesOf
  <2>4. \A e \in EntriesOf(b) : e \in EntriesOf(s)  BY <2>3 DEF EntriesOf
  <2>5. \A e \in EntriesOf(s) : e \in EntriesOf(a) \cup EntriesOf(b)  BY <2>1 DEF EntriesOf
  <2> QED  BY <2>2, <2>4, <2>5
<1>4. Distinct(b)
  <2> SUFFICES ASSUME NEW i \in 1 .. Len(b), NEW j \in 1 .. Len(b)
               PROVE  /\ b[i].bo = b[j].bo => i = j
                      /\ b[i].priv = b[j].priv /\ b[i].priv # None => i = j
    BY DEF Distinct
  <2>1. n + i \in 1 .. Len(s) /\ n + j \in 1 .. Len(s)  BY <1>2
  <2>2. b[i] = s[n + i] /\ b[j] = s[n + j]  BY <1>2
  <2>3. n + i = n + j => i = j  OBVIOUS
  <2> HIDE DEF Distinct
  <2>4. \A k, l \in 1 .. Len(s) :
          /\ s[k].bo = s[l].bo => k = l
          /\ s[k].priv = s[l].priv /\ s[k].priv # None => k = l
    BY DEF Distinct
  <2> QED  BY <2>1, <2>2, <2>3, <2>4
<1>5. ASSUME NEW i \in 1 .. Len(a), NEW j \in 1 .. Len(b)
      PROVE  a[i].bo # b[j].bo /\ (a[i].priv = b[j].priv => a[i].priv = None)
  <2>1. i \in 1 .. Len(s) /\ n + j \in 1 .. Len(s) /\ i # n + j  BY <1>1, <1>2
  <2>2. a[i] = s[i] /\ b[j] = s[n + j]  BY <1>1, <1>2
  <2> QED  BY <2>1, <2>2 DEF Distinct
<1>6. BosOf(a) \cap BosOf(b) = {} /\ PrivsOf(a) \cap PrivsOf(b) = {}
  BY <1>5 DEF BosOf, PrivsOf
<1>7. BosOf(s) = BosOf(a) \cup BosOf(b) /\ PrivsOf(s) = PrivsOf(a) \cup PrivsOf(b)
  BY <1>1, <1>2, <1>3, HeldByEntry
<1> QED  BY <1>1, <1>2, <1>3, <1>4, <1>6, <1>7 DEF a, b

\* Taking an entry out takes out its buffer and its record.
LEMMA WithoutEntry ==
  ASSUME NEW s \in Seq(Entry), Distinct(s), NEW i \in 1 .. Len(s)
  PROVE  LET t == Without(s, i)
         IN  /\ t \in Seq(Entry) /\ Distinct(t)
             /\ EntriesOf(t) = EntriesOf(s) \ {s[i]}
             /\ BosOf(t) = BosOf(s) \ {s[i].bo}
             /\ PrivsOf(t) = PrivsOf(s) \ {s[i].priv}
<1> DEFINE a == SubSeq(s, 1, i - 1)
           b == SubSeq(s, i + 1, Len(s))
           t == a \o b
<1>1. /\ a \in Seq(Entry) /\ Len(a) = i - 1
      /\ \A j \in 1 .. i - 1 : a[j] = s[j]
  BY SubSeqPart
<1>2. /\ b \in Seq(Entry) /\ Len(b) = Len(s) - i
      /\ \A j \in 1 .. Len(s) - i : b[j] = s[i + j]
  BY SubSeqPart
<1> HIDE DEF a, b
<1>3. /\ t \in Seq(Entry) /\ Len(t) = Len(s) - 1
      /\ \A j \in 1 .. Len(s) - 1 : t[j] = IF j < i THEN s[j] ELSE s[j + 1]
  <2>1. /\ t \in Seq(Entry) /\ Len(t) = Len(a) + Len(b)
        /\ \A j \in 1 .. Len(a) + Len(b) : t[j] = IF j <= Len(a) THEN a[j] ELSE b[j - Len(a)]
    <3>1. a \in Seq(Entry) /\ b \in Seq(Entry)  BY <1>1, <1>2
    <3> QED  BY <3>1, ConcatProperties
  <2>2. ASSUME NEW j \in 1 .. Len(s) - 1 PROVE t[j] = IF j < i THEN s[j] ELSE s[j + 1]
    <3>1. j \in 1 .. Len(a) + Len(b)  BY <1>1, <1>2
    <3>2. t[j] = IF j <= Len(a) THEN a[j] ELSE b[j - Len(a)]  BY <2>1, <3>1
    <3>3. CASE j < i  BY <1>1, <3>2, <3>3
    <3>4. CASE ~(j < i)
      <4>1. j - Len(a) \in 1 .. Len(s) - i /\ i + (j - Len(a)) = j + 1  BY <1>1, <3>4
      <4>2. ~(j <= Len(a))  BY <1>1, <3>4
      <4>3. b[j - Len(a)] = s[i + (j - Len(a))]  BY <1>2, <4>1
      <4> QED  BY <3>2, <3>4, <4>1, <4>2, <4>3
    <3> QED  BY <3>3, <3>4
  <2> QED  BY <1>1, <1>2, <2>1, <2>2
<1> HIDE DEF t
<1> DEFINE Src(j) == IF j < i THEN j ELSE j + 1
<1>10. \A j \in 1 .. Len(t) : Src(j) \in 1 .. Len(s) /\ Src(j) # i /\ t[j] = s[Src(j)]
  BY <1>3
<1>11. \A j, k \in 1 .. Len(t) : Src(j) = Src(k) => j = k
  BY <1>3
<1> HIDE DEF Src
<1>4. Distinct(t)
  <2> SUFFICES ASSUME NEW j \in 1 .. Len(t), NEW k \in 1 .. Len(t)
               PROVE  /\ t[j].bo = t[k].bo => j = k
                      /\ t[j].priv = t[k].priv /\ t[j].priv # None => j = k
    BY DEF Distinct
  <2>1. Src(j) \in 1 .. Len(s) /\ t[j] = s[Src(j)]  BY <1>10
  <2>2. Src(k) \in 1 .. Len(s) /\ t[k] = s[Src(k)]  BY <1>10
  <2>3. s[Src(j)].bo = s[Src(k)].bo => Src(j) = Src(k)  BY <2>1, <2>2 DEF Distinct
  <2>4. s[Src(j)].priv = s[Src(k)].priv /\ s[Src(j)].priv # None => Src(j) = Src(k)
    BY <2>1, <2>2 DEF Distinct
  <2> QED  BY <1>11, <2>1, <2>2, <2>3, <2>4
<1>5. ASSUME NEW j \in 1 .. Len(s), j # i PROVE s[j] \in EntriesOf(t) /\ s[j] # s[i]
  <2>1. s[j] # s[i]  BY <1>5 DEF Distinct
  <2>2. CASE j < i  BY <1>3, <2>1, <2>2 DEF EntriesOf
  <2>3. CASE j > i
    <3>1. j - 1 \in 1 .. Len(t) /\ t[j - 1] = s[j]  BY <1>3, <2>3
    <3> QED  BY <2>1, <3>1 DEF EntriesOf
  <2> QED  BY <1>5, <2>2, <2>3
<1>7. EntriesOf(t) = EntriesOf(s) \ {s[i]}
  <2>1. ASSUME NEW j \in 1 .. Len(t) PROVE t[j] \in EntriesOf(s) /\ t[j] # s[i]
    <3>1. Src(j) \in 1 .. Len(s) /\ Src(j) # i /\ t[j] = s[Src(j)]  BY <1>10
    <3> QED  BY <3>1, <1>5 DEF EntriesOf
  <2> QED  BY <1>5, <2>1 DEF EntriesOf
<1>6. \A e \in EntriesOf(t) : e.bo # s[i].bo /\ (e.priv = s[i].priv => e.priv = None)
  BY <1>10 DEF EntriesOf, Distinct
<1>12. EntriesOf(s) = EntriesOf(t) \cup {s[i]}
  BY <1>7 DEF EntriesOf
<1>8. BosOf(t) = BosOf(s) \ {s[i].bo}
  BY <1>3, <1>6, <1>12, HeldByEntry
<1>9. PrivsOf(t) = PrivsOf(s) \ {s[i].priv}
  BY <1>3, <1>6, <1>12, HeldByEntry
<1> QED  BY <1>3, <1>4, <1>7, <1>8, <1>9 DEF Without, t, a, b

\* An entry that shares nothing with the list may be appended.
LEMMA AppendEntry ==
  ASSUME NEW s \in Seq(Entry), Distinct(s), NEW e \in Entry,
         e.bo \notin BosOf(s), e.priv \notin PrivsOf(s)
  PROVE  LET t == Append(s, e)
         IN  /\ t \in Seq(Entry) /\ Distinct(t)
             /\ EntriesOf(t) = EntriesOf(s) \cup {e}
             /\ BosOf(t) = BosOf(s) \cup {e.bo}
             /\ PrivsOf(t) = PrivsOf(s) \cup ({e.priv} \ {None})
<1> DEFINE t == Append(s, e)
<1>1. /\ t \in Seq(Entry) /\ Len(t) = Len(s) + 1 /\ t[Len(s) + 1] = e
      /\ \A i \in 1 .. Len(s) : t[i] = s[i]
  OBVIOUS
<1> HIDE DEF t
<1>2. \A i \in 1 .. Len(s) : s[i].bo # e.bo /\ (s[i].priv = e.priv => e.priv = None)
  BY DEF BosOf, PrivsOf
<1>3. Distinct(t)
  <2> SUFFICES ASSUME NEW i \in 1 .. Len(t), NEW j \in 1 .. Len(t)
               PROVE  /\ t[i].bo = t[j].bo => i = j
                      /\ t[i].priv = t[j].priv /\ t[i].priv # None => i = j
    BY DEF Distinct
  <2>1. i \in 1 .. Len(s) \/ i = Len(s) + 1  BY <1>1
  <2>2. j \in 1 .. Len(s) \/ j = Len(s) + 1  BY <1>1
  <2> QED  BY <1>1, <1>2, <2>1, <2>2 DEF Distinct
<1>4. EntriesOf(t) = EntriesOf(s) \cup {e}
  <2>1. \A i \in 1 .. Len(t) : i \in 1 .. Len(s) \/ i = Len(s) + 1  BY <1>1
  <2> QED  BY <1>1, <2>1 DEF EntriesOf
<1>5. BosOf(t) = BosOf(s) \cup {e.bo}  BY <1>1, <1>4, HeldByEntry
<1>6. PrivsOf(t) = PrivsOf(s) \cup ({e.priv} \ {None})  BY <1>1, <1>4, HeldByEntry
<1> QED  BY <1>1, <1>3, <1>4, <1>5, <1>6 DEF t

-----------------------------------------------------------------------------
(* The invariant: who holds what. *)

\* The server does what the driver was written for: RandR resizes a screen that
\* has not been flipped, and only buffers capable of scanout are flipped to.
Tame == ~MayResizeFlipped /\ ~MayFlipPlain

Typed ==
  /\ pix \in [Pix -> PixRec \cup {None}]
  /\ size \in [Bo -> Nat]
  /\ mapped \in [Priv -> Bo \cup {None}]
  /\ privs \in SUBSET Priv
  /\ bo_list \in Seq(Entry)
  /\ scanout \in Bo

\* Every pixmap has a buffer; that of scanout is never one the cache may take.
PixmapsBacked ==
  /\ Root \in Pixmaps /\ pix[Root].flags # "wc"
  /\ \A p \in Pixmaps : pix[p].bo \in Bo /\ (pix[p].flags = "wc" => pix[p].bo # scanout)

\* No two pixmaps share a buffer or a record.
PixmapsApart ==
  \A p, q \in Pixmaps : p # q =>
    pix[p].bo # pix[q].bo /\ (pix[p].priv = pix[q].priv => pix[p].priv = None)

\* Nor do two entries of the cache, or a pixmap and an entry.
CacheApart ==
  /\ Distinct(bo_list)
  /\ scanout \notin BosOf(bo_list)
  /\ \A p \in Pixmaps : pix[p].bo \notin BosOf(bo_list) /\ pix[p].priv \notin PrivsOf(bo_list)

\* A buffer exists exactly as long as something refers to it,
BosAlive ==
  \A b \in Bo :
    size[b] > 0 <=> b = scanout \/ b \in BosOf(bo_list) \/ \E p \in Pixmaps : pix[p].bo = b

\* and so does a record.
PrivsAlive ==
  \A x \in Priv : x \in privs <=> x \in PrivsOf(bo_list) \/ \E p \in Pixmaps : pix[p].priv = x

\* The record that travels with a buffer maps that buffer or nothing.
MapsCurrent ==
  /\ \A p \in Pixmaps : pix[p].priv # None => mapped[pix[p].priv] \in {None, pix[p].bo}
  /\ \A e \in EntriesOf(bo_list) : e.priv # None => mapped[e.priv] \in {None, e.bo}

HInv == Typed /\ PixmapsBacked /\ PixmapsApart /\ CacheApart /\ BosAlive /\ PrivsAlive /\ MapsCurrent

IInv == phase = "run" => HInv

-----------------------------------------------------------------------------
(* One pixmap changes. *)

\* The fields of a pixmap.
LEMMA PixmapFields ==
  ASSUME Typed, NEW p \in Pixmaps
  PROVE  /\ p \in Pix /\ pix[p] \in PixRec
         /\ pix[p].priv \in Priv \cup {None}
         /\ pix[p].flags \in {"none", "wc", "scanout"}
  BY NoneAssumption DEF Typed, Pixmaps, PixRec

\* The others stay as they are.
LEMMA OneChanged ==
  ASSUME Typed, NEW p \in Pix, NEW r \in PixRec \cup {None}, pix' = [pix EXCEPT ![p] = r]
  PROVE  /\ pix' \in [Pix -> PixRec \cup {None}]
         /\ pix'[p] = r /\ \A q \in Pix \ {p} : pix'[q] = pix[q]
         /\ Pixmaps' = IF r = None THEN Pixmaps \ {p} ELSE Pixmaps \cup {p}
<1>1. /\ pix' \in [Pix -> PixRec \cup {None}]
      /\ pix'[p] = r /\ \A q \in Pix \ {p} : pix'[q] = pix[q]
  BY DEF Typed
<1> QED  BY <1>1 DEF Pixmaps

\* A pixmap gets or loses its record.
LEMMA PrivChanged ==
  ASSUME Typed, NEW p \in Pixmaps, NEW x \in Priv \cup {None}, pix' = [pix EXCEPT ![p].priv = x]
  PROVE  /\ pix' \in [Pix -> PixRec \cup {None}]
         /\ Pixmaps' = Pixmaps
         /\ \A q \in Pixmaps : /\ pix'[q].bo = pix[q].bo /\ pix'[q].flags = pix[q].flags
                               /\ pix'[q].priv = IF q = p THEN x ELSE pix[q].priv
<1> DEFINE r == [pix[p] EXCEPT !.priv = x]
<1>1. p \in Pix /\ pix[p] \in PixRec
  BY PixmapFields
<1>2. r \in PixRec /\ r.bo = pix[p].bo /\ r.priv = x /\ r.flags = pix[p].flags
  BY <1>1 DEF PixRec
<1>3. pix' = [pix EXCEPT ![p] = r]
  OBVIOUS
<1> HIDE DEF r
<1>4. r # None /\ r \in PixRec \cup {None}
  BY <1>2, NoneAssumption
<1>5. /\ pix' \in [Pix -> PixRec \cup {None}]
      /\ pix'[p] = r /\ \A q \in Pix \ {p} : pix'[q] = pix[q]
      /\ Pixmaps' = IF r = None THEN Pixmaps \ {p} ELSE Pixmaps \cup {p}
  BY <1>1, <1>3, <1>4, OneChanged
<1> QED  BY <1>1, <1>2, <1>4, <1>5 DEF Pixmaps

\* What is said of the cache is said of its list alone.
LEMMA CacheOf ==
  ASSUME NEW s, bo_list' = s
  PROVE  /\ BosOf(bo_list)' = BosOf(s) /\ PrivsOf(bo_list)' = PrivsOf(s)
         /\ EntriesOf(bo_list)' = EntriesOf(s) /\ Distinct(bo_list)' = Distinct(s)
  BY DEF BosOf, PrivsOf, EntriesOf, Distinct

\* A cached record is one of the cache's.
LEMMA CachedRecord ==
  ASSUME Typed, NEW e \in EntriesOf(bo_list), e.priv # None
  PROVE  e.priv \in PrivsOf(bo_list) /\ e.priv \in Priv
  BY EntryFields DEF Typed, Entry

-----------------------------------------------------------------------------
(* Every operation keeps the invariant: the GPU operations. *)

\* The invariant is about six of the variables.
LEMMA NothingHappens ==
  ASSUME HInv, UNCHANGED <<pix, size, mapped, privs, bo_list, scanout>>
  PROVE  HInv'
<1>1. Pixmaps' = Pixmaps
  BY DEF Pixmaps
<1>2. /\ BosOf(bo_list)' = BosOf(bo_list) /\ PrivsOf(bo_list)' = PrivsOf(bo_list)
      /\ EntriesOf(bo_list)' = EntriesOf(bo_list) /\ Distinct(bo_list)' = Distinct(bo_list)
  BY CacheOf
<1>3. Typed' /\ PixmapsBacked' /\ PixmapsApart'
  BY <1>1 DEF HInv, Typed, PixmapsBacked, PixmapsApart
<1>4. CacheApart'
  BY <1>1, <1>2 DEF HInv, CacheApart
<1>5. BosAlive'
  BY <1>1, <1>2 DEF HInv, BosAlive
<1>6. PrivsAlive'
  BY <1>1, <1>2 DEF HInv, PrivsAlive
<1>7. MapsCurrent'
  BY <1>1, <1>2 DEF HInv, MapsCurrent
<1> QED  BY <1>3, <1>4, <1>5, <1>6, <1>7 DEF HInv

\* A mapping that is there already is only moved in the list.
LEMMA MapHitKeeps ==
  ASSUME HInv, NEW p \in Pix, MapHit(p)
  PROVE  HInv'
<1>1. UNCHANGED <<pix, size, mapped, privs, bo_list, scanout>>
  BY DEF MapHit, cacheVars
<1> QED  BY <1>1, NothingHappens

\* The record a pixmap has or gets maps its buffer; the victim is no owner's loss,
\* as its record stays.
LEMMA MapMissKeeps ==
  ASSUME HInv, NEW p \in Pix, NEW x \in Priv, MapMiss(p, x)
  PROVE  HInv'
<1>1. p \in Pixmaps /\ pix[p].bo \in Bo /\ x # None
  BY SetsAssumption DEF HInv, MapMiss, MayMap, PixmapsBacked
<1>2. /\ pix' \in [Pix -> PixRec \cup {None}]
      /\ Pixmaps' = Pixmaps
      /\ \A q \in Pixmaps : /\ pix'[q].bo = pix[q].bo /\ pix'[q].flags = pix[q].flags
                            /\ pix'[q].priv = IF q = p THEN x ELSE pix[q].priv
  <2>1. Typed /\ pix' = [pix EXCEPT ![p].priv = x] /\ x \in Priv \cup {None}
    BY DEF HInv, MapMiss
  <2> QED  BY <1>1, <2>1, PrivChanged
<1>3. /\ UNCHANGED <<size, bo_list, scanout>>
      /\ privs' = privs \cup {x}
      /\ mapped' \in [Priv -> Bo \cup {None}] /\ mapped'[x] = pix[p].bo
      /\ \A y \in Priv \ {x} : mapped'[y] \in {None, mapped[y]}
  BY <1>1 DEF HInv, Typed, MapMiss, cacheVars
<1>4. /\ BosOf(bo_list)' = BosOf(bo_list) /\ PrivsOf(bo_list)' = PrivsOf(bo_list)
      /\ EntriesOf(bo_list)' = EntriesOf(bo_list) /\ Distinct(bo_list)' = Distinct(bo_list)
  BY <1>3, CacheOf
<1>5. x = pix[p].priv \/ (pix[p].priv = None /\ x \notin privs)
  BY DEF MapMiss, Fresh
<1>6. \A q \in Pixmaps \ {p} : pix[q].priv # x
  BY <1>1, <1>5 DEF HInv, PixmapsApart, PrivsAlive
<1>7. x \notin PrivsOf(bo_list)
  BY <1>1, <1>5 DEF HInv, CacheApart, PrivsAlive
<1>8. Typed'
  BY <1>2, <1>3 DEF HInv, Typed
<1>9. PixmapsBacked' /\ PixmapsApart'
  BY <1>2, <1>3, <1>6 DEF HInv, PixmapsBacked, PixmapsApart
<1>10. CacheApart'
  BY <1>2, <1>3, <1>4, <1>7 DEF HInv, CacheApart
<1>11. BosAlive'
  BY <1>2, <1>3, <1>4 DEF HInv, BosAlive
<1>12. PrivsAlive'
  <2>1. \A y \in Priv \ {x} : (\E q \in Pixmaps : pix'[q].priv = y)
                                <=> \E q \in Pixmaps : pix[q].priv = y
    BY <1>2, <1>5, SetsAssumption
  <2>2. \E q \in Pixmaps : pix'[q].priv = x  BY <1>1, <1>2
  <2> QED  BY <1>2, <1>3, <1>4, <2>1, <2>2 DEF HInv, PrivsAlive
<1>13. MapsCurrent'
  <2>1. ASSUME NEW q \in Pixmaps, pix'[q].priv # None
        PROVE  mapped'[pix'[q].priv] \in {None, pix'[q].bo}
    BY <1>1, <1>2, <1>3, <1>6, <2>1, PixmapFields DEF HInv, MapsCurrent
  <2>2. ASSUME NEW e \in EntriesOf(bo_list), e.priv # None
        PROVE  mapped'[e.priv] \in {None, e.bo}
    BY <1>3, <1>7, <2>2, CachedRecord DEF HInv, MapsCurrent
  <2> QED  BY <1>2, <1>4, <2>1, <2>2 DEF MapsCurrent
<1> QED  BY <1>8, <1>9, <1>10, <1>11, <1>12, <1>13 DEF HInv

\* The record that could not be mapped is freed, and its pixmap forgets it.
LEMMA MapFailsKeeps ==
  ASSUME HInv, NEW p \in Pix, MapFails(p)
  PROVE  HInv'
<1>1. p \in Pixmaps
  BY DEF MapFails, MayMap
<1>2. /\ pix' \in [Pix -> PixRec \cup {None}]
      /\ Pixmaps' = Pixmaps
      /\ \A q \in Pixmaps : /\ pix'[q].bo = pix[q].bo /\ pix'[q].flags = pix[q].flags
                            /\ pix'[q].priv = IF q = p THEN None ELSE pix[q].priv
  <2>1. Typed /\ pix' = [pix EXCEPT ![p].priv = None] /\ None \in Priv \cup {None}
    BY DEF HInv, MapFails
  <2> QED  BY <1>1, <2>1, PrivChanged
<1>3. /\ UNCHANGED <<size, bo_list, scanout>>
      /\ privs' = privs \ {pix[p].priv}
      /\ mapped' \in [Priv -> Bo \cup {None}]
      /\ \A y \in Priv : mapped'[y] \in {None, mapped[y]}
  BY DEF HInv, Typed, MapFails, cacheVars
<1>4. /\ BosOf(bo_list)' = BosOf(bo_list) /\ PrivsOf(bo_list)' = PrivsOf(bo_list)
      /\ EntriesOf(bo_list)' = EntriesOf(bo_list) /\ Distinct(bo_list)' = Distinct(bo_list)
  BY <1>3, CacheOf
<1>5. None \notin PrivsOf(bo_list) /\ None \notin Priv
  BY SetsAssumption DEF PrivsOf
<1>6. Typed'
  BY <1>2, <1>3 DEF HInv, Typed
<1>7. PixmapsBacked' /\ PixmapsApart'
  BY <1>2, <1>3 DEF HInv, PixmapsBacked, PixmapsApart
<1>8. CacheApart'
  BY <1>2, <1>3, <1>4, <1>5 DEF HInv, CacheApart
<1>9. BosAlive'
  BY <1>2, <1>3, <1>4 DEF HInv, BosAlive
<1>10. PrivsAlive'
  <2>1. \A y \in Priv : (\E q \in Pixmaps : pix'[q].priv = y)
                          <=> \E q \in Pixmaps \ {p} : pix[q].priv = y
    BY <1>2, <1>5
  <2>2. \A y \in Priv : (\E q \in Pixmaps \ {p} : pix[q].priv = y)
                          <=> (\E q \in Pixmaps : pix[q].priv = y) /\ y # pix[p].priv
    BY <1>1, <1>5 DEF HInv, PixmapsApart
  <2>3. pix[p].priv \notin PrivsOf(bo_list)
    BY <1>1 DEF HInv, CacheApart
  <2> QED  BY <1>2, <1>3, <1>4, <2>1, <2>2, <2>3 DEF HInv, PrivsAlive
<1>11. MapsCurrent'
  <2>1. ASSUME NEW q \in Pixmaps, pix'[q].priv # None
        PROVE  mapped'[pix'[q].priv] \in {None, pix'[q].bo}
    BY <1>2, <1>3, <2>1, PixmapFields DEF HInv, MapsCurrent
  <2>2. ASSUME NEW e \in EntriesOf(bo_list), e.priv # None
        PROVE  mapped'[e.priv] \in {None, e.bo}
    BY <1>3, <2>2, CachedRecord DEF HInv, MapsCurrent
  <2> QED  BY <1>2, <1>4, <2>1, <2>2 DEF MapsCurrent
<1> QED  BY <1>6, <1>7, <1>8, <1>9, <1>10, <1>11 DEF HInv

\* The end of a GPU operation changes nothing of this.
LEMMA DoneKeeps ==
  ASSUME HInv, Done
  PROVE  HInv'
<1>1. UNCHANGED <<pix, size, mapped, privs, bo_list, scanout>>
  BY DEF Done, mapVars, cacheVars
<1> QED  BY <1>1, NothingHappens

-----------------------------------------------------------------------------
(* Pixmaps come, grow and go. *)

\* A buffer and its record go from the cache to a pixmap.
LEMMA CreateCachedKeeps ==
  ASSUME HInv, NEW p \in Pix, NEW n \in PageCount, CreateCached(p, n)
  PROVE  HInv'
<1>1. PICK i \in 1 .. Len(bo_list) :
        /\ pix' = [pix EXCEPT ![p] = [bo |-> bo_list[i].bo, priv |-> bo_list[i].priv,
                                      flags |-> "wc"]]
        /\ bo_list' = Without(bo_list, i)
  BY DEF CreateCached, First, Hits
<1> DEFINE e == bo_list[i]
           r == [bo |-> e.bo, priv |-> e.priv, flags |-> "wc"]
           t == Without(bo_list, i)
<1>2. e \in EntriesOf(bo_list) /\ e \in Entry /\ e.bo \in BosOf(bo_list) /\ e.bo \in Bo
      /\ e.priv \in Priv \cup {None} /\ (e.priv # None => e.priv \in PrivsOf(bo_list))
  <2>1. e \in EntriesOf(bo_list)  BY DEF EntriesOf
  <2> QED  BY <2>1, EntryFields DEF HInv, Typed, Entry
<1>3. /\ t \in Seq(Entry) /\ Distinct(t)
      /\ EntriesOf(t) = EntriesOf(bo_list) \ {e}
      /\ BosOf(t) = BosOf(bo_list) \ {e.bo}
      /\ PrivsOf(t) = PrivsOf(bo_list) \ {e.priv}
  BY WithoutEntry DEF HInv, Typed, CacheApart
<1>4. /\ bo_list' = t
      /\ BosOf(bo_list)' = BosOf(t) /\ PrivsOf(bo_list)' = PrivsOf(t)
      /\ EntriesOf(bo_list)' = EntriesOf(t) /\ Distinct(bo_list)' = Distinct(t)
  BY <1>1, CacheOf
<1>5. r \in PixRec /\ r # None /\ r.bo = e.bo /\ r.priv = e.priv /\ r.flags = "wc"
  BY <1>2, NoneAssumption DEF PixRec
<1>6. p \in Pix \ Pixmaps /\ p # Root
  BY DEF CreateCached, HInv, PixmapsBacked
<1>7. pix' = [pix EXCEPT ![p] = r]
  BY <1>1
<1> HIDE DEF e, r, t
<1>8. /\ pix' \in [Pix -> PixRec \cup {None}]
      /\ pix'[p] = r /\ \A q \in Pix \ {p} : pix'[q] = pix[q]
      /\ Pixmaps' = Pixmaps \cup {p}
  BY <1>5, <1>7, OneChanged DEF HInv
<1>9. \A q \in Pixmaps : q \in Pix \ {p} /\ pix'[q] = pix[q]
  BY <1>6, <1>8 DEF Pixmaps
<1>10. UNCHANGED <<size, mapped, privs, scanout>>
  BY DEF CreateCached, mapVars
<1>11. Typed'
  BY <1>3, <1>4, <1>8, <1>10 DEF HInv, Typed
<1>12. PixmapsBacked'
  BY <1>2, <1>5, <1>6, <1>8, <1>9, <1>10 DEF HInv, PixmapsBacked, CacheApart
<1>13. PixmapsApart'
  <2>1. \A q \in Pixmaps : pix[q].bo # e.bo /\ (pix[q].priv = e.priv => pix[q].priv = None)
    BY <1>2 DEF HInv, CacheApart
  <2> QED  BY <1>5, <1>8, <1>9, <2>1 DEF HInv, PixmapsApart
<1>14. CacheApart'
  <2>1. e.priv \notin PrivsOf(t) /\ e.bo \notin BosOf(t)  BY <1>3
  <2> QED  BY <1>3, <1>4, <1>5, <1>8, <1>9, <1>10, <2>1 DEF HInv, CacheApart
<1>15. BosAlive'
  <2>1. \A b : (\E q \in Pixmaps' : pix'[q].bo = b) <=> b = e.bo \/ \E q \in Pixmaps : pix[q].bo = b
    BY <1>5, <1>8, <1>9
  <2> QED  BY <1>2, <1>3, <1>4, <1>10, <2>1 DEF HInv, BosAlive
<1>16. PrivsAlive'
  <2>1. \A x : (\E q \in Pixmaps' : pix'[q].priv = x)
                 <=> x = e.priv \/ \E q \in Pixmaps : pix[q].priv = x
    BY <1>5, <1>8, <1>9
  <2>2. \A x \in Priv : x # None  BY SetsAssumption
  <2> QED  BY <1>2, <1>3, <1>4, <1>10, <2>1, <2>2 DEF HInv, PrivsAlive
<1>17. MapsCurrent'
  <2>1. e.priv # None => mapped[e.priv] \in {None, e.bo}
    BY <1>2 DEF HInv, MapsCurrent
  <2> QED  BY <1>3, <1>4, <1>5, <1>8, <1>9, <1>10, <2>1 DEF HInv, MapsCurrent
<1> QED  BY <1>11, <1>12, <1>13, <1>14, <1>15, <1>16, <1>17 DEF HInv

\* A buffer that nothing refers to goes to a pixmap.
LEMMA CreateNewKeeps ==
  ASSUME HInv, NEW p \in Pix, NEW n \in PageCount, NEW b \in Bo, NEW flags \in {"wc", "scanout"},
         CreateNew(p, n, b, flags)
  PROVE  HInv'
<1> DEFINE r == [bo |-> b, priv |-> None, flags |-> flags]
<1>1. r \in PixRec /\ r # None /\ r.bo = b /\ r.priv = None /\ r.flags = flags
  BY NoneAssumption DEF PixRec
<1>2. p \in Pix \ Pixmaps /\ p # Root
  BY DEF CreateNew, HInv, PixmapsBacked
<1>3. pix' = [pix EXCEPT ![p] = r]
  BY DEF CreateNew
<1> HIDE DEF r
<1>4. /\ pix' \in [Pix -> PixRec \cup {None}]
      /\ pix'[p] = r /\ \A q \in Pix \ {p} : pix'[q] = pix[q]
      /\ Pixmaps' = Pixmaps \cup {p}
  BY <1>1, <1>3, OneChanged DEF HInv
<1>5. \A q \in Pixmaps : q \in Pix \ {p} /\ pix'[q] = pix[q]
  BY <1>2, <1>4 DEF Pixmaps
<1>6. /\ UNCHANGED <<mapped, privs, scanout, bo_list>>
      /\ size' = [size EXCEPT ![b] = n]
  BY DEF CreateNew, mapVars, cacheVars
<1>7. /\ BosOf(bo_list)' = BosOf(bo_list) /\ PrivsOf(bo_list)' = PrivsOf(bo_list)
      /\ EntriesOf(bo_list)' = EntriesOf(bo_list) /\ Distinct(bo_list)' = Distinct(bo_list)
  BY <1>6, CacheOf
<1>8. n \in Nat /\ n > 0
  BY SetsAssumption
<1>9. b # scanout /\ b \notin BosOf(bo_list) /\ \A q \in Pixmaps : pix[q].bo # b
  <2>1. size[b] = 0  BY DEF CreateNew, Fresh, FreeBos
  <2> QED  BY <2>1 DEF HInv, BosAlive
<1>10. None \notin PrivsOf(bo_list)
  BY DEF PrivsOf
<1>11. Typed'
  BY <1>4, <1>6, <1>8 DEF HInv, Typed
<1>12. PixmapsBacked'
  BY <1>1, <1>2, <1>4, <1>5, <1>6, <1>9 DEF HInv, PixmapsBacked
<1>13. PixmapsApart'
  BY <1>1, <1>4, <1>5, <1>9 DEF HInv, PixmapsApart
<1>14. CacheApart'
  BY <1>1, <1>4, <1>5, <1>6, <1>7, <1>9, <1>10 DEF HInv, CacheApart
<1>15. BosAlive'
  <2>1. \A c : (\E q \in Pixmaps' : pix'[q].bo = c) <=> c = b \/ \E q \in Pixmaps : pix[q].bo = c
    BY <1>1, <1>4, <1>5
  <2>2. \A c \in Bo : size'[c] = IF c = b THEN n ELSE size[c]
    BY <1>6 DEF HInv, Typed
  <2>3. ASSUME NEW c \in Bo
        PROVE  size'[c] > 0 <=> c = scanout \/ c \in BosOf(bo_list) \/ \E q \in Pixmaps' : pix'[q].bo = c
    BY <1>8, <2>1, <2>2 DEF HInv, BosAlive
  <2> QED  BY <1>6, <1>7, <2>3 DEF BosAlive
<1>16. PrivsAlive'
  <2>1. \A x \in Priv : (\E q \in Pixmaps' : pix'[q].priv = x) <=> \E q \in Pixmaps : pix[q].priv = x
    BY <1>1, <1>4, <1>5, SetsAssumption
  <2> QED  BY <1>6, <1>7, <2>1 DEF HInv, PrivsAlive
<1>17. MapsCurrent'
  BY <1>1, <1>4, <1>5, <1>6, <1>7 DEF HInv, MapsCurrent
<1> QED  BY <1>11, <1>12, <1>13, <1>14, <1>15, <1>16, <1>17 DEF HInv

\* A scanout-capable buffer dies with its pixmap, unless it is scanout.
LEMMA DestroyAndFreeKeeps ==
  ASSUME HInv, NEW p \in Pix, DestroyAndFree(p)
  PROVE  HInv'
<1>1. p \in Pixmaps /\ p # Root
  BY DEF DestroyAndFree
<1>2. /\ pix' \in [Pix -> PixRec \cup {None}]
      /\ Pixmaps' = Pixmaps \ {p}
      /\ \A q \in Pixmaps \ {p} : pix'[q] = pix[q]
  <2>1. Typed /\ pix' = [pix EXCEPT ![p] = None] /\ None \in PixRec \cup {None}
    BY DEF HInv, DestroyAndFree
  <2>2. /\ pix' \in [Pix -> PixRec \cup {None}]
        /\ \A q \in Pix \ {p} : pix'[q] = pix[q]
        /\ Pixmaps' = Pixmaps \ {p}
    BY <2>1, OneChanged
  <2> QED  BY <2>2 DEF Pixmaps
<1>3. /\ bo_list' = bo_list /\ scanout' = scanout
      /\ size' \in [Bo -> Nat]
      /\ \A c \in Bo : size'[c] = IF c = pix[p].bo /\ c # scanout THEN 0 ELSE size[c]
      /\ privs' = privs \ {pix[p].priv} \/ (pix[p].priv = None /\ privs' = privs)
      /\ mapped' \in [Priv -> Bo \cup {None}]
      /\ \A y \in Priv : mapped'[y] \in {None, mapped[y]}
  BY DEF HInv, Typed, DestroyAndFree, cacheVars, Unmap, Discard, Deletes
<1>4. /\ BosOf(bo_list)' = BosOf(bo_list) /\ PrivsOf(bo_list)' = PrivsOf(bo_list)
      /\ EntriesOf(bo_list)' = EntriesOf(bo_list) /\ Distinct(bo_list)' = Distinct(bo_list)
  BY <1>3, CacheOf
<1>5. Typed'
  BY <1>2, <1>3 DEF HInv, Typed
<1>6. PixmapsBacked' /\ PixmapsApart'
  BY <1>1, <1>2, <1>3 DEF HInv, PixmapsBacked, PixmapsApart
<1>7. CacheApart'
  BY <1>2, <1>3, <1>4 DEF HInv, CacheApart
<1>8. BosAlive'
  <2>1. ASSUME NEW c \in Bo
        PROVE  size'[c] > 0 <=>
                 c = scanout \/ c \in BosOf(bo_list) \/ \E q \in Pixmaps \ {p} : pix[q].bo = c
    <3>1. CASE c = pix[p].bo
      BY <1>1, <1>3, <3>1 DEF HInv, BosAlive, PixmapsApart, CacheApart
    <3>2. CASE c # pix[p].bo
      BY <1>1, <1>3, <3>2 DEF HInv, BosAlive
    <3> QED  BY <3>1, <3>2
  <2> QED  BY <1>2, <1>3, <1>4, <2>1 DEF BosAlive
<1>9. PrivsAlive'
  <2>1. \A y \in Priv : y \in privs' <=> y \in privs /\ y # pix[p].priv
    BY <1>3, SetsAssumption
  <2>2. \A y \in Priv : (\E q \in Pixmaps \ {p} : pix[q].priv = y)
                          <=> (\E q \in Pixmaps : pix[q].priv = y) /\ y # pix[p].priv
    BY <1>1, SetsAssumption DEF HInv, PixmapsApart
  <2>3. pix[p].priv \notin PrivsOf(bo_list)
    BY <1>1 DEF HInv, CacheApart
  <2> QED  BY <1>2, <1>4, <2>1, <2>2, <2>3 DEF HInv, PrivsAlive
<1>10. MapsCurrent'
  <2>1. ASSUME NEW q \in Pixmaps \ {p}, pix[q].priv # None
        PROVE  mapped'[pix[q].priv] \in {None, pix[q].bo}
    BY <1>3, <2>1, PixmapFields DEF HInv, MapsCurrent
  <2>2. ASSUME NEW e \in EntriesOf(bo_list), e.priv # None
        PROVE  mapped'[e.priv] \in {None, e.bo}
    BY <1>3, <2>2, CachedRecord DEF HInv, MapsCurrent
  <2> QED  BY <1>2, <1>4, <2>1, <2>2 DEF MapsCurrent
<1> QED  BY <1>5, <1>6, <1>7, <1>8, <1>9, <1>10 DEF HInv

-----------------------------------------------------------------------------
(* The cache takes a pixmap's buffer, and evicts what it has no room for. *)

\* The evicted entries, gone, and the others, kept, share nothing with each other,
\* with the pixmaps other than p or with scanout, and hold all that p gave up.
Split(p, gone, kept) ==
  /\ kept \in Seq(Entry) /\ Distinct(kept)
  /\ scanout \notin BosOf(gone) /\ scanout \notin BosOf(kept)
  /\ BosOf(gone) \cap BosOf(kept) = {} /\ PrivsOf(gone) \cap PrivsOf(kept) = {}
  /\ \A q \in Pixmaps \ {p} :
       /\ pix[q].bo \notin BosOf(gone) /\ pix[q].bo \notin BosOf(kept)
       /\ pix[q].priv \notin PrivsOf(gone) /\ pix[q].priv \notin PrivsOf(kept)
  /\ \A b \in Bo : size[b] > 0 <=> b = scanout \/ b \in BosOf(gone) \/ b \in BosOf(kept)
                                   \/ \E q \in Pixmaps \ {p} : pix[q].bo = b
  /\ \A x \in Priv : x \in privs <=> x \in PrivsOf(gone) \/ x \in PrivsOf(kept)
                                     \/ \E q \in Pixmaps \ {p} : pix[q].priv = x
  /\ \A e \in EntriesOf(kept) : e.priv # None =>
       e.priv \in PrivsOf(kept) \cap Priv /\ mapped[e.priv] \in {None, e.bo}

\* sgxBoCachePut.
LEMMA EvictedAndKept ==
  ASSUME HInv, NEW p \in Pixmaps, pix[p].flags = "wc"
  PROVE  Split(p, Evicted(p), Kept(p))
<1> DEFINE e == [bo |-> pix[p].bo, priv |-> pix[p].priv]
           all == Append(bo_list, e)
           n == Evictions(all, PagesWith(p))
           gone == SubSeq(all, 1, n)
           kept == SubSeq(all, n + 1, Len(all))
<1>1. e \in Entry /\ e.bo = pix[p].bo /\ e.priv = pix[p].priv
  BY PixmapFields DEF HInv, PixmapsBacked, Entry
<1>2. bo_list \in Seq(Entry) /\ Distinct(bo_list)
      /\ e.bo \notin BosOf(bo_list) /\ e.priv \notin PrivsOf(bo_list)
  BY <1>1 DEF HInv, Typed, CacheApart
<1> HIDE DEF e
<1>3. /\ all \in Seq(Entry) /\ Distinct(all)
      /\ EntriesOf(all) = EntriesOf(bo_list) \cup {e}
      /\ BosOf(all) = BosOf(bo_list) \cup {e.bo}
      /\ PrivsOf(all) = PrivsOf(bo_list) \cup ({e.priv} \ {None})
  BY <1>1, <1>2, AppendEntry
<1> HIDE DEF all
<1>4. n \in 0 .. Len(all)
  BY <1>3, EvictionsType
<1> HIDE DEF n
<1>5. /\ gone \in Seq(Entry) /\ kept \in Seq(Entry) /\ Len(gone) = n
      /\ EntriesOf(all) = EntriesOf(gone) \cup EntriesOf(kept)
      /\ BosOf(all) = BosOf(gone) \cup BosOf(kept)
      /\ PrivsOf(all) = PrivsOf(gone) \cup PrivsOf(kept)
      /\ Distinct(kept)
      /\ BosOf(gone) \cap BosOf(kept) = {} /\ PrivsOf(gone) \cap PrivsOf(kept) = {}
  BY <1>3, <1>4, CutEntries
<1> HIDE DEF gone, kept
<1>6. Evicted(p) = gone /\ Kept(p) = kept
  BY <1>5 DEF Evicted, Kept, Enlarged, gone, kept, n, all, e
<1>7. scanout \notin BosOf(all)
  BY <1>1, <1>3 DEF HInv, CacheApart, PixmapsBacked
<1>8. \A q \in Pixmaps \ {p} : pix[q].bo \notin BosOf(all) /\ pix[q].priv \notin PrivsOf(all)
  BY <1>1, <1>3 DEF HInv, CacheApart, PixmapsApart
<1>9. \A b \in Bo : size[b] > 0 <=> b = scanout \/ b \in BosOf(all)
                                    \/ \E q \in Pixmaps \ {p} : pix[q].bo = b
  BY <1>1, <1>3 DEF HInv, BosAlive
<1>10. \A x \in Priv : x \in privs <=> x \in PrivsOf(all)
                                       \/ \E q \in Pixmaps \ {p} : pix[q].priv = x
  BY <1>1, <1>3, SetsAssumption DEF HInv, PrivsAlive
<1>11. \A f \in EntriesOf(all) : f.priv # None => mapped[f.priv] \in {None, f.bo}
  BY <1>1, <1>3 DEF HInv, MapsCurrent
<1>12. \A f \in EntriesOf(kept) : f.priv # None => f.priv \in PrivsOf(kept) \cap Priv
  BY <1>5, EntryFields DEF Entry
<1>13. Split(p, gone, kept)
  BY <1>5, <1>7, <1>8, <1>9, <1>10, <1>11, <1>12 DEF Split
<1> QED  BY <1>6, <1>13

\* The cache takes the buffer of a pixmap that is destroyed,
LEMMA DestroyToCacheKeeps ==
  ASSUME HInv, NEW p \in Pix, DestroyToCache(p)
  PROVE  HInv'
<1> DEFINE gone == Evicted(p)
           kept == Kept(p)
<1>1. p \in Pixmaps /\ p # Root /\ pix[p].flags = "wc"
  BY DEF DestroyToCache
<1>2. Split(p, gone, kept)
  BY <1>1, EvictedAndKept
<1>3. /\ bo_list' = kept /\ scanout' = scanout
      /\ size' = [c \in Bo |-> IF c \in BosOf(gone) THEN 0 ELSE size[c]]
      /\ privs' = privs \ PrivsOf(gone)
      /\ mapped' \in [Priv -> Bo \cup {None}]
      /\ \A y \in Priv : mapped'[y] \in {None, mapped[y]}
  BY DEF DestroyToCache, Uncache, Discard, HInv, Typed
<1>4. /\ pix' \in [Pix -> PixRec \cup {None}]
      /\ Pixmaps' = Pixmaps \ {p}
      /\ \A q \in Pixmaps \ {p} : pix'[q] = pix[q]
  <2>1. Typed /\ pix' = [pix EXCEPT ![p] = None] /\ None \in PixRec \cup {None}
    BY DEF HInv, DestroyToCache
  <2>2. /\ pix' \in [Pix -> PixRec \cup {None}]
        /\ \A q \in Pix \ {p} : pix'[q] = pix[q]
        /\ Pixmaps' = Pixmaps \ {p}
    BY <2>1, OneChanged
  <2> QED  BY <2>2 DEF Pixmaps
<1> HIDE DEF gone, kept
<1>5. /\ BosOf(bo_list)' = BosOf(kept) /\ PrivsOf(bo_list)' = PrivsOf(kept)
      /\ EntriesOf(bo_list)' = EntriesOf(kept) /\ Distinct(bo_list)' = Distinct(kept)
  BY <1>3, CacheOf
<1>6. Typed'
  BY <1>2, <1>3, <1>4 DEF HInv, Typed, Split
<1>7. PixmapsBacked' /\ PixmapsApart'
  BY <1>1, <1>3, <1>4 DEF HInv, PixmapsBacked, PixmapsApart
<1>8. CacheApart'
  BY <1>2, <1>3, <1>4, <1>5 DEF CacheApart, Split
<1>9. BosAlive'
  <2>1. ASSUME NEW c \in Bo
        PROVE  size'[c] > 0 <=>
                 c = scanout \/ c \in BosOf(kept) \/ \E q \in Pixmaps \ {p} : pix[q].bo = c
    <3>1. CASE c \in BosOf(gone)  BY <1>2, <1>3, <3>1 DEF HInv, Typed, Split
    <3>2. CASE c \notin BosOf(gone)  BY <1>2, <1>3, <3>2 DEF HInv, Typed, Split
    <3> QED  BY <3>1, <3>2
  <2> QED  BY <1>3, <1>4, <1>5, <2>1 DEF BosAlive
<1>10. PrivsAlive'
  <2>1. ASSUME NEW x \in Priv
        PROVE  x \in privs' <=> x \in PrivsOf(kept) \/ \E q \in Pixmaps \ {p} : pix[q].priv = x
    BY <1>2, <1>3 DEF Split
  <2> QED  BY <1>4, <1>5, <2>1 DEF PrivsAlive
<1>11. MapsCurrent'
  <2>1. ASSUME NEW q \in Pixmaps \ {p}, pix[q].priv # None
        PROVE  mapped'[pix[q].priv] \in {None, pix[q].bo}
    BY <1>3, <2>1, PixmapFields DEF HInv, MapsCurrent
  <2>2. ASSUME NEW e \in EntriesOf(kept), e.priv # None
        PROVE  mapped'[e.priv] \in {None, e.bo}
    BY <1>2, <1>3, <2>2 DEF Split
  <2> QED  BY <1>4, <1>5, <2>1, <2>2 DEF MapsCurrent
<1> QED  BY <1>6, <1>7, <1>8, <1>9, <1>10, <1>11 DEF HInv

\* The pixmap gets a buffer b and a record x, and the cache is left with t.
Regrown(p, b, x, t) ==
  /\ pix' = [pix EXCEPT ![p] = [bo |-> b, priv |-> x, flags |-> "wc"]]
  /\ bo_list' = t
  /\ scanout' = scanout

\* They share nothing with each other or with the rest.
Placed(p, b, x, t) ==
  /\ b # scanout /\ b \notin BosOf(t) /\ x \notin PrivsOf(t) /\ scanout \notin BosOf(t)
  /\ \A q \in Pixmaps \ {p} :
       /\ pix[q].bo # b /\ (pix[q].priv = x => x = None)
       /\ pix[q].bo \notin BosOf(t) /\ pix[q].priv \notin PrivsOf(t)

\* The buffers and the records that stay alive are those referred to.
Referred(p, b, x, t) ==
  /\ \A c \in Bo : size'[c] > 0 <=> c = scanout \/ c = b \/ c \in BosOf(t)
                                    \/ \E q \in Pixmaps \ {p} : pix[q].bo = c
  /\ \A y \in Priv : y \in privs' <=> y = x \/ y \in PrivsOf(t)
                                      \/ \E q \in Pixmaps \ {p} : pix[q].priv = y

\* No record maps anything new.
MapsKept(b, x, t) ==
  /\ \A y \in Priv : mapped'[y] \in {None, mapped[y]}
  /\ x # None => mapped'[x] \in {None, b}
  /\ \A e \in EntriesOf(t) : e.priv # None => mapped'[e.priv] \in {None, e.bo}

\* That keeps the invariant.
LEMMA RegrownKeeps ==
  ASSUME HInv, NEW p \in Pixmaps, pix[p].flags = "wc", NEW b \in Bo, NEW x \in Priv \cup {None},
         NEW t \in Seq(Entry), Distinct(t), Regrown(p, b, x, t),
         size' \in [Bo -> Nat], mapped' \in [Priv -> Bo \cup {None}], privs' \in SUBSET Priv,
         Placed(p, b, x, t), Referred(p, b, x, t), MapsKept(b, x, t)
  PROVE  HInv'
<1> DEFINE r == [bo |-> b, priv |-> x, flags |-> "wc"]
<1>1. r \in PixRec /\ r # None /\ r.bo = b /\ r.priv = x /\ r.flags = "wc"
  BY NoneAssumption DEF PixRec
<1>2. p \in Pixmaps /\ p \in Pix /\ p # Root
  BY PixmapFields DEF HInv, PixmapsBacked
<1>3. pix' = [pix EXCEPT ![p] = r] /\ scanout' = scanout /\ bo_list' = t
  BY DEF Regrown
<1> HIDE DEF r
<1>4. /\ pix' \in [Pix -> PixRec \cup {None}]
      /\ pix'[p] = r /\ \A q \in Pix \ {p} : pix'[q] = pix[q]
      /\ Pixmaps' = Pixmaps
  <2>1. Typed /\ r \in PixRec \cup {None}
    BY <1>1 DEF HInv
  <2>2. /\ pix' \in [Pix -> PixRec \cup {None}]
        /\ pix'[p] = r /\ \A q \in Pix \ {p} : pix'[q] = pix[q]
        /\ Pixmaps' = IF r = None THEN Pixmaps \ {p} ELSE Pixmaps \cup {p}
    BY <1>2, <1>3, <2>1, OneChanged
  <2> QED  BY <1>1, <1>2, <2>2
<1>5. \A q \in Pixmaps \ {p} : pix'[q] = pix[q]
  BY <1>4 DEF Pixmaps
<1>6. /\ BosOf(bo_list)' = BosOf(t) /\ PrivsOf(bo_list)' = PrivsOf(t)
      /\ EntriesOf(bo_list)' = EntriesOf(t) /\ Distinct(bo_list)' = Distinct(t)
  BY <1>3, CacheOf
<1>7. Typed'
  BY <1>3, <1>4 DEF HInv, Typed
<1>8. PixmapsBacked'
  BY <1>1, <1>2, <1>3, <1>4, <1>5 DEF HInv, PixmapsBacked, Placed
<1>9. PixmapsApart'
  BY <1>1, <1>4, <1>5 DEF HInv, PixmapsApart, Placed
<1>10. CacheApart'
  BY <1>1, <1>3, <1>4, <1>5, <1>6 DEF CacheApart, Placed
<1>11. BosAlive'
  <2>1. \A c : (\E q \in Pixmaps' : pix'[q].bo = c)
                 <=> c = b \/ \E q \in Pixmaps \ {p} : pix[q].bo = c
    BY <1>1, <1>2, <1>4, <1>5
  <2> QED  BY <1>3, <1>6, <2>1 DEF BosAlive, Referred
<1>12. PrivsAlive'
  <2>1. \A y : (\E q \in Pixmaps' : pix'[q].priv = y)
                 <=> y = x \/ \E q \in Pixmaps \ {p} : pix[q].priv = y
    BY <1>1, <1>2, <1>4, <1>5
  <2> QED  BY <1>6, <2>1 DEF PrivsAlive, Referred
<1>13. MapsCurrent'
  <2>1. ASSUME NEW q \in Pixmaps \ {p}, pix[q].priv # None
        PROVE  mapped'[pix[q].priv] \in {None, pix[q].bo}
    <3>1. pix[q].priv \in Priv /\ mapped[pix[q].priv] \in {None, pix[q].bo}
      BY <2>1, PixmapFields DEF HInv, MapsCurrent
    <3> QED  BY <3>1 DEF MapsKept
  <2> QED  BY <1>1, <1>4, <1>5, <1>6, <2>1 DEF MapsCurrent, MapsKept
<1> QED  BY <1>7, <1>8, <1>9, <1>10, <1>11, <1>12, <1>13 DEF HInv

\* and that of one which gets a larger buffer, from the cache or from the kernel.
LEMMA GrowKeeps ==
  ASSUME HInv, NEW p \in Pix, NEW n \in PageCount, NEW b \in Bo, Grow(p, n, b)
  PROVE  HInv'
<1> DEFINE gone == Evicted(p)
           kept == Kept(p)
<1>1. p \in Pixmaps /\ pix[p].flags = "wc"
  BY DEF Grow
<1>2. Split(p, gone, kept)
  BY <1>1, EvictedAndKept
<1>3. /\ privs' = privs \ PrivsOf(gone)
      /\ mapped' \in [Priv -> Bo \cup {None}]
      /\ \A y \in Priv : mapped'[y] \in {None, mapped[y]}
      /\ scanout' = scanout
  BY DEF Grow, Uncache, Discard, HInv, Typed
<1>4. \/ \E i \in 1 .. Len(kept) :
           /\ b = kept[i].bo
           /\ Regrown(p, b, kept[i].priv, Without(kept, i))
           /\ size' = [c \in Bo |-> IF c \in BosOf(gone) THEN 0 ELSE size[c]]
      \/ /\ size[b] = 0 \/ b \in BosOf(gone)
         /\ Regrown(p, b, None, kept)
         /\ size' = [c \in Bo |-> IF c = b THEN n ELSE IF c \in BosOf(gone) THEN 0 ELSE size[c]]
  BY DEF Grow, First, Hits, Fresh, FreeBos, Regrown
<1>5. n \in Nat /\ n > 0
  BY SetsAssumption
<1> HIDE DEF gone, kept
<1>6. CASE \E i \in 1 .. Len(kept) :
             /\ b = kept[i].bo
             /\ Regrown(p, b, kept[i].priv, Without(kept, i))
             /\ size' = [c \in Bo |-> IF c \in BosOf(gone) THEN 0 ELSE size[c]]
  <2>1. PICK i \in 1 .. Len(kept) :
          /\ b = kept[i].bo
          /\ Regrown(p, b, kept[i].priv, Without(kept, i))
          /\ size' = [c \in Bo |-> IF c \in BosOf(gone) THEN 0 ELSE size[c]]
    BY <1>6
  <2> DEFINE e == kept[i]
             x == kept[i].priv
             t == Without(kept, i)
  <2>2. kept \in Seq(Entry) /\ Distinct(kept)
    BY <1>2 DEF Split
  <2>3. e \in EntriesOf(kept) /\ e.bo \in BosOf(kept) /\ e.priv \in Priv \cup {None}
        /\ (e.priv # None => e.priv \in PrivsOf(kept))
    <3>1. e \in EntriesOf(kept)  BY DEF EntriesOf
    <3> QED  BY <2>2, <3>1, EntryFields DEF Entry
  <2>4. /\ t \in Seq(Entry) /\ Distinct(t)
        /\ EntriesOf(t) = EntriesOf(kept) \ {e}
        /\ BosOf(t) = BosOf(kept) \ {e.bo}
        /\ PrivsOf(t) = PrivsOf(kept) \ {e.priv}
    BY <2>2, WithoutEntry
  <2>5. b = e.bo /\ x = e.priv /\ x \in Priv \cup {None} /\ Regrown(p, b, x, t)
    BY <2>1, <2>3
  <2>6. \A c \in Bo : size'[c] = IF c \in BosOf(gone) THEN 0 ELSE size[c]
    BY <2>1
  <2>7. size' \in [Bo -> Nat] /\ privs' \in SUBSET Priv
    BY <1>3, <2>1 DEF HInv, Typed
  <2> HIDE DEF e, x, t
  <2>8. b # scanout /\ b \notin BosOf(t) /\ x \notin PrivsOf(t) /\ scanout \notin BosOf(t)
    BY <1>2, <2>3, <2>4, <2>5 DEF Split
  <2>9. \A q \in Pixmaps \ {p} :
          /\ pix[q].bo # b /\ (pix[q].priv = x => x = None)
          /\ pix[q].bo \notin BosOf(t) /\ pix[q].priv \notin PrivsOf(t)
    BY <1>2, <2>3, <2>4, <2>5 DEF Split
  <2>10. ASSUME NEW c \in Bo
         PROVE  size'[c] > 0 <=> c = scanout \/ c = b \/ c \in BosOf(t)
                                 \/ \E q \in Pixmaps \ {p} : pix[q].bo = c
    <3>1. c = b \/ c \in BosOf(t) <=> c \in BosOf(kept)  BY <2>3, <2>4, <2>5
    <3>2. CASE c \in BosOf(gone)  BY <1>2, <2>6, <3>1, <3>2 DEF Split
    <3>3. CASE c \notin BosOf(gone)  BY <1>2, <2>6, <3>1, <3>3 DEF Split
    <3> QED  BY <3>2, <3>3
  <2>11. ASSUME NEW y \in Priv
         PROVE  y \in privs' <=> y = x \/ y \in PrivsOf(t)
                                 \/ \E q \in Pixmaps \ {p} : pix[q].priv = y
    <3>1. y = x \/ y \in PrivsOf(t) <=> y \in PrivsOf(kept)
      BY <2>3, <2>4, <2>5, SetsAssumption
    <3> QED  BY <1>2, <1>3, <3>1 DEF Split
  <2>12. x # None => mapped'[x] \in {None, b}
    BY <1>2, <1>3, <2>3, <2>5 DEF Split
  <2>13. \A f \in EntriesOf(t) : f.priv # None => mapped'[f.priv] \in {None, f.bo}
    BY <1>2, <1>3, <2>4 DEF Split
  <2>14. Placed(p, b, x, t)  BY <2>8, <2>9 DEF Placed
  <2>15. Referred(p, b, x, t)  BY <2>10, <2>11 DEF Referred
  <2>16. MapsKept(b, x, t)  BY <1>3, <2>12, <2>13 DEF MapsKept
  <2> QED  BY <1>1, <1>3, <2>4, <2>5, <2>7, <2>14, <2>15, <2>16, RegrownKeeps
<1>7. CASE /\ size[b] = 0 \/ b \in BosOf(gone)
           /\ Regrown(p, b, None, kept)
           /\ size' = [c \in Bo |-> IF c = b THEN n ELSE IF c \in BosOf(gone) THEN 0 ELSE size[c]]
  <2>1. kept \in Seq(Entry) /\ Distinct(kept)
    BY <1>2 DEF Split
  <2>2. \A c \in Bo : size'[c] = IF c = b THEN n ELSE IF c \in BosOf(gone) THEN 0 ELSE size[c]
    BY <1>7
  <2>3. size' \in [Bo -> Nat] /\ privs' \in SUBSET Priv
    BY <1>3, <1>5, <1>7 DEF HInv, Typed
  <2>4. b # scanout /\ b \notin BosOf(kept) /\ \A q \in Pixmaps \ {p} : pix[q].bo # b
    BY <1>2, <1>7 DEF Split
  <2>5. scanout \notin BosOf(kept) /\ None \notin PrivsOf(kept)
    BY <1>2 DEF Split, PrivsOf
  <2>6. \A q \in Pixmaps \ {p} : pix[q].bo \notin BosOf(kept) /\ pix[q].priv \notin PrivsOf(kept)
    BY <1>2 DEF Split
  <2>7. ASSUME NEW c \in Bo
        PROVE  size'[c] > 0 <=> c = scanout \/ c = b \/ c \in BosOf(kept)
                                \/ \E q \in Pixmaps \ {p} : pix[q].bo = c
    <3>1. CASE c = b  BY <1>5, <2>2, <3>1
    <3>2. CASE c # b /\ c \in BosOf(gone)  BY <1>2, <2>2, <3>2 DEF Split
    <3>3. CASE c # b /\ c \notin BosOf(gone)  BY <1>2, <2>2, <3>3 DEF Split
    <3> QED  BY <3>1, <3>2, <3>3
  <2>8. ASSUME NEW y \in Priv
        PROVE  y \in privs' <=> y = None \/ y \in PrivsOf(kept)
                                \/ \E q \in Pixmaps \ {p} : pix[q].priv = y
    BY <1>2, <1>3, SetsAssumption DEF Split
  <2>9. \A f \in EntriesOf(kept) : f.priv # None => mapped'[f.priv] \in {None, f.bo}
    BY <1>2, <1>3 DEF Split
  <2>10. Placed(p, b, None, kept)  BY <2>4, <2>5, <2>6 DEF Placed
  <2>11. Referred(p, b, None, kept)  BY <2>7, <2>8 DEF Referred
  <2>12. MapsKept(b, None, kept)  BY <1>3, <2>9 DEF MapsKept
  <2> QED  BY <1>1, <1>3, <1>7, <2>1, <2>3, <2>10, <2>11, <2>12, RegrownKeeps
<1> QED  BY <1>4, <1>6, <1>7

-----------------------------------------------------------------------------
(* The screen pixmap. *)

\* It loses its record and gets buffer b.
Rewrapped(b) ==
  /\ pix' = [pix EXCEPT ![Root].bo = b, ![Root].priv = None]
  /\ Unmap({pix[Root].priv} \ {None})

\* That keeps the invariant when nothing else refers to b and the
\* buffers that stay alive are those referred to.
LEMMA Rebacked ==
  ASSUME HInv, NEW b \in Bo,
         Rewrapped(b), bo_list' = bo_list, scanout' \in Bo, size' \in [Bo -> Nat],
         scanout' \notin BosOf(bo_list), b \notin BosOf(bo_list),
         \A q \in Pixmaps \ {Root} :
           pix[q].bo # b /\ (pix[q].flags = "wc" => pix[q].bo # scanout'),
         \A c \in Bo : size'[c] > 0 <=> c = scanout' \/ c = b \/ c \in BosOf(bo_list)
                                        \/ \E q \in Pixmaps \ {Root} : pix[q].bo = c
  PROVE  HInv'
<1> DEFINE r == [pix[Root] EXCEPT !.bo = b, !.priv = None]
<1>1. Root \in Pixmaps /\ pix[Root] \in PixRec /\ pix[Root].flags # "wc"
  BY PixmapFields DEF HInv, PixmapsBacked
<1>2. r \in PixRec /\ r # None /\ r.bo = b /\ r.priv = None /\ r.flags = pix[Root].flags
  <2>1. r \in PixRec /\ r.bo = b /\ r.priv = None /\ r.flags = pix[Root].flags
    BY <1>1 DEF PixRec
  <2> QED  BY <2>1, NoneAssumption
<1>3. pix' = [pix EXCEPT ![Root] = r]
  BY DEF HInv, Typed, Rewrapped
<1> HIDE DEF r
<1>4. /\ pix' \in [Pix -> PixRec \cup {None}]
      /\ pix'[Root] = r /\ \A q \in Pix \ {Root} : pix'[q] = pix[q]
      /\ Pixmaps' = Pixmaps
  <2>1. Typed /\ r \in PixRec \cup {None} /\ Root \in Pix
    BY <1>2, SetsAssumption DEF HInv
  <2>2. /\ pix' \in [Pix -> PixRec \cup {None}]
        /\ pix'[Root] = r /\ \A q \in Pix \ {Root} : pix'[q] = pix[q]
        /\ Pixmaps' = IF r = None THEN Pixmaps \ {Root} ELSE Pixmaps \cup {Root}
    BY <1>3, <2>1, OneChanged
  <2> QED  BY <1>1, <1>2, <2>2
<1>5. \A q \in Pixmaps \ {Root} : pix'[q] = pix[q]
  BY <1>4 DEF Pixmaps
<1>6. /\ privs' = privs \ ({pix[Root].priv} \ {None})
      /\ mapped' \in [Priv -> Bo \cup {None}]
      /\ \A y \in Priv : mapped'[y] \in {None, mapped[y]}
  BY DEF HInv, Typed, Rewrapped, Unmap, Discard
<1>7. /\ BosOf(bo_list)' = BosOf(bo_list) /\ PrivsOf(bo_list)' = PrivsOf(bo_list)
      /\ EntriesOf(bo_list)' = EntriesOf(bo_list) /\ Distinct(bo_list)' = Distinct(bo_list)
  BY CacheOf
<1>8. None \notin PrivsOf(bo_list) /\ None \notin Priv
  BY SetsAssumption DEF PrivsOf
<1>9. Typed'
  BY <1>4, <1>6 DEF HInv, Typed
<1>10. PixmapsBacked' /\ PixmapsApart'
  <2>1. \A q \in Pixmaps : /\ pix'[q].flags = pix[q].flags
                           /\ pix'[q].bo = IF q = Root THEN b ELSE pix[q].bo
                           /\ pix'[q].priv = IF q = Root THEN None ELSE pix[q].priv
    BY <1>2, <1>4, <1>5
  <2>2. PixmapsBacked'
    BY <1>1, <1>4, <2>1 DEF HInv, PixmapsBacked
  <2>3. PixmapsApart'
    BY <1>4, <2>1 DEF HInv, PixmapsApart
  <2> QED  BY <2>2, <2>3
<1>11. CacheApart'
  BY <1>2, <1>4, <1>5, <1>7, <1>8 DEF HInv, CacheApart
<1>12. BosAlive'
  <2>1. \A c : (\E q \in Pixmaps' : pix'[q].bo = c)
                 <=> c = b \/ \E q \in Pixmaps \ {Root} : pix[q].bo = c
    BY <1>1, <1>2, <1>4, <1>5
  <2> QED  BY <1>7, <2>1 DEF BosAlive
<1>13. PrivsAlive'
  <2>1. \A y \in Priv : (\E q \in Pixmaps' : pix'[q].priv = y)
                          <=> \E q \in Pixmaps \ {Root} : pix[q].priv = y
    BY <1>2, <1>4, <1>5, <1>8
  <2>2. \A y \in Priv : (\E q \in Pixmaps \ {Root} : pix[q].priv = y)
                          <=> (\E q \in Pixmaps : pix[q].priv = y) /\ y # pix[Root].priv
    BY <1>1, <1>8 DEF HInv, PixmapsApart
  <2>3. pix[Root].priv \notin PrivsOf(bo_list)
    BY <1>1 DEF HInv, CacheApart
  <2>4. \A y \in Priv : y \in privs' <=> y \in privs /\ y # pix[Root].priv
    BY <1>6, <1>8
  <2> QED  BY <1>7, <2>1, <2>2, <2>3, <2>4 DEF HInv, PrivsAlive
<1>14. MapsCurrent'
  <2>1. ASSUME NEW q \in Pixmaps, pix'[q].priv # None
        PROVE  mapped'[pix'[q].priv] \in {None, pix'[q].bo}
    <3>1. q # Root  BY <1>2, <1>4, <2>1
    <3>2. pix'[q] = pix[q]  BY <1>5, <3>1
    <3>3. pix[q].priv \in Priv  BY <2>1, <3>2, PixmapFields DEF HInv
    <3>4. mapped[pix[q].priv] \in {None, pix[q].bo}  BY <2>1, <3>2 DEF HInv, MapsCurrent
    <3> QED  BY <1>6, <3>2, <3>3, <3>4
  <2>2. ASSUME NEW e \in EntriesOf(bo_list), e.priv # None
        PROVE  mapped'[e.priv] \in {None, e.bo}
    BY <1>6, <2>2, CachedRecord DEF HInv, MapsCurrent
  <2> QED  BY <1>4, <1>7, <2>1, <2>2 DEF MapsCurrent
<1> QED  BY <1>9, <1>10, <1>11, <1>12, <1>13, <1>14 DEF HInv

\* A flipped screen pixmap gives up a buffer that is not scanout.
LEMMA ReplaceFrontKeeps ==
  ASSUME HInv, NEW n \in PageCount, NEW b \in Bo, ReplaceFront(n, b)
  PROVE  HInv'
<1>1. n \in Nat /\ n > 0
  BY SetsAssumption
<1>2. size[b] = 0 /\ pix[Root].bo # scanout
  BY DEF ReplaceFront, Fresh, FreeBos
<1>3. b # scanout /\ b \notin BosOf(bo_list) /\ \A q \in Pixmaps : pix[q].bo # b
  BY <1>2 DEF HInv, BosAlive
<1>4. Root \in Pixmaps /\ scanout \in Bo /\ scanout \notin BosOf(bo_list)
      /\ pix[Root].bo \notin BosOf(bo_list)
  BY DEF HInv, Typed, PixmapsBacked, CacheApart
<1>5. /\ scanout' = scanout /\ bo_list' = bo_list /\ size' \in [Bo -> Nat]
      /\ \A c \in Bo : size'[c] = IF c = b THEN n
                                   ELSE IF c = pix[Root].bo THEN 0 ELSE size[c]
  BY <1>1, <1>2 DEF HInv, Typed, ReplaceFront, cacheVars, Deletes
<1>6. ASSUME NEW c \in Bo
      PROVE  size'[c] > 0 <=> c = scanout \/ c = b \/ c \in BosOf(bo_list)
                              \/ \E q \in Pixmaps \ {Root} : pix[q].bo = c
  <2>1. CASE c = b
    BY <1>1, <1>5, <2>1
  <2>2. CASE c # b /\ c = pix[Root].bo
    BY <1>2, <1>4, <1>5, <2>2 DEF HInv, PixmapsApart
  <2>3. CASE c # b /\ c # pix[Root].bo
    BY <1>4, <1>5, <2>3 DEF HInv, BosAlive
  <2> QED  BY <2>1, <2>2, <2>3
<1>7. \A q \in Pixmaps : pix[q].flags = "wc" => pix[q].bo # scanout
  BY DEF HInv, PixmapsBacked
<1>8. Rewrapped(b)
  BY DEF ReplaceFront, Rewrapped
<1> QED  BY <1>3, <1>4, <1>5, <1>6, <1>7, <1>8, Rebacked

\* A screen pixmap that has not been flipped gives up scanout for the new one.
LEMMA ResizeKeeps ==
  ASSUME Tame, HInv, NEW n \in PageCount, NEW b \in Bo, Resize(n, b)
  PROVE  HInv'
<1>1. n \in Nat /\ n > 0
  BY SetsAssumption
<1>2. pix[Root].bo = scanout /\ Root \in Pixmaps
  BY DEF Tame, Resize, HInv, PixmapsBacked
<1>3. size[b] = 0 \/ b = scanout
  BY DEF Resize, Fresh, FreeBos
<1>4. b \notin BosOf(bo_list) /\ \A q \in Pixmaps \ {Root} : pix[q].bo # b
  BY <1>2, <1>3 DEF HInv, BosAlive, CacheApart, PixmapsApart
<1>5. /\ scanout' = b /\ bo_list' = bo_list /\ size' \in [Bo -> Nat]
      /\ \A c \in Bo : size'[c] = IF c = b THEN n ELSE IF c = scanout THEN 0 ELSE size[c]
  BY <1>1 DEF HInv, Typed, Resize, cacheVars
<1>6. ASSUME NEW c \in Bo
      PROVE  size'[c] > 0 <=> c = b \/ c \in BosOf(bo_list)
                              \/ \E q \in Pixmaps \ {Root} : pix[q].bo = c
  <2>1. CASE c = b
    BY <1>1, <1>5, <2>1
  <2>2. CASE c # b /\ c = scanout
    BY <1>2, <1>5, <2>2 DEF HInv, PixmapsApart, CacheApart
  <2>3. CASE c # b /\ c # scanout
    BY <1>2, <1>5, <2>3 DEF HInv, BosAlive
  <2> QED  BY <2>1, <2>2, <2>3
<1>7. Rewrapped(b)
  BY <1>5 DEF Resize, WrapScanout, Rewrapped
<1> QED  BY <1>4, <1>5, <1>6, <1>7, Rebacked

\* Or keeps it.
LEMMA RewrapKeeps ==
  ASSUME Tame, HInv, Rewrap
  PROVE  HInv'
<1>1. pix[Root].bo = scanout /\ Root \in Pixmaps
  BY DEF Tame, Rewrap, HInv, PixmapsBacked
<1>2. scanout \in Bo /\ scanout \notin BosOf(bo_list)
      /\ \A q \in Pixmaps \ {Root} : pix[q].bo # scanout
  BY <1>1 DEF HInv, Typed, CacheApart, PixmapsApart
<1>3. scanout' = scanout /\ bo_list' = bo_list /\ size' = size /\ size \in [Bo -> Nat]
  BY DEF HInv, Typed, Rewrap, cacheVars
<1>4. \A c \in Bo : size[c] > 0 <=> c = scanout \/ c \in BosOf(bo_list)
                                    \/ \E q \in Pixmaps \ {Root} : pix[q].bo = c
  BY <1>1 DEF HInv, BosAlive
<1>5. Rewrapped(scanout)
  BY <1>3 DEF Rewrap, WrapScanout, Rewrapped
<1> QED  BY <1>2, <1>3, <1>4, <1>5, Rebacked

\* exchangebufs: the flags stay, so the one the screen pixmap gives away must go
\* to a pixmap that the cache will not take it from.
LEMMA ExchangeKeeps ==
  ASSUME Tame, HInv, NEW p \in Pix, Exchange(p)
  PROVE  HInv'
<1>1. p \in Pixmaps /\ p # Root /\ pix[p].flags = "scanout" /\ Root \in Pixmaps
  BY DEF Tame, Exchange, HInv, PixmapsBacked
<1> DEFINE Other(q) == IF q = Root THEN p ELSE IF q = p THEN Root ELSE q
<1>2. /\ pix[p] \in PixRec /\ pix[Root] \in PixRec /\ p \in Pix /\ Root \in Pix
      /\ pix \in [Pix -> PixRec \cup {None}]
  BY <1>1, PixmapFields DEF HInv, Typed
<1> DEFINE r == [pix[Root] EXCEPT !.bo = pix[p].bo, !.priv = pix[p].priv]
           t == [pix[p] EXCEPT !.bo = pix[Root].bo, !.priv = pix[Root].priv]
<1>3. /\ r \in PixRec /\ r # None /\ r.bo = pix[p].bo /\ r.priv = pix[p].priv
      /\ r.flags = pix[Root].flags
  <2>1. r \in PixRec /\ r.bo = pix[p].bo /\ r.priv = pix[p].priv /\ r.flags = pix[Root].flags
    BY <1>2 DEF PixRec
  <2> QED  BY <2>1, NoneAssumption
<1>4. /\ t \in PixRec /\ t # None /\ t.bo = pix[Root].bo /\ t.priv = pix[Root].priv
      /\ t.flags = pix[p].flags
  <2>1. t \in PixRec /\ t.bo = pix[Root].bo /\ t.priv = pix[Root].priv /\ t.flags = pix[p].flags
    BY <1>2 DEF PixRec
  <2> QED  BY <2>1, NoneAssumption
<1>5. pix' = [pix EXCEPT ![Root] = r, ![p] = t]
  BY <1>1, <1>2 DEF Exchange
<1> HIDE DEF r, t
<1>6. /\ pix' \in [Pix -> PixRec \cup {None}]
      /\ pix'[Root] = r /\ pix'[p] = t /\ \A q \in Pix \ {Root, p} : pix'[q] = pix[q]
  BY <1>1, <1>2, <1>3, <1>4, <1>5
<1>7. Pixmaps' = Pixmaps
  BY <1>1, <1>3, <1>4, <1>6 DEF Pixmaps
<1>8. \A q \in Pixmaps : /\ Other(q) \in Pixmaps
                         /\ pix'[q].bo = pix[Other(q)].bo /\ pix'[q].priv = pix[Other(q)].priv
                         /\ pix'[q].flags = pix[q].flags
                         /\ Other(Other(q)) = q
  BY <1>1, <1>3, <1>4, <1>6 DEF Pixmaps
<1>9. \A q \in Pixmaps : pix[q].flags = "wc" => Other(q) = q
  BY <1>1 DEF HInv, PixmapsBacked
<1> HIDE DEF Other
<1>10. UNCHANGED <<size, mapped, privs, bo_list, scanout>>
  BY DEF Exchange, mapVars, cacheVars
<1>11. /\ BosOf(bo_list)' = BosOf(bo_list) /\ PrivsOf(bo_list)' = PrivsOf(bo_list)
       /\ EntriesOf(bo_list)' = EntriesOf(bo_list) /\ Distinct(bo_list)' = Distinct(bo_list)
  BY <1>10, CacheOf
<1>12. Typed'
  BY <1>6, <1>10 DEF HInv, Typed
<1>13. PixmapsBacked'
  BY <1>7, <1>8, <1>9, <1>10 DEF HInv, PixmapsBacked
<1>14. PixmapsApart'
  BY <1>7, <1>8 DEF HInv, PixmapsApart
<1>15. CacheApart'
  BY <1>7, <1>8, <1>10, <1>11 DEF HInv, CacheApart
<1>16. BosAlive'
  BY <1>7, <1>8, <1>10, <1>11 DEF HInv, BosAlive
<1>17. PrivsAlive'
  BY <1>7, <1>8, <1>10, <1>11 DEF HInv, PrivsAlive
<1>18. MapsCurrent'
  BY <1>7, <1>8, <1>10, <1>11 DEF HInv, MapsCurrent
<1> QED  BY <1>12, <1>13, <1>14, <1>15, <1>16, <1>17, <1>18 DEF HInv

-----------------------------------------------------------------------------
(* The invariant is inductive. *)

\* The screen pixmap starts with scanout, alone.
LEMMA InitHolds ==
  ASSUME Init
  PROVE  IInv
<1>1. PICK b \in Bo, n \in PageCount :
        /\ scanout = b
        /\ size = [c \in Bo |-> IF c = b THEN n ELSE 0]
        /\ pix = [p \in Pix |-> IF p = Root THEN [bo |-> b, priv |-> None, flags |-> "none"]
                                ELSE None]
  BY DEF Init
<1> DEFINE r == [bo |-> b, priv |-> None, flags |-> "none"]
<1>2. r \in PixRec /\ r # None /\ r.bo = b /\ r.priv = None /\ r.flags = "none"
  BY NoneAssumption DEF PixRec
<1>3. pix = [p \in Pix |-> IF p = Root THEN r ELSE None]
  BY <1>1
<1> HIDE DEF r
<1>4. Pixmaps = {Root} /\ pix[Root] = r /\ pix \in [Pix -> PixRec \cup {None}]
  BY <1>2, <1>3, SetsAssumption DEF Pixmaps
<1>5. n \in Nat /\ n > 0
  BY SetsAssumption
<1>6. /\ bo_list = <<>> /\ privs = {} /\ mapped = [x \in Priv |-> None]
  BY DEF Init
<1>7. BosOf(bo_list) = {} /\ PrivsOf(bo_list) = {} /\ EntriesOf(bo_list) = {} /\ Distinct(bo_list)
  BY <1>6 DEF BosOf, PrivsOf, EntriesOf, Distinct
<1>8. Typed
  BY <1>1, <1>4, <1>5, <1>6 DEF Typed
<1>9. PixmapsBacked /\ PixmapsApart
  BY <1>2, <1>4 DEF PixmapsBacked, PixmapsApart
<1>10. CacheApart
  BY <1>7 DEF CacheApart
<1>11. BosAlive
  BY <1>1, <1>2, <1>4, <1>5, <1>7 DEF BosAlive
<1>12. PrivsAlive
  BY <1>2, <1>4, <1>6, <1>7, SetsAssumption DEF PrivsAlive
<1>13. MapsCurrent
  BY <1>2, <1>4, <1>7 DEF MapsCurrent
<1> QED  BY <1>8, <1>9, <1>10, <1>11, <1>12, <1>13 DEF IInv, HInv

\* Every step keeps it.
LEMMA NextKeeps ==
  ASSUME Tame, IInv, [Next]_vars
  PROVE  IInv'
<1> SUFFICES ASSUME phase' = "run" PROVE HInv'
  BY DEF IInv
<1>1. CASE UNCHANGED vars
  <2>1. UNCHANGED <<pix, size, mapped, privs, bo_list, scanout>> /\ phase = "run"
    BY <1>1 DEF vars, mapVars, cacheVars
  <2> QED  BY <2>1, NothingHappens DEF IInv
<1>2. ASSUME NEW p \in Pix, MapHit(p)
      PROVE  HInv'
  BY <1>2, MapHitKeeps DEF IInv, MapHit, MayMap
<1>3. ASSUME NEW p \in Pix, MapFails(p)
      PROVE  HInv'
  BY <1>3, MapFailsKeeps DEF IInv, MapFails, MayMap
<1>4. ASSUME NEW p \in Pix, NEW x \in Priv, MapMiss(p, x)
      PROVE  HInv'
  BY <1>4, MapMissKeeps DEF IInv, MapMiss, MayMap
<1>5. CASE Done
  BY <1>5, DoneKeeps DEF IInv, Done
<1>6. ASSUME NEW p \in Pix, NEW n \in PageCount, CreateCached(p, n)
      PROVE  HInv'
  BY <1>6, CreateCachedKeeps DEF IInv, CreateCached, Idle
<1>7. ASSUME NEW p \in Pix, NEW n \in PageCount, NEW b \in Bo,
             CreateNew(p, n, b, "wc") \/ CreateNew(p, n, b, "scanout")
      PROVE  HInv'
  BY <1>7, CreateNewKeeps DEF IInv, CreateNew, Idle
<1>8. ASSUME NEW p \in Pix, NEW n \in PageCount, NEW b \in Bo, Grow(p, n, b)
      PROVE  HInv'
  BY <1>8, GrowKeeps DEF IInv, Grow, Idle
<1>9. ASSUME NEW p \in Pix, DestroyToCache(p)
      PROVE  HInv'
  BY <1>9, DestroyToCacheKeeps DEF IInv, DestroyToCache, Idle
<1>10. ASSUME NEW p \in Pix, DestroyAndFree(p)
       PROVE  HInv'
  BY <1>10, DestroyAndFreeKeeps DEF IInv, DestroyAndFree, Idle
<1>11. ASSUME NEW p \in Pix, Exchange(p)
       PROVE  HInv'
  BY <1>11, ExchangeKeeps DEF IInv, Exchange, Idle
<1>12. ASSUME NEW n \in PageCount, NEW b \in Bo, ReplaceFront(n, b) \/ Resize(n, b)
       PROVE  HInv'
  BY <1>12, ReplaceFrontKeeps, ResizeKeeps DEF IInv, ReplaceFront, Resize, Idle
<1>13. CASE Rewrap
  BY <1>13, RewrapKeeps DEF IInv, Rewrap, Idle
<1>14. CASE Close
  BY <1>14 DEF Close
<1>15. CASE Stopped
  BY <1>1, <1>15 DEF Stopped
<1> QED  BY <1>1, <1>2, <1>3, <1>4, <1>5, <1>6, <1>7, <1>8, <1>9, <1>10, <1>11, <1>12, <1>13,
            <1>14, <1>15 DEF Next, Operation, Pixmap, Screen

\* While the server does what the driver was written for, every buffer and every
\* record has one owner, and records map the buffers they travel with.
THEOREM OwnersInvariant ==
  ASSUME Tame
  PROVE  Spec => []IInv
<1>1. Init => IInv
  BY InitHolds
<1>2. IInv /\ [Next]_vars => IInv'
  BY NextKeeps
<1> QED  BY <1>1, <1>2, PTL DEF Spec

-----------------------------------------------------------------------------
(* What follows from it. *)

\* A holder is a pixmap or an entry of the cache.
LEMMA HolderCases ==
  ASSUME NEW h \in Holders
  PROVE  \/ \E p \in Pixmaps : h = <<"pixmap", p>> /\ Held(h) = pix[p]
         \/ \E i \in 1 .. Len(bo_list) : h = <<"cache", i>> /\ Held(h) = bo_list[i]
  BY DEF Holders, Held

\* And all of them are.
LEMMA AllHold ==
  /\ \A p \in Pixmaps : <<"pixmap", p>> \in Holders /\ Held(<<"pixmap", p>>) = pix[p]
  /\ \A i \in 1 .. Len(bo_list) : <<"cache", i>> \in Holders /\ Held(<<"cache", i>>) = bo_list[i]
  BY DEF Holders, Held

\* Two holders hold different buffers and records.
LEMMA HoldersApart ==
  ASSUME HInv, NEW g \in Holders, NEW h \in Holders
  PROVE  /\ Held(g).bo = Held(h).bo => g = h
         /\ Held(g).priv = Held(h).priv /\ Held(g).priv # None => g = h
<1>1. CASE \E p, q \in Pixmaps : /\ g = <<"pixmap", p>> /\ Held(g) = pix[p]
                                 /\ h = <<"pixmap", q>> /\ Held(h) = pix[q]
  BY <1>1 DEF HInv, PixmapsApart
<1>2. CASE \E i, j \in 1 .. Len(bo_list) : /\ g = <<"cache", i>> /\ Held(g) = bo_list[i]
                                           /\ h = <<"cache", j>> /\ Held(h) = bo_list[j]
  BY <1>2 DEF HInv, CacheApart, Distinct
<1>3. ASSUME NEW p \in Pixmaps, NEW i \in 1 .. Len(bo_list)
      PROVE  pix[p].bo # bo_list[i].bo /\ (pix[p].priv = bo_list[i].priv => pix[p].priv = None)
  BY DEF HInv, CacheApart, BosOf, PrivsOf
<1> QED  BY <1>1, <1>2, <1>3, HolderCases

\* A set whose members are all equal has one member at most.
LEMMA AtMostOne ==
  ASSUME NEW S, \A g, h \in S : g = h
  PROVE  Cardinality(S) = IF S = {} THEN 0 ELSE 1
<1>1. CASE S = {}
  BY <1>1, FS_EmptySet
<1>2. CASE S # {}
  <2>1. PICK h \in S : TRUE  BY <1>2
  <2>2. S = {h}  BY <2>1
  <2> QED  BY <1>2, <2>2, FS_Singleton
<1> QED  BY <1>1, <1>2

\* The invariant implies each of the properties.
LEMMA ImpliesBuffersExist ==
  ASSUME IInv
  PROVE  BuffersExist
<1> SUFFICES ASSUME phase = "run"
             PROVE  /\ size[scanout] > 0
                    /\ \A h \in Holders : Held(h).bo # None => size[Held(h).bo] > 0
  BY DEF BuffersExist
<1>1. HInv
  BY DEF IInv
<1>2. size[scanout] > 0
  BY <1>1 DEF HInv, Typed, BosAlive
<1>3. \A p \in Pixmaps : size[pix[p].bo] > 0
  BY <1>1 DEF HInv, PixmapsBacked, BosAlive
<1>4. \A i \in 1 .. Len(bo_list) : size[bo_list[i].bo] > 0
  <2>1. BosOf(bo_list) \subseteq Bo
    BY <1>1, HeldByEntry DEF HInv, Typed
  <2>2. \A i \in 1 .. Len(bo_list) : bo_list[i].bo \in BosOf(bo_list)
    BY DEF BosOf
  <2> QED  BY <1>1, <2>1, <2>2 DEF HInv, BosAlive
<1> QED  BY <1>2, <1>3, <1>4, HolderCases

\* No two holders hold the same buffer, and one that is alive has a holder.
LEMMA ImpliesBuffersOwnedOnce ==
  ASSUME IInv
  PROVE  BuffersOwnedOnce
<1> SUFFICES ASSUME phase = "run", NEW b \in Bo, size[b] > 0
             PROVE  /\ Cardinality({h \in Holders : Held(h).bo = b}) <= 1
                    /\ b = scanout \/ \E h \in Holders : Held(h).bo = b
  BY DEF BuffersOwnedOnce
<1>1. HInv
  BY DEF IInv
<1>2. Cardinality({h \in Holders : Held(h).bo = b}) <= 1
  <2> DEFINE S == {h \in Holders : Held(h).bo = b}
  <2>1. \A g, h \in S : g = h  BY <1>1, HoldersApart
  <2> HIDE DEF S
  <2>2. Cardinality(S) = IF S = {} THEN 0 ELSE 1  BY <2>1, AtMostOne
  <2>3. Cardinality(S) <= 1  BY <2>2
  <2> QED  BY <2>3 DEF S
<1>3. b = scanout \/ b \in BosOf(bo_list) \/ \E p \in Pixmaps : pix[p].bo = b
  BY <1>1 DEF HInv, BosAlive
<1>4. b \in BosOf(bo_list) => \E i \in 1 .. Len(bo_list) : bo_list[i].bo = b
  BY DEF BosOf
<1> QED  BY <1>2, <1>3, <1>4, AllHold

\* Likewise for the records.
LEMMA ImpliesRecordsOwned ==
  ASSUME IInv
  PROVE  RecordsOwned
<1> SUFFICES ASSUME phase = "run", NEW x \in Priv
             PROVE  Cardinality({h \in Holders : Held(h).priv = x}) = IF x \in privs THEN 1 ELSE 0
  BY DEF RecordsOwned
<1> DEFINE S == {h \in Holders : Held(h).priv = x}
<1>1. HInv /\ x # None
  BY SetsAssumption DEF IInv
<1>2. Cardinality(S) = IF S = {} THEN 0 ELSE 1
  <2>1. \A g, h \in S : g = h  BY <1>1, HoldersApart
  <2> HIDE DEF S
  <2> QED  BY <2>1, AtMostOne
<1>3. x \in PrivsOf(bo_list) <=> \E i \in 1 .. Len(bo_list) : bo_list[i].priv = x
  BY <1>1 DEF PrivsOf
<1>4. x \in privs => S # {}
  <2> SUFFICES ASSUME x \in privs PROVE \E h \in Holders : Held(h).priv = x
    OBVIOUS
  <2>1. x \in PrivsOf(bo_list) \/ \E p \in Pixmaps : pix[p].priv = x
    BY <1>1 DEF HInv, PrivsAlive
  <2> QED  BY <1>3, <2>1, AllHold
<1>5. ASSUME NEW h \in Holders, Held(h).priv = x
      PROVE  x \in privs
  <2>1. x \in PrivsOf(bo_list) \/ \E p \in Pixmaps : pix[p].priv = x
    BY <1>3, <1>5, HolderCases
  <2> QED  BY <1>1, <2>1 DEF HInv, PrivsAlive
<1>6. x \notin privs => S = {}
  BY <1>5
<1> HIDE DEF S
<1>7. Cardinality(S) = IF x \in privs THEN 1 ELSE 0
  BY <1>2, <1>4, <1>6
<1> QED  BY <1>7 DEF S

\* And what a holder's record maps is what the holder has.
LEMMA ImpliesMappingsCurrent ==
  ASSUME IInv
  PROVE  MappingsCurrent
<1> SUFFICES ASSUME phase = "run", NEW h \in Holders, Held(h).priv # None
             PROVE  mapped[Held(h).priv] \in {None, Held(h).bo}
  BY DEF MappingsCurrent
<1>1. HInv
  BY DEF IInv
<1>2. \A p \in Pixmaps : pix[p].priv # None => mapped[pix[p].priv] \in {None, pix[p].bo}
  BY <1>1 DEF HInv, MapsCurrent
<1>3. \A i \in 1 .. Len(bo_list) :
        bo_list[i].priv # None => mapped[bo_list[i].priv] \in {None, bo_list[i].bo}
  BY <1>1 DEF HInv, MapsCurrent, EntriesOf
<1> QED  BY <1>2, <1>3, HolderCases

\* No buffer is deleted while a pixmap, the cache or the scanout refers to it:
\* OMAPDestroyPixmap, sgxBoCacheRemove and drmmode_reallocate_scanout delete only
\* what nothing else has.
THEOREM BuffersAlwaysExist ==
  ASSUME Tame
  PROVE  Spec => []BuffersExist
  BY OwnersInvariant, ImpliesBuffersExist, PTL

\* No buffer is leaked or owned twice, so none is deleted twice.
THEOREM BuffersAlwaysOwnedOnce ==
  ASSUME Tame
  PROVE  Spec => []BuffersOwnedOnce
  BY OwnersInvariant, ImpliesBuffersOwnedOnce, PTL

\* Every PrivPixmapRec has one owner as long as it is allocated, and none after.
THEOREM RecordsAlwaysOwned ==
  ASSUME Tame
  PROVE  Spec => []RecordsOwned
  BY OwnersInvariant, ImpliesRecordsOwned, PTL

\* A record that travels with a buffer, through exchanges and the cache, never
\* maps another.
THEOREM MappingsAlwaysCurrent ==
  ASSUME Tame
  PROVE  Spec => []MappingsCurrent
  BY OwnersInvariant, ImpliesMappingsCurrent, PTL
=============================================================================
