----------------------------- MODULE PvrBuffers -----------------------------
(***************************************************************************)
(* Who owns which buffer object, and which of them the GPU has mapped: the *)
(* pixmaps of src/src/omap_exa.c, the mapping list and the cache of freed  *)
(* buffers of src/src/omap_exa_pvr.c, the scanout buffer of                *)
(* src/src/drmmode_display.c, and the exchange of buffers a swap of        *)
(* src/src/omap_dri2.c ends with.                                          *)
(*                                                                         *)
(* The X server is single threaded: each call into the driver is one       *)
(* action.  Sizes are in pages, as both the cache and the allocation of    *)
(* buffers round them up.                                                  *)
(***************************************************************************)
EXTENDS Integers, FiniteSets, Sequences

CONSTANTS
  Pix,          \* addresses of OMAPPixmapPrivRec
  Root,         \* the one of the screen pixmap
  Bo,           \* addresses of struct omap_bo
  Priv,         \* addresses of PrivPixmapRec
  PageCount,    \* the sizes of buffers
  MaxMaps,      \* PVR_MAX_BO_MAPS
  CacheSize,    \* PVR_BO_CACHE_SIZE
  HasDmm,       \* has_dmm(pOMAP)
  LowestFirst,  \* the lowest free address is allocated, instead of any
  None,         \* NULL

  (* what the server may do; a run says which of these it allows *)
  MayResizeFlipped,  \* RandR resizes while the screen pixmap has been flipped
  MayFlipPlain       \* a window becomes flippable between GetBuffers and its swap

ASSUME SetsAssumption ==
  /\ Root \in Pix
  /\ Bo \subseteq Nat /\ Priv \subseteq Nat
  /\ PageCount \subseteq Nat \ {0} /\ PageCount # {}
  /\ \A S \in {Pix, Bo, Priv} : None \notin S

ASSUME NumbersAssumption ==
  /\ MaxMaps \in Nat \ {0} /\ CacheSize \in Nat
  /\ {HasDmm, LowestFirst, MayResizeFlipped, MayFlipPlain} \subseteq BOOLEAN

PixRec == [bo : Bo \cup {None}, priv : Priv \cup {None}, flags : {"none", "wc", "scanout"}]
Entry  == [bo : Bo, priv : Priv \cup {None}]

ASSUME NoneAssumption == None \notin PixRec

VARIABLES
  pix,           \* the bo, priv and flags of a pixmap, or None
  size,          \* omap_bo_size; 0 is a free address
  mapped,        \* the buffer a PrivPixmapRec's meminfo maps, or None
  privs,         \* the PrivPixmapRecs that are allocated
  map_list,      \* pPVR->map_list, least recently used first
  map_count,     \* pPVR->map_count
  bo_list,       \* pPVR->bo_list, oldest first
  bo_count,      \* pPVR->bo_count
  bo_size,       \* pPVR->bo_size
  scanout,       \* pOMAP->scanout
  scanout_priv,  \* pPVR->scanout_priv
  operands,      \* pixmaps of the GPU operation under way
  phase          \* "run" or "closed"

mapVars   == <<mapped, privs, map_list, map_count, scanout_priv>>
cacheVars == <<bo_list, bo_count, bo_size>>

vars == <<pix, size, mapVars, cacheVars, scanout, operands, phase>>

-----------------------------------------------------------------------------
Pixmaps == {p \in Pix : pix[p] # None}

FreeBos == {b \in Bo : size[b] = 0}

\* x may be allocated from the free ones.
Fresh(x, free) == x \in free /\ (LowestFirst => \A y \in free : x <= y)

\* No GPU operation is under way, so the server may call anything.
Idle == phase = "run" /\ operands = {}

\* The pages of a list of cache entries.
Total(entries) ==
  LET sum[i \in 0..Len(entries)] == IF i = 0 THEN 0 ELSE sum[i - 1] + size[entries[i].bo]
  IN  sum[Len(entries)]

-----------------------------------------------------------------------------
(* Mappings *)

\* xorg_list_del of each member of gone that is in list.
Delist(list, gone) ==
  LET kept[i \in 0..Len(list)] ==
        IF i = 0 THEN <<>>
        ELSE IF list[i] \in gone THEN kept[i - 1] ELSE Append(kept[i - 1], list[i])
  IN  kept[Len(list)]

\* The records of gone are unmapped and freed; those of listed leave the list.
Discard(gone, listed) ==
  /\ map_list' = Delist(map_list, listed)
  /\ map_count' = map_count - Cardinality(listed)
  /\ mapped' = [x \in Priv |-> IF x \in gone THEN None ELSE mapped[x]]
  /\ privs' = privs \ gone

\* Mutant: map_count is not decremented.
UnmapUncounted(gone) ==
  LET listed == {x \in gone \ {scanout_priv} : mapped[x] # None}
  IN  /\ map_list' = Delist(map_list, listed)
      /\ mapped' = [x \in Priv |-> IF x \in gone THEN None ELSE mapped[x]]
      /\ privs' = privs \ gone
      /\ scanout_priv' = IF scanout_priv \in gone THEN None ELSE scanout_priv
      /\ UNCHANGED map_count

\* sgxUnmapPixmapBo of a pixmap with record gone (empty when it has none): the
\* record that is scanout_priv is forgotten, any other that is mapped is listed.
Unmap(gone) ==
  /\ Discard(gone, {x \in gone \ {scanout_priv} : mapped[x] # None})
  /\ scanout_priv' = IF scanout_priv \in gone THEN None ELSE scanout_priv

\* sgxMapUnmapLRU: the least recently used mapping goes when there are too many.
Victims == IF map_count > MaxMaps /\ map_list # <<>> THEN {Head(map_list)} ELSE {}

Spared(victims) == Delist(map_list, victims)

IsIn(x, list) == \E i \in 1..Len(list) : list[i] = x

\* Mutant: a record that is in the list already stays where it is.
MarkUsedOnce(list, x) == IF IsIn(x, list) THEN list ELSE Append(list, x)

\* sgxMapMarkUsed: x becomes the most recently used.
MarkUsed(list, x) == Append(Delist(list, {x}), x)

\* Mutant: a record that joins the list is not counted.
TrackUncounted(p, x, victims) ==
  /\ map_count' = map_count - Cardinality(victims)
  /\ IF pix[p].bo = scanout
     THEN map_list' = Spared(victims) /\ scanout_priv' = x
     ELSE map_list' = MarkUsed(Spared(victims), x) /\ UNCHANGED scanout_priv

\* Mutant: the mapping of the scanout buffer goes to the list as well.
TrackScanout(p, x, victims) ==
  /\ map_list' = MarkUsed(Spared(victims), x)
  /\ map_count' = Len(MarkUsed(Spared(victims), x))
  /\ scanout_priv' = IF pix[p].bo = scanout THEN x ELSE scanout_priv

\* The victims leave the list; the record x of p is remembered apart when it
\* maps the scanout buffer, and joins the list otherwise.
Track(p, x, victims) ==
  LET list == Spared(victims)
  IN  IF pix[p].bo = scanout
      THEN /\ map_list' = list
           /\ map_count' = map_count - Cardinality(victims)
           /\ scanout_priv' = x
      ELSE /\ map_list' = MarkUsed(list, x)
           /\ map_count' = map_count - Cardinality(victims) + (IF IsIn(x, list) THEN 0 ELSE 1)
           /\ UNCHANGED scanout_priv

\* A GPU operation maps its destination, then its source.
MayMap(p) ==
  /\ phase = "run"
  /\ p \in Pixmaps \ operands
  /\ pix[p].bo # None
  /\ Cardinality(operands) < 2

HasMapping(p) == pix[p].priv # None /\ mapped[pix[p].priv] # None

MapHit(p) ==
  /\ MayMap(p)
  /\ HasMapping(p)
  /\ Track(p, pix[p].priv, {})
  /\ operands' = operands \cup {p}
  /\ UNCHANGED <<pix, size, mapped, privs, cacheVars, scanout, phase>>

\* The record the pixmap has, or a new one, gets a mapping.
MapMiss(p, x) ==
  /\ MayMap(p)
  /\ ~HasMapping(p)
  /\ x = pix[p].priv \/ (pix[p].priv = None /\ Fresh(x, Priv \ privs))
  /\ pix' = [pix EXCEPT ![p].priv = x]
  /\ privs' = privs \cup {x}
  /\ mapped' = [y \in Priv |-> IF y = x THEN pix[p].bo
                               ELSE IF y \in Victims THEN None ELSE mapped[y]]
  /\ Track(p, x, Victims)
  /\ operands' = operands \cup {p}
  /\ UNCHANGED <<size, cacheVars, scanout, phase>>

\* Mutant: pixmapPriv->priv is left pointing at the freed record.
MapFailsDangling(p) ==
  /\ MayMap(p)
  /\ ~HasMapping(p)
  /\ privs' = privs \ {pix[p].priv}
  /\ mapped' = [y \in Priv |-> IF y \in Victims THEN None ELSE mapped[y]]
  /\ map_list' = Spared(Victims)
  /\ map_count' = map_count - Cardinality(Victims)
  /\ operands' = {}
  /\ UNCHANGED <<pix, size, cacheVars, scanout, scanout_priv, phase>>

\* PVRMapBo fails: the record is freed, and the operation is not accelerated
\* (sgxPrepareCopy may map its source all the same, as an operation of its own).
MapFails(p) ==
  /\ MayMap(p)
  /\ ~HasMapping(p)
  /\ pix' = [pix EXCEPT ![p].priv = None]
  /\ privs' = privs \ {pix[p].priv}
  /\ mapped' = [y \in Priv |-> IF y \in Victims THEN None ELSE mapped[y]]
  /\ map_list' = Spared(Victims)
  /\ map_count' = map_count - Cardinality(Victims)
  /\ operands' = {}
  /\ UNCHANGED <<size, cacheVars, scanout, scanout_priv, phase>>

Done ==
  /\ operands # {}
  /\ operands' = {}
  /\ UNCHANGED <<pix, size, mapVars, cacheVars, scanout, phase>>

-----------------------------------------------------------------------------
(* The cache of freed buffers *)

\* Mutant: one entry at most is evicted.
EvictionsOne(entries, pages) == IF pages > CacheSize THEN 1 ELSE 0

\* How many of the oldest entries go, given what pPVR->bo_size has come to: each
\* that those before it leave in too large a cache.
Evictions(entries, pages) ==
  Cardinality({k \in 1..Len(entries) :
                 \A j \in 0..(k - 1) : pages - Total(SubSeq(entries, 1, j)) > CacheSize})

\* sgxBoCachePut of what p has: the entries, their pages, and the oldest that
\* have to go.
Enlarged(p) == Append(bo_list, [bo |-> pix[p].bo, priv |-> pix[p].priv])

PagesWith(p) == bo_size + size[pix[p].bo]

Evicted(p) == SubSeq(Enlarged(p), 1, Evictions(Enlarged(p), PagesWith(p)))

Kept(p) == SubSeq(Enlarged(p), Len(Evicted(p)) + 1, Len(Enlarged(p)))

BosOf(entries) == {entries[i].bo : i \in 1..Len(entries)}

PrivsOf(entries) == {entries[i].priv : i \in 1..Len(entries)} \ {None}

\* sgxBoCacheRemove: whatever is mapped is taken to be in the list.
Uncache(entries) ==
  LET gone == PrivsOf(entries)
  IN  Discard(gone, {x \in gone : mapped[x] # None}) /\ UNCHANGED scanout_priv

\* Buffers whose size sgxBoCacheGet accepts.
Hits(entries, n) == {i \in 1..Len(entries) : size[entries[i].bo] = n}

First(S) == {i \in S : \A j \in S : i <= j}

Without(entries, i) == SubSeq(entries, 1, i - 1) \o SubSeq(entries, i + 1, Len(entries))

-----------------------------------------------------------------------------
(* Pixmaps come, grow and go *)

\* CreatePixmap and the first ModifyPixmapHeader of a pixmap without hints: a
\* buffer of the right size comes from the cache,
CreateCached(p, n) ==
  /\ Idle /\ p \notin Pixmaps
  /\ \E i \in First(Hits(bo_list, n)) :
       /\ pix' = [pix EXCEPT ![p] = [bo |-> bo_list[i].bo, priv |-> bo_list[i].priv,
                                     flags |-> "wc"]]
       /\ bo_list' = Without(bo_list, i)
       /\ bo_count' = bo_count - 1
       /\ bo_size' = bo_size - n
  /\ UNCHANGED <<size, mapVars, scanout, operands, phase>>

\* or from the kernel.
CreateNew(p, n, b, flags) ==
  /\ Idle /\ p \notin Pixmaps
  /\ flags = "wc" => Hits(bo_list, n) = {}
  /\ Fresh(b, FreeBos)
  /\ size' = [size EXCEPT ![b] = n]
  /\ pix' = [pix EXCEPT ![p] = [bo |-> b, priv |-> None, flags |-> flags]]
  /\ UNCHANGED <<mapVars, cacheVars, scanout, operands, phase>>

\* sgxModifyPixmapHeader of a pixmap whose buffer is too small: it goes to the
\* cache, and the pixmap gets a larger one, which the cache may have.
Grow(p, n, b) ==
  /\ Idle /\ p \in Pixmaps
  /\ pix[p].flags = "wc" /\ pix[p].bo # None
  /\ size[pix[p].bo] < n
  /\ Uncache(Evicted(p))
  /\ LET hits == Hits(Kept(p), n)
         freed == BosOf(Evicted(p))
         pages == PagesWith(p) - Total(Evicted(p))
     IN  \/ \E i \in First(hits) :
            /\ b = Kept(p)[i].bo
            /\ pix' = [pix EXCEPT ![p] = [bo |-> b, priv |-> Kept(p)[i].priv, flags |-> "wc"]]
            /\ bo_list' = Without(Kept(p), i)
            /\ bo_count' = bo_count - Len(Evicted(p))
            /\ bo_size' = pages - n
            /\ size' = [c \in Bo |-> IF c \in freed THEN 0 ELSE size[c]]
         \/ /\ hits = {}
            /\ Fresh(b, FreeBos \cup freed)
            /\ pix' = [pix EXCEPT ![p] = [bo |-> b, priv |-> None, flags |-> "wc"]]
            /\ bo_list' = Kept(p)
            /\ bo_count' = bo_count + 1 - Len(Evicted(p))
            /\ bo_size' = pages
            /\ size' = [c \in Bo |-> IF c = b THEN n ELSE IF c \in freed THEN 0 ELSE size[c]]
  /\ UNCHANGED <<scanout, operands, phase>>

\* sgxDestroyPixmap of a pixmap without hints: the cache takes ownership.
DestroyToCache(p) ==
  /\ Idle /\ p \in Pixmaps \ {Root}
  /\ pix[p].flags = "wc"
  /\ bo_list' = Kept(p)
  /\ bo_count' = bo_count + 1 - Len(Evicted(p))
  /\ bo_size' = PagesWith(p) - Total(Evicted(p))
  /\ Uncache(Evicted(p))
  /\ size' = [c \in Bo |-> IF c \in BosOf(Evicted(p)) THEN 0 ELSE size[c]]
  /\ pix' = [pix EXCEPT ![p] = None]
  /\ UNCHANGED <<scanout, operands, phase>>

\* Mutant: the scanout buffer is deleted with its pixmap.
DeletesAny(p) == {pix[p].bo}

\* Mutant: the buffer is left to whoever comes next.
DeletesNone(p) == {}

\* OMAPDestroyPixmap: "scanout buffer is deleted elsewhere".
Deletes(p) == {pix[p].bo} \ {scanout}

\* sgxDestroyPixmap of a scanout-capable pixmap.
DestroyAndFree(p) ==
  /\ Idle /\ p \in Pixmaps \ {Root}
  /\ pix[p].flags # "wc"
  /\ Unmap({pix[p].priv} \ {None})
  /\ size' = [c \in Bo |-> IF c \in Deletes(p) THEN 0 ELSE size[c]]
  /\ pix' = [pix EXCEPT ![p] = None]
  /\ UNCHANGED <<cacheVars, scanout, operands, phase>>

-----------------------------------------------------------------------------
(* The screen pixmap *)

\* Mutant: the buffers are exchanged, their mappings are not.
ExchangeBoOnly(p) ==
  /\ Idle /\ p \in Pixmaps \ {Root}
  /\ pix[p].flags = "scanout" \/ MayFlipPlain
  /\ pix' = [pix EXCEPT ![Root].bo = pix[p].bo, ![p].bo = pix[Root].bo]
  /\ UNCHANGED <<size, mapVars, cacheVars, scanout, operands, phase>>

\* exchangebufs of the screen pixmap and a back buffer, when a full-screen swap
\* flips or exchanges; the flags stay where they are.  The back buffer is capable
\* of scanout when its window could flip at GetBuffers already.
Exchange(p) ==
  /\ Idle /\ p \in Pixmaps \ {Root}
  /\ pix[p].flags = "scanout" \/ MayFlipPlain
  /\ pix' = [pix EXCEPT ![Root] = [@ EXCEPT !.bo = pix[p].bo, !.priv = pix[p].priv],
                        ![p]    = [@ EXCEPT !.bo = pix[Root].bo, !.priv = pix[Root].priv]]
  /\ UNCHANGED <<size, mapVars, cacheVars, scanout, operands, phase>>

\* OMAPDRI2CreateBuffer of a front buffer without DMM: the screen pixmap gets a
\* new scanout-capable buffer, and its old one dies with the pixmap that brought
\* the new one.
ReplaceFront(n, b) ==
  /\ Idle /\ ~HasDmm
  /\ pix[Root].bo # scanout
  /\ Fresh(b, FreeBos)
  /\ pix' = [pix EXCEPT ![Root].bo = b, ![Root].priv = None]
  /\ Unmap({pix[Root].priv} \ {None})
  /\ size' = [c \in Bo |-> IF c = b THEN n ELSE IF c \in Deletes(Root) THEN 0 ELSE size[c]]
  /\ UNCHANGED <<cacheVars, scanout, operands, phase>>

\* ModifyPixmapHeader of the screen pixmap, wrapping it around the scanout
\* buffer: its mapping goes, its old buffer is dropped as it is.
WrapScanout ==
  /\ pix' = [pix EXCEPT ![Root].bo = scanout', ![Root].priv = None]
  /\ Unmap({pix[Root].priv} \ {None})

\* drmmode_reallocate_scanout.
Resize(n, b) ==
  /\ Idle
  /\ MayResizeFlipped \/ pix[Root].bo = scanout
  /\ Fresh(b, FreeBos \cup {scanout})
  /\ size' = [c \in Bo |-> IF c = b THEN n ELSE IF c = scanout THEN 0 ELSE size[c]]
  /\ scanout' = b
  /\ WrapScanout
  /\ UNCHANGED <<cacheVars, operands, phase>>

\* drmmode_reallocate_scanout when neither size nor rotation has changed.
Rewrap ==
  /\ Idle
  /\ MayResizeFlipped \/ pix[Root].bo = scanout
  /\ UNCHANGED scanout
  /\ WrapScanout
  /\ UNCHANGED <<size, cacheVars, operands, phase>>

\* CloseScreen of the PVR module, then OMAPUnmapMem; the server has destroyed
\* every pixmap but the screen's by then.
Close ==
  /\ Idle
  /\ Pixmaps = {Root}
  /\ phase' = "closed"
  /\ LET cached == PrivsOf(bo_list)
         gone   == cached \cup ({scanout_priv} \ {None})
     IN  Discard(gone, {x \in cached : mapped[x] # None})
  /\ scanout_priv' = None
  /\ bo_list' = <<>>
  /\ bo_count' = bo_count - Len(bo_list)
  /\ bo_size' = bo_size - Total(bo_list)
  /\ size' = [c \in Bo |-> IF c \in BosOf(bo_list) \cup {scanout} THEN 0 ELSE size[c]]
  /\ scanout' = None
  /\ UNCHANGED <<pix, operands>>

\* Nothing more happens to a screen that is closed.
Stopped == phase = "closed" /\ UNCHANGED vars

-----------------------------------------------------------------------------
Init ==
  /\ \E b \in Bo, n \in PageCount :
       /\ Fresh(b, Bo)
       /\ scanout = b
       /\ size = [c \in Bo |-> IF c = b THEN n ELSE 0]
       /\ pix = [p \in Pix |-> IF p = Root THEN [bo |-> b, priv |-> None, flags |-> "none"]
                               ELSE None]
  /\ mapped = [x \in Priv |-> None]
  /\ privs = {}
  /\ map_list = <<>> /\ map_count = 0
  /\ bo_list = <<>> /\ bo_count = 0 /\ bo_size = 0
  /\ scanout_priv = None
  /\ operands = {}
  /\ phase = "run"

Operation ==
  \/ \E p \in Pix : MapHit(p) \/ MapFails(p) \/ \E x \in Priv : MapMiss(p, x)
  \/ Done

Pixmap ==
  \E p \in Pix, n \in PageCount :
    \/ CreateCached(p, n)
    \/ \E b \in Bo : CreateNew(p, n, b, "wc") \/ CreateNew(p, n, b, "scanout") \/ Grow(p, n, b)
    \/ DestroyToCache(p)
    \/ DestroyAndFree(p)

Screen ==
  \/ \E p \in Pix : Exchange(p)
  \/ \E n \in PageCount, b \in Bo : ReplaceFront(n, b) \/ Resize(n, b)
  \/ Rewrap
  \/ Close

Next == Operation \/ Pixmap \/ Screen \/ Stopped

Spec == Init /\ [][Next]_vars

-----------------------------------------------------------------------------
(* Properties *)

\* The types of the variables; the three counters are unsigned in the code, and
\* none ever wraps below zero.
TypeOK ==
  /\ pix \in [Pix -> PixRec \cup {None}]
  /\ size \in [Bo -> Nat]
  /\ mapped \in [Priv -> Bo \cup {None}]
  /\ privs \in SUBSET Priv
  /\ map_list \in Seq(Priv)
  /\ map_count \in Nat
  /\ bo_list \in Seq(Entry)
  /\ bo_count \in Nat
  /\ bo_size \in Nat
  /\ scanout \in Bo \cup {None}
  /\ scanout_priv \in Priv \cup {None}
  /\ operands \in SUBSET Pix
  /\ phase \in {"run", "closed"}

\* Pairs of a buffer and its record: the pixmaps' and the cache's.
Holders == {<<"pixmap", p>> : p \in Pixmaps} \cup {<<"cache", i>> : i \in 1..Len(bo_list)}

Held(h) == IF h[1] = "pixmap" THEN pix[h[2]] ELSE bo_list[h[2]]

\* The list of mappings holds each mapped record once, except the scanout's;
\* map_count is its length, and the LRU keeps it within one of its limit.
MapsListed ==
  /\ {map_list[i] : i \in 1..Len(map_list)}
       = {x \in privs : mapped[x] # None} \ {scanout_priv}
  /\ \A i, j \in 1..Len(map_list) : map_list[i] = map_list[j] => i = j
  /\ map_count = Len(map_list)
  /\ map_count <= MaxMaps + 1

\* "never add scanout mappings to the list": the scanout buffer's mapping is
\* the one scanout_priv remembers, and no other mapping is.
ScanoutTracked ==
  \A h \in Holders : Held(h).priv # None =>
    (Held(h).priv = scanout_priv <=> Held(h).bo = scanout /\ mapped[Held(h).priv] # None)

\* The cache's counters are those of its list, and it stays within its limit.
CacheAccounted ==
  /\ bo_count = Len(bo_list)
  /\ bo_size = Total(bo_list)
  /\ bo_size <= CacheSize

\* Every mapping record belongs to one pixmap or one cache entry, and none that
\* is referred to has been freed.
RecordsOwned ==
  phase = "run" =>
    \A x \in Priv :
      Cardinality({h \in Holders : Held(h).priv = x}) = IF x \in privs THEN 1 ELSE 0

\* "scanout buffer is deleted elsewhere" (OMAPDestroyPixmap): every buffer a
\* pixmap or the cache refers to has yet to be deleted, the scanout's too.
BuffersExist ==
  phase = "run" =>
    /\ size[scanout] > 0
    /\ \A h \in Holders : Held(h).bo # None => size[Held(h).bo] > 0

\* No buffer is leaked, nor owned twice, so that none is deleted twice.
BuffersOwnedOnce ==
  phase = "run" =>
    \A b \in Bo : size[b] > 0 =>
      /\ Cardinality({h \in Holders : Held(h).bo = b}) <= 1
      /\ b = scanout \/ \E h \in Holders : Held(h).bo = b

\* Whatever exchanges, caching and reuse a buffer went through, the mapping that
\* travels with it is of that very buffer.
MappingsCurrent ==
  phase = "run" =>
    \A h \in Holders : Held(h).priv # None => mapped[Held(h).priv] \in {None, Held(h).bo}

\* Mapping the second pixmap of an operation never unmaps the first.
OperandsMapped == \A p \in operands : HasMapping(p)
=============================================================================
