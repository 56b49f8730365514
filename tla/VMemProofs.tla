----------------------------- MODULE VMemProofs -----------------------------
(***************************************************************************)
(* Proofs about VMem.tla, for any page size, number of frames and layout   *)
(* of the page table entries, any number of processes and symbols.         *)
(***************************************************************************)
EXTENDS VMem, SequenceLemmas

-----------------------------------------------------------------------------
(* addresses, pages and entries                                            *)

LEMMA Layout ==
  /\ PageSz \in Nat \ {0} /\ PgnRange \in Nat \ {0} /\ FpnRange \in Nat \ {0}
  /\ SwpUnit \in Nat \ {0} /\ Entries \in Nat \ {0} /\ MaxPages \in Nat \ {0}
  /\ RamFrames \in Nat /\ SwpFrames \in Nat
BY PageTableAssumption, VMemAssumption

(***************************************************************************)
(* inc_vma_limit rounds up: the pages it maps hold what was asked for.     *)
(***************************************************************************)
LEMMA PagesForCovers ==
  ASSUME NEW size \in Nat
  PROVE  PagesFor(size) \in Nat /\ PagesFor(size) * PageSz \in Nat
         /\ size <= PagesFor(size) * PageSz
<1> DEFINE b == PageSz
<1>1. b \in Nat \ {0}
  BY Layout
<1> HIDE DEF b
<1>2. (size + b - 1) \div b \in Nat /\ size <= ((size + b - 1) \div b) * b
  BY <1>1
<1>3. \A m, n \in Nat : m * n \in Nat
  OBVIOUS
<1> QED BY <1>1, <1>2, <1>3 DEF PagesFor, b

(***************************************************************************)
(* PAGING_PGN of an address below the bound is a page below the bound.     *)
(***************************************************************************)
LEMMA PgnIsPage ==
  ASSUME NEW a \in Addrs
  PROVE  Pgn(a) \in Pages /\ Offst(a) \in 0 .. PageSz - 1
<1>1. ASSUME NEW b \in Nat \ {0}, NEW n \in Nat, NEW m \in Nat \ {0}, NEW x \in Nat, x < n * b
      PROVE  (x \div b) % m \in Nat /\ (x \div b) % m < n /\ x % b \in 0 .. b - 1
  <2>1. x \div b \in Nat /\ x \div b < n
    BY <1>1
  <2>2. \A y \in Nat : y % m \in Nat /\ y % m <= y
    OBVIOUS
  <2>3. x % b \in Nat /\ x % b < b
    OBVIOUS
  <2> QED BY <2>1, <2>2, <2>3
<1>2. a \in Nat /\ a < MaxPages * PageSz
  BY Layout DEF Addrs
<1>3. Pgn(a) \in Nat /\ Pgn(a) < MaxPages /\ Offst(a) \in 0 .. PageSz - 1
  BY <1>1, <1>2, Layout DEF Pgn, Offst
<1> QED BY <1>3, Layout DEF Pages

(***************************************************************************)
(* The pages that vmap_page_range maps from sbrk on.                       *)
(***************************************************************************)
LEMMA NewPages ==
  ASSUME NEW s \in Nat, NEW n \in Nat, s + n * PageSz <= MaxPages * PageSz
  PROVE  s \div PageSz \in Nat /\ (s \div PageSz) + n <= MaxPages
         /\ \A g \in s \div PageSz .. (s \div PageSz) + n - 1 : g \in Pages
<1>1. ASSUME NEW b \in Nat \ {0}, NEW m \in Nat, s + n * b <= m * b
      PROVE  s \div b \in Nat /\ (s \div b) + n <= m
  BY <1>1
<1>2. s \div PageSz \in Nat /\ (s \div PageSz) + n <= MaxPages
  BY <1>1, Layout
<1> QED BY <1>2, Layout DEF Pages

(***************************************************************************)
(* The five indices of get_pd_from_pagenum tell all pages apart, as long   *)
(* as the pages fit under two levels of tables (512 * 512 entries for      *)
(* PAGING_MAX_PGN = 16384 pages).                                          *)
(***************************************************************************)
LEMMA PathsDiffer ==
  ASSUME MaxPages <= Entries * Entries, NEW g \in Pages, NEW h \in Pages,
         PdFromPagenum(g) = PdFromPagenum(h)
  PROVE  g = h
<1>1. g \in Nat /\ h \in Nat /\ g < Entries * Entries /\ h < Entries * Entries
  <2>1. Entries * Entries \in Nat
    BY Layout
  <2> QED BY <2>1, Layout DEF Pages
<1>2. /\ (g \div Entries) % Entries = (h \div Entries) % Entries
      /\ g % Entries = h % Entries
  BY DEF PdFromPagenum
<1>3. ASSUME NEW e \in Nat \ {0}, NEW x \in Nat, NEW y \in Nat, x < e * e, y < e * e,
             (x \div e) % e = (y \div e) % e, x % e = y % e
      PROVE  x = y
  <2>1. ASSUME NEW z \in Nat, z < e * e PROVE (z \div e) % e = z \div e
    BY <2>1
  <2>2. x \div e = y \div e
    BY <1>3, <2>1
  <2> QED BY <1>3, <2>2
<1> QED BY <1>1, <1>2, <1>3, Layout

LEMMA PathType == \A g \in Pages : PdFromPagenum(g) \in Paths
BY DEF Paths

LEMMA EmptyPte == ZeroPte \in Pte /\ ~ZeroPte.present /\ ZeroPte.val = 0 /\ ~ZeroPte.swapped
BY DEF ZeroPte, Pte

(***************************************************************************)
(* pte_set_fpn and pte_set_swap.                                           *)
(***************************************************************************)
LEMMA FpnEntry ==
  ASSUME NEW pte \in Pte, NEW f \in Nat
  PROVE  /\ Fpn(pte) \in Nat /\ Swp(pte) \in Nat
         /\ WithFpn(pte, f) \in Pte /\ WithFpn(pte, f).present /\ ~WithFpn(pte, f).swapped
         /\ f < FpnRange => Fpn(WithFpn(pte, f)) = f
<1>1. ASSUME NEW v \in Nat, NEW F \in Nat \ {0}
      PROVE  /\ v % F \in Nat /\ v \div F \in Nat /\ (v - (v % F)) + (f % F) \in Nat
             /\ f < F => ((v - (v % F)) + (f % F)) % F = f
  <2>1. v % F \in Nat /\ v \div F \in Nat /\ (v - (v % F)) + (f % F) \in Nat
    OBVIOUS
  <2>2. f < F => ((v - (v % F)) + (f % F)) % F = f
    OBVIOUS
  <2> QED BY <2>1, <2>2
<1>2. pte.val \in Nat
  BY DEF Pte
<1>3. Fpn(pte) \in Nat /\ Swp(pte) \in Nat
  BY <1>1, <1>2, Layout DEF Fpn, Swp
<1>4. WithFpn(pte, f).val \in Nat
  BY <1>1, <1>2, Layout DEF WithFpn, Fpn
<1>5. f < FpnRange => Fpn(WithFpn(pte, f)) = f
  BY <1>1, <1>2, Layout DEF WithFpn, Fpn
<1>6. WithFpn(pte, f) \in Pte /\ WithFpn(pte, f).present /\ ~WithFpn(pte, f).swapped
  BY <1>4 DEF WithFpn, Pte
<1> QED BY <1>3, <1>5, <1>6

LEMMA SwapEntry ==
  ASSUME NEW pte \in Pte, NEW s \in Nat
  PROVE  /\ WithSwap(pte, s) \in Pte /\ WithSwap(pte, s).present /\ WithSwap(pte, s).swapped
         /\ Swp(WithSwap(pte, s)) = s
<1>1. ASSUME NEW u \in Nat \ {0} PROVE s * u \in Nat /\ (s * u) \div u = s
  BY <1>1
<1>2. s * SwpUnit \in Nat /\ (s * SwpUnit) \div SwpUnit = s
  BY <1>1, Layout
<1> QED BY <1>2 DEF WithSwap, Pte, Swp
-----------------------------------------------------------------------------
(* lists of regions and of pages                                           *)

(***************************************************************************)
(* get_free_vmrg_area returns a region of the list that is large enough.   *)
(***************************************************************************)
LEMMA FirstFitFinds ==
  ASSUME NEW p, NEW size, NEW list \in Seq(Region), vm_freerg_list[p] = list,
         FirstFit(p, size) # 0
  PROVE  FirstFit(p, size) \in 1 .. Len(list) /\ Fits(list[FirstFit(p, size)], size)
<1> DEFINE I == {k \in 1 .. Len(list) : Fits(list[k], size)}
<1>1. FirstFit(p, size) = IF I # {} THEN Min(I) ELSE 0
  BY DEF FirstFit, SelectInSeq
<1>2. Len(list) \in Nat /\ I \subseteq 1 .. Len(list)
  OBVIOUS
<1>3. Min(I) \in I
  <2>1. I # {}
    BY <1>1
  <2> HIDE DEF I
  <2> QED BY <1>2, <2>1, SearchFinds
<1> QED BY <1>1, <1>3

LEMMA ShrunkType ==
  ASSUME NEW list \in Seq(Region), NEW k \in 1 .. Len(list), NEW size \in Nat
  PROVE  Shrunk(list, k, size) \in Seq(Region)
<1>1. CASE list[k].start + size < list[k].end
  <2>1. list[k] \in Region
    OBVIOUS
  <2>4. [list[k] EXCEPT !.start = @ + size] \in Region
    <3>1. list[k].start \in Nat /\ list[k].start + size \in Nat /\ list[k].end \in Nat
      BY <2>1 DEF Region
    <3>2. [list[k] EXCEPT !.start = @ + size] = [start |-> list[k].start + size, end |-> list[k].end]
      BY <2>1 DEF Region
    <3> QED BY <3>1, <3>2 DEF Region
  <2>2. Shrunk(list, k, size) = [list EXCEPT ![k] = [list[k] EXCEPT !.start = @ + size]]
    BY <1>1 DEF Shrunk
  <2>3. \A e \in Region : [list EXCEPT ![k] = e] \in Seq(Region)
    OBVIOUS
  <2> QED BY <2>4, <2>2, <2>3
<1>2. CASE ~(list[k].start + size < list[k].end)
  BY <1>2, RemoveAtProperties DEF Shrunk
<1> QED BY <1>1, <1>2

(***************************************************************************)
(* find_victim_page takes the oldest page off the FIFO.                    *)
(***************************************************************************)
LEMMA FrontProperties ==
  ASSUME NEW S, NEW s \in Seq(S), s # << >>
  PROVE  /\ Last(s) \in S /\ Last(s) = s[Len(s)] /\ Len(s) \in Nat \ {0}
         /\ Front(s) \in Seq(S)
         /\ Len(Front(s)) = Len(s) - 1
         /\ \A j \in 1 .. Len(s) - 1 : Front(s)[j] = s[j]
<1>1. Len(s) \in Nat \ {0}
  OBVIOUS
<1>2. SubSeq(s, 1, Len(s) - 1) \in Seq(S) /\ Len(SubSeq(s, 1, Len(s) - 1)) = Len(s) - 1
      /\ \A j \in 1 .. Len(s) - 1 : SubSeq(s, 1, Len(s) - 1)[j] = s[j]
  <2>1. ASSUME NEW k \in 1 .. Len(s)
        PROVE  SubSeq(s, 1, k - 1) \in Seq(S) /\ Len(SubSeq(s, 1, k - 1)) = k - 1
               /\ \A j \in 1 .. k - 1 : SubSeq(s, 1, k - 1)[j] = s[j]
    OBVIOUS
  <2>2. Len(s) \in 1 .. Len(s)
    BY <1>1
  <2> QED BY <2>1, <2>2
<1>3. s[Len(s)] \in S
  BY <1>1
<1> QED BY <1>1, <1>2, <1>3 DEF Front, Last

(***************************************************************************)
(* alloc_pages_range takes the first n frames off the free list.           *)
(***************************************************************************)
LEMMA DropProperties ==
  ASSUME NEW S, NEW s \in Seq(S), NEW n \in 0 .. Len(s)
  PROVE  /\ SubSeq(s, n + 1, Len(s)) \in Seq(S)
         /\ Len(SubSeq(s, n + 1, Len(s))) = Len(s) - n
         /\ \A j \in 1 .. Len(s) - n : SubSeq(s, n + 1, Len(s))[j] = s[j + n]
  OBVIOUS

-----------------------------------------------------------------------------
(* type correctness                                                        *)

RegionType ==
  /\ sbrk \in [Procs -> Nat]
  /\ symrgtbl \in [Procs -> [Rgids -> Region]]
  /\ vm_freerg_list \in [Procs -> Seq(Region)]

EntryType ==
  /\ pgtbl \in [Procs -> [Paths -> Pte]]
  /\ \A p \in Procs, g \in Paths : pgtbl[p][g].present \/ pgtbl[p][g].val = 0

ListType ==
  /\ fifo_pgn \in [Procs -> Seq(Pages)]
  /\ ram_free \in Seq(0 .. RamFrames - 1)
  /\ swp_free \in Seq(0 .. SwpFrames - 1)

StorageType ==
  /\ ram \in [0 .. RamFrames - 1 -> Frame]
  /\ swp \in [0 .. SwpFrames - 1 -> Frame]
  /\ wild \in BOOLEAN

LEMMA TypeParts ==
  /\ TypeOK <=> RegionType /\ EntryType /\ ListType /\ StorageType
  /\ TypeOK' <=> RegionType' /\ EntryType' /\ ListType' /\ StorageType'
BY DEF TypeOK, RegionType, EntryType, ListType, StorageType

LEMMA InitTypes == Init => TypeOK
<1> SUFFICES ASSUME Init PROVE TypeOK
  OBVIOUS
<1>1. RegionType
  <2>1. EmptyRegion \in Region /\ Garbage \subseteq Region
    BY VMemAssumption DEF EmptyRegion, Region
  <2>2. <<EmptyRegion>> \in Seq(Region)
    BY <2>1
  <2> QED BY <2>1, <2>2 DEF Init, RegionType
<1>2. EntryType
  BY EmptyPte DEF Init, EntryType
<1>3. ListType
  <2>1. \A n \in Nat : FormattedList(n) \in Seq(0 .. n - 1)
    BY DEF FormattedList
  <2>2. << >> \in Seq(Pages)
    OBVIOUS
  <2> QED BY <2>1, <2>2, Layout DEF Init, ListType
<1>4. StorageType
  <2>1. ZeroFrame \in Frame
    BY DEF ZeroFrame, Frame
  <2> QED BY <2>1 DEF Init, StorageType
<1> QED BY <1>1, <1>2, <1>3, <1>4, TypeParts

LEMMA SetSymbolType ==
  ASSUME RegionType, NEW p \in Procs, NEW r \in Rgids, NEW start \in Nat, NEW end \in Nat,
         SetSymbol(p, r, start, end)
  PROVE  symrgtbl' \in [Procs -> [Rgids -> Region]]
<1>1. [start |-> start, end |-> end] \in Region
  BY DEF Region
<1> QED BY <1>1 DEF SetSymbol, RegionType

(***************************************************************************)
(* vmap_page_range and alloc_pages_range: what the page tables, the FIFO   *)
(* and the frame list are when n pages have been mapped from sbrk on.      *)
(***************************************************************************)
LEMMA GrowType ==
  ASSUME TypeOK, NEW p \in Procs, NEW size \in Nat,
         sbrk[p] + PagesFor(size) * PageSz <= MaxPages * PageSz, Grow(p, size)
  PROVE  EntryType' /\ fifo_pgn' \in [Procs -> Seq(Pages)]
         /\ ram_free' \in Seq(0 .. RamFrames - 1) /\ sbrk' \in [Procs -> Nat]
<1> DEFINE n == PagesFor(size)
           first == sbrk[p] \div PageSz
           New == first .. first + n - 1
           PageAt(path) == CHOOSE g \in New : PdFromPagenum(g) = path
<1>1. n \in Nat /\ n * PageSz \in Nat /\ sbrk[p] \in Nat /\ Len(ram_free) \in Nat /\ n <= Len(ram_free)
  BY PagesForCovers DEF TypeOK, Grow
<1>2. first \in Nat /\ first + n <= MaxPages /\ \A g \in New : g \in Pages
  BY <1>1, NewPages
<1>3. sbrk' \in [Procs -> Nat]
  <2>1. sbrk' = [sbrk EXCEPT ![p] = sbrk[p] + n * PageSz]
    BY DEF Grow
  <2>2. sbrk[p] + n * PageSz \in Nat
    BY <1>1
  <2> HIDE DEF n
  <2> QED BY <2>1, <2>2 DEF TypeOK
<1>4. ram_free' \in Seq(0 .. RamFrames - 1)
  <2>1. ram_free' = SubSeq(ram_free, n + 1, Len(ram_free)) /\ ram_free \in Seq(0 .. RamFrames - 1)
    BY DEF Grow, TypeOK
  <2> HIDE DEF n
  <2>2. n \in 0 .. Len(ram_free)
    BY <1>1
  <2> QED BY <2>1, <2>2, DropProperties
<1>5. fifo_pgn' \in [Procs -> Seq(Pages)]
  <2>1. fifo_pgn' = [fifo_pgn EXCEPT ![p] = [k \in 1 .. n |-> first + n - k] \o fifo_pgn[p]]
    BY DEF Grow, MapPages
  <2> HIDE DEF n, first
  <2>2. [k \in 1 .. n |-> first + n - k] \in Seq(Pages)
    BY <1>1, <1>2
  <2>3. [k \in 1 .. n |-> first + n - k] \o fifo_pgn[p] \in Seq(Pages)
    BY <2>2, ConcatElements DEF TypeOK
  <2> QED BY <2>1, <2>3 DEF TypeOK
<1>6. EntryType'
  <2> DEFINE new == [path \in Paths |->
                       IF \E g \in New : PdFromPagenum(g) = path
                       THEN WithFpn(pgtbl[p][path], ram_free[PageAt(path) - first + 1])
                       ELSE pgtbl[p][path]]
  <2>1. pgtbl' = [pgtbl EXCEPT ![p] = new]
    BY DEF Grow, MapPages
  <2>2. ASSUME NEW path \in Paths
        PROVE  new[path] \in Pte /\ (new[path].present \/ new[path].val = 0)
    <3>1. pgtbl[p][path] \in Pte /\ (pgtbl[p][path].present \/ pgtbl[p][path].val = 0)
      BY DEF TypeOK
    <3>2. CASE \E g \in New : PdFromPagenum(g) = path
      <4>1. PageAt(path) \in New
        BY <3>2
      <4>2. new[path] = WithFpn(pgtbl[p][path], ram_free[PageAt(path) - first + 1])
        BY <3>2
      <4> HIDE DEF PageAt, new, first, n
      <4>3. PageAt(path) - first + 1 \in 1 .. Len(ram_free)
        BY <1>1, <1>2, <4>1
      <4>4. ram_free[PageAt(path) - first + 1] \in Nat
        <5>1. \A k \in 1 .. Len(ram_free) : ram_free[k] \in Nat
          BY Layout, SMTT(30) DEF TypeOK
        <5> QED BY <4>3, <5>1
      <4> QED BY <3>1, <4>2, <4>4, FpnEntry
    <3>3. CASE ~(\E g \in New : PdFromPagenum(g) = path)
      BY <3>1, <3>3
    <3> QED BY <3>2, <3>3
  <2>3. new \in [Paths -> Pte]
    <3>1. new = [path \in Paths |-> new[path]]
      OBVIOUS
    <3> HIDE DEF new
    <3> QED BY <2>2, <3>1
  <2> HIDE DEF new
  <2> QED BY <2>1, <2>2, <2>3 DEF TypeOK, EntryType
<1> QED BY <1>3, <1>4, <1>5, <1>6

LEMMA GrowOutOfMemoryType ==
  ASSUME TypeOK, NEW p \in Procs, NEW size \in Nat, GrowOutOfMemory(p, size)
  PROVE  EntryType' /\ fifo_pgn' \in [Procs -> Seq(Pages)]
         /\ ram_free' \in Seq(0 .. RamFrames - 1) /\ sbrk' \in [Procs -> Nat]
<1>1. sbrk[p] + size \in Nat
  BY DEF TypeOK
<1>2. sbrk' \in [Procs -> Nat]
  BY <1>1 DEF TypeOK, GrowOutOfMemory
<1>3. ram_free' \in Seq(0 .. RamFrames - 1)
  BY DEF GrowOutOfMemory
<1>4. pgtbl' = pgtbl /\ fifo_pgn' = fifo_pgn
  BY DEF GrowOutOfMemory
<1>5. EntryType /\ EntryType'
  BY <1>4 DEF TypeOK, EntryType
<1> QED BY <1>2, <1>3, <1>4, <1>5 DEF TypeOK

LEMMA AllocTypes ==
  ASSUME TypeOK, NEW p \in Procs, NEW r \in Rgids, NEW size \in Sizes, NEW found \in Lookup,
         AllocReuse(p, r, size) \/ AllocGrow(p, r, size, found)
  PROVE  TypeOK'
<1>1. size \in Nat
  BY VMemAssumption
<1>2. RegionType /\ EntryType /\ ListType /\ StorageType
  BY TypeParts
<1>3. CASE AllocReuse(p, r, size)
  <2> DEFINE list == vm_freerg_list[p]
             k == FirstFit(p, size)
             start == list[k].start
  <2>1. list \in Seq(Region)
    BY DEF TypeOK
  <2>2. /\ k # 0
        /\ vm_freerg_list' = [vm_freerg_list EXCEPT ![p] = Shrunk(list, k, size)]
        /\ SetSymbol(p, r, start, start + size)
        /\ UNCHANGED <<sbrk, pgtbl, fifo_pgn, ram_free, swp_free, ram, swp, wild>>
    BY <1>3 DEF AllocReuse, page_vars
  <2>3. k \in 1 .. Len(list)
    BY <2>1, <2>2, FirstFitFinds
  <2> HIDE DEF k, list
  <2>4. Shrunk(list, k, size) \in Seq(Region)
    BY <1>1, <2>1, <2>3, ShrunkType
  <2>5. start \in Nat /\ start + size \in Nat
    <3>1. list[k] \in Region
      BY <2>1, <2>3
    <3> QED BY <1>1, <3>1 DEF Region
  <2>6. RegionType'
    BY <1>2, <2>2, <2>4, <2>5, SetSymbolType DEF RegionType
  <2>7. EntryType' /\ ListType' /\ StorageType'
    BY <1>2, <2>2 DEF EntryType, ListType, StorageType
  <2> QED BY <2>6, <2>7, TypeParts
<1>4. CASE AllocGrow(p, r, size, found)
  <2>1. /\ sbrk[p] + PagesFor(size) * PageSz <= MaxPages * PageSz
        /\ SetSymbol(p, r, sbrk[p], sbrk[p] + size)
        /\ UNCHANGED <<vm_freerg_list, swp_free, ram, swp, wild>>
        /\ Grow(p, size) \/ GrowOutOfMemory(p, size)
           \/ UNCHANGED <<sbrk, pgtbl, fifo_pgn, ram_free>>
    BY <1>4 DEF AllocGrow
  <2>2. sbrk[p] \in Nat /\ sbrk[p] + size \in Nat
    BY <1>1 DEF TypeOK
  <2>3. symrgtbl' \in [Procs -> [Rgids -> Region]]
    BY <1>2, <2>1, <2>2, SetSymbolType
  <2>4. EntryType' /\ fifo_pgn' \in [Procs -> Seq(Pages)]
        /\ ram_free' \in Seq(0 .. RamFrames - 1) /\ sbrk' \in [Procs -> Nat]
    <3>1. CASE UNCHANGED <<sbrk, pgtbl, fifo_pgn, ram_free>>
      BY <1>2, <3>1 DEF EntryType, RegionType, ListType
    <3> QED BY <1>1, <2>1, <3>1, GrowType, GrowOutOfMemoryType
  <2>5. RegionType' /\ ListType' /\ StorageType'
    BY <1>2, <2>1, <2>3, <2>4 DEF RegionType, ListType, StorageType
  <2> QED BY <2>4, <2>5, TypeParts
<1> QED BY <1>3, <1>4

LEMMA FreeTypes ==
  ASSUME TypeOK, NEW p \in Procs, NEW r \in Rgids, Free(p, r)
  PROVE  TypeOK'
<1> DEFINE rg == symrgtbl[p][r]
<1>1. RegionType /\ EntryType /\ ListType /\ StorageType
  BY TypeParts
<1>2. UNCHANGED <<sbrk, pgtbl, fifo_pgn, ram_free, swp_free, ram, swp, wild>>
  BY DEF Free, page_vars
<1>3. symrgtbl' \in [Procs -> [Rgids -> Region]]
  BY <1>1, SetSymbolType DEF Free
<1>4. vm_freerg_list' \in [Procs -> Seq(Region)]
  <2>1. vm_freerg_list' = [vm_freerg_list EXCEPT ![p] =
                             IF rg.start >= rg.end THEN vm_freerg_list[p]
                             ELSE <<rg>> \o vm_freerg_list[p]]
    BY DEF Free
  <2>2. rg \in Region /\ vm_freerg_list[p] \in Seq(Region)
    BY DEF TypeOK
  <2>3. <<rg>> \o vm_freerg_list[p] \in Seq(Region)
    BY <2>2, PushProperties
  <2> QED BY <2>1, <2>2, <2>3 DEF TypeOK
<1>5. RegionType' /\ EntryType' /\ ListType' /\ StorageType'
  BY <1>1, <1>2, <1>3, <1>4 DEF RegionType, EntryType, ListType, StorageType
<1> QED BY <1>5, TypeParts

(***************************************************************************)
(* The page table after an eviction: the victim's entry names the swap     *)
(* frame, the faulting page's entry the frame the victim had (and when the *)
(* two are one page, it has it again).                                     *)
(***************************************************************************)
LEMMA ExchangeProperties ==
  ASSUME TypeOK, NEW p \in Procs, NEW g \in Pages, NEW vic \in Pages, NEW s \in Nat,
         ExchangeEntries(p, g, vic, s)
  PROVE  LET a == PdFromPagenum(vic)
             b == PdFromPagenum(g)
         IN /\ pgtbl' \in [Procs -> [Paths -> Pte]]
            /\ \A q \in Procs : q # p => pgtbl'[q] = pgtbl[q]
            /\ \A path \in Paths : path # a /\ path # b => pgtbl'[p][path] = pgtbl[p][path]
            /\ a # b => pgtbl'[p][a] = WithSwap(pgtbl[p][a], s)
            /\ \E e \in Pte : pgtbl'[p][b] = WithFpn(e, Fpn(pgtbl[p][a]))
<1> DEFINE a == PdFromPagenum(vic)
           b == PdFromPagenum(g)
           t == [pgtbl[p] EXCEPT ![a] = WithSwap(pgtbl[p][a], s)]
           u == [t EXCEPT ![b] = WithFpn(t[b], Fpn(pgtbl[p][a]))]
<1>1. a \in Paths /\ b \in Paths
  BY PathType
<1>2. pgtbl[p] \in [Paths -> Pte] /\ pgtbl[p][a] \in Pte /\ pgtbl \in [Procs -> [Paths -> Pte]]
  BY <1>1 DEF TypeOK
<1>3. WithSwap(pgtbl[p][a], s) \in Pte /\ Fpn(pgtbl[p][a]) \in Nat
  BY <1>2, SwapEntry, FpnEntry
<1>4. pgtbl' = [pgtbl EXCEPT ![p] = u]
  BY DEF ExchangeEntries, Entry
<1> HIDE DEF a, b
<1>5. t \in [Paths -> Pte] /\ t[a] = WithSwap(pgtbl[p][a], s)
      /\ \A path \in Paths : path # a => t[path] = pgtbl[p][path]
  BY <1>1, <1>2, <1>3
<1> HIDE DEF t
<1>6. WithFpn(t[b], Fpn(pgtbl[p][a])) \in Pte /\ t[b] \in Pte
  BY <1>1, <1>3, <1>5, FpnEntry
<1>7. u \in [Paths -> Pte] /\ u[b] = WithFpn(t[b], Fpn(pgtbl[p][a]))
      /\ \A path \in Paths : path # b => u[path] = t[path]
  BY <1>1, <1>5, <1>6
<1> HIDE DEF u
<1>8. pgtbl' \in [Procs -> [Paths -> Pte]] /\ pgtbl'[p] = u
      /\ \A q \in Procs : q # p => pgtbl'[q] = pgtbl[q]
  BY <1>2, <1>4, <1>7
<1> QED BY <1>1, <1>5, <1>6, <1>7, <1>8 DEF a, b

LEMMA EvictType ==
  ASSUME TypeOK, NEW p \in Procs, NEW g \in Pages, NEW found \in Lookup, Evict(p, g, found)
  PROVE  /\ EntryType' /\ Fpn(pgtbl'[p][PdFromPagenum(g)]) \in Nat
         /\ fifo_pgn' \in [Procs -> Seq(Pages)]
         /\ swp_free' \in Seq(0 .. SwpFrames - 1)
         /\ swp' \in [0 .. SwpFrames - 1 -> Frame]
<1> DEFINE vic == Victim(p)
           s == Head(swp_free)
           f == Fpn(Entry(p, vic))
<1>1. swp_free \in Seq(0 .. SwpFrames - 1) /\ swp_free # << >>
      /\ fifo_pgn[p] \in Seq(Pages) /\ fifo_pgn[p] # << >>
  BY DEF Evict, CanEvict, TypeOK
<1>2. vic \in Pages /\ Front(fifo_pgn[p]) \in Seq(Pages)
  BY <1>1, FrontProperties DEF Victim
<1>3. s \in 0 .. SwpFrames - 1 /\ Tail(swp_free) \in Seq(0 .. SwpFrames - 1)
  BY <1>1, TailProperties
<1>4. swp_free' \in Seq(0 .. SwpFrames - 1)
  BY <1>3 DEF Evict
<1>5. fifo_pgn' \in [Procs -> Seq(Pages)]
  <2>1. fifo_pgn' = [fifo_pgn EXCEPT ![p] = <<g>> \o Front(fifo_pgn[p])]
    BY DEF Evict
  <2>2. <<g>> \o Front(fifo_pgn[p]) \in Seq(Pages)
    BY <1>2, PushProperties
  <2> QED BY <2>1, <2>2 DEF TypeOK
<1>6. f \in Nat
  <2>1. Entry(p, vic) \in Pte
    BY <1>2, PathType DEF TypeOK, Entry
  <2> QED BY <2>1, FpnEntry
<1>7. swp' \in [0 .. SwpFrames - 1 -> Frame]
  <2>1. swp' = IF found /\ f < RamFrames THEN [swp EXCEPT ![s] = ram[f]] ELSE swp
    BY DEF Evict
  <2> HIDE DEF f, s
  <2>2. f < RamFrames => f \in 0 .. RamFrames - 1
    BY <1>6, Layout
  <2>3. f < RamFrames => ram[f] \in Frame
    BY <2>2 DEF TypeOK
  <2> QED BY <1>3, <2>1, <2>3 DEF TypeOK
<1>8. ExchangeEntries(p, g, vic, s) /\ s \in Nat
  BY <1>3, Layout DEF Evict
<1> HIDE DEF vic, s, f
<1> DEFINE a == PdFromPagenum(vic)
           b == PdFromPagenum(g)
<1>9. /\ pgtbl' \in [Procs -> [Paths -> Pte]]
      /\ \A q \in Procs : q # p => pgtbl'[q] = pgtbl[q]
      /\ \A path \in Paths : path # a /\ path # b => pgtbl'[p][path] = pgtbl[p][path]
      /\ a # b => pgtbl'[p][a] = WithSwap(pgtbl[p][a], s)
      /\ \E e \in Pte : pgtbl'[p][b] = WithFpn(e, Fpn(pgtbl[p][a]))
  BY <1>2, <1>8, ExchangeProperties
<1>10. a \in Paths /\ b \in Paths /\ pgtbl[p][a] \in Pte /\ pgtbl'[p][b] \in Pte
  BY <1>2, <1>9, PathType DEF TypeOK
<1>11. Fpn(pgtbl'[p][b]) \in Nat /\ Fpn(pgtbl[p][a]) \in Nat
  BY <1>10, FpnEntry
<1>12. pgtbl'[p][b].present /\ (a # b => pgtbl'[p][a].present)
  BY <1>8, <1>9, <1>10, <1>11, FpnEntry, SwapEntry, ZenonT(40)
<1>13. \A q \in Procs, path \in Paths : pgtbl'[q][path].present \/ pgtbl'[q][path].val = 0
  <2> HIDE DEF a, b
  <2>1. \A q \in Procs, path \in Paths : pgtbl[q][path].present \/ pgtbl[q][path].val = 0
    BY DEF TypeOK
  <2>2. \A q \in Procs, path \in Paths :
          pgtbl'[q][path] = pgtbl[q][path] \/ pgtbl'[q][path].present
    BY <1>9, <1>12
  <2> QED BY <2>1, <2>2
<1> QED BY <1>4, <1>5, <1>7, <1>9, <1>11, <1>13 DEF EntryType

(***************************************************************************)
(* pg_getpage, in each of its four outcomes, for READ and WRITE alike.     *)
(***************************************************************************)
Touch(p, g, found) ==
  \/ UNCHANGED <<pgtbl, fifo_pgn, swp_free, swp>>
  \/ /\ fifo_pgn[p] # << >>
     /\ fifo_pgn' = [fifo_pgn EXCEPT ![p] = Front(@)]
     /\ swp_free = << >>
     /\ UNCHANGED <<pgtbl, swp_free, swp>>
  \/ Evict(p, g, found)

LEMMA TouchType ==
  ASSUME TypeOK, NEW p \in Procs, NEW g \in Pages, NEW found \in Lookup, Touch(p, g, found),
         ram_free' = ram_free
  PROVE  EntryType' /\ ListType' /\ swp' \in [0 .. SwpFrames - 1 -> Frame]
<1>1. EntryType /\ ListType /\ swp \in [0 .. SwpFrames - 1 -> Frame]
  BY DEF TypeOK, EntryType, ListType
<1>2. CASE UNCHANGED <<pgtbl, fifo_pgn, swp_free, swp>>
  BY <1>1, <1>2 DEF EntryType, ListType
<1>3. CASE /\ fifo_pgn[p] # << >>
           /\ fifo_pgn' = [fifo_pgn EXCEPT ![p] = Front(@)]
           /\ UNCHANGED <<pgtbl, swp_free, swp>>
  <2>1. Front(fifo_pgn[p]) \in Seq(Pages)
    BY <1>3, FrontProperties DEF TypeOK
  <2> QED BY <1>1, <1>3, <2>1 DEF EntryType, ListType
<1>4. CASE Evict(p, g, found)
  BY <1>1, <1>4, EvictType DEF ListType
<1> QED BY <1>2, <1>3, <1>4 DEF Touch

LEMMA StoreType ==
  ASSUME TypeOK, NEW f \in Nat, NEW off \in 0 .. PageSz - 1, NEW v \in Vals, NEW found,
         Store(f, off, v, found)
  PROVE  ram' \in [0 .. RamFrames - 1 -> Frame] /\ wild' \in BOOLEAN
<1>1. wild' \in BOOLEAN
  BY DEF Store
<1>2. CASE found /\ f < RamFrames
  <2>1. f \in 0 .. RamFrames - 1 /\ ram' = [ram EXCEPT ![f][off] = v]
    BY <1>2, Layout DEF Store
  <2>2. ram[f] \in Frame
    BY <2>1 DEF TypeOK
  <2>3. [ram[f] EXCEPT ![off] = v] \in Frame
    BY <2>2 DEF Frame
  <2>4. ram' = [ram EXCEPT ![f] = [ram[f] EXCEPT ![off] = v]]
    BY <2>1
  <2> QED BY <1>1, <2>1, <2>3, <2>4 DEF TypeOK
<1>3. CASE ~(found /\ f < RamFrames)
  BY <1>1, <1>3 DEF Store, TypeOK
<1> QED BY <1>2, <1>3

LEMMA AccessAddress ==
  ASSUME NEW p, NEW r, NEW off, MayAccess(p, r, off)
  PROVE  /\ Pgn(Address(p, r, off)) \in Pages
         /\ Offst(Address(p, r, off)) \in 0 .. PageSz - 1
<1>1. Address(p, r, off) \in Addrs
  BY DEF MayAccess
<1> QED BY <1>1, PgnIsPage

LEMMA WriteTouches ==
  ASSUME NEW p, NEW r, NEW off, NEW v, NEW found, Write(p, r, off, v, found)
  PROVE  /\ Touch(p, Pgn(Address(p, r, off)), found)
         /\ UNCHANGED <<region_vars, ram_free>>
BY DEF Write, Touch, SwapFull

LEMMA ReadTouches ==
  ASSUME NEW p, NEW r, NEW off, NEW found, Read(p, r, off, found)
  PROVE  /\ Touch(p, Pgn(Address(p, r, off)), found)
         /\ UNCHANGED <<region_vars, ram_free, ram>>
BY DEF Read, Touch, SwapFull

LEMMA WriteTypes ==
  ASSUME TypeOK, NEW p \in Procs, NEW r \in Rgids, NEW off \in Offsets, NEW v \in Vals,
         NEW found \in Lookup, Write(p, r, off, v, found)
  PROVE  TypeOK'
<1> DEFINE x == Address(p, r, off)
           g == Pgn(x)
<1>1. MayAccess(p, r, off) /\ Touch(p, g, found) /\ UNCHANGED <<region_vars, ram_free>>
  BY WriteTouches DEF Write
<1>2. g \in Pages /\ Offst(x) \in 0 .. PageSz - 1
  BY <1>1, AccessAddress
<1>3. \/ \E f \in Nat : Store(f, Offst(x), v, found)
      \/ UNCHANGED <<ram, wild>>
  <2>1. Fpn(Entry(p, g)) \in Nat
    <3>1. Entry(p, g) \in Pte
      BY <1>2, PathType DEF Entry, TypeOK
    <3> QED BY <3>1, FpnEntry
  <2>2. Evict(p, g, found) => Fpn(pgtbl'[p][PdFromPagenum(g)]) \in Nat
    BY <1>2, EvictType
  <2>3. \/ Store(Fpn(Entry(p, g)), Offst(x), v, found)
        \/ UNCHANGED <<ram, wild>>
        \/ Evict(p, g, found) /\ Store(Fpn(pgtbl'[p][PdFromPagenum(g)]), Offst(x), v, found)
    BY DEF Write
  <2> HIDE DEF x, g
  <2> QED BY <2>1, <2>2, <2>3
<1> HIDE DEF x, g
<1>4. ram' \in [0 .. RamFrames - 1 -> Frame] /\ wild' \in BOOLEAN
  BY <1>2, <1>3, StoreType DEF TypeOK
<1>5. EntryType' /\ ListType' /\ swp' \in [0 .. SwpFrames - 1 -> Frame]
  BY <1>1, <1>2, TouchType
<1>6. RegionType'
  BY <1>1 DEF RegionType, region_vars, TypeOK
<1> QED BY <1>4, <1>5, <1>6, TypeParts DEF StorageType

LEMMA ReadTypes ==
  ASSUME TypeOK, NEW p \in Procs, NEW r \in Rgids, NEW off \in Offsets,
         NEW found \in Lookup, Read(p, r, off, found)
  PROVE  TypeOK'
<1> DEFINE g == Pgn(Address(p, r, off))
<1>1. MayAccess(p, r, off) /\ Touch(p, g, found) /\ UNCHANGED <<region_vars, ram_free, ram>>
  BY ReadTouches DEF Read
<1>2. g \in Pages
  BY <1>1, AccessAddress
<1>3. wild' \in BOOLEAN
  BY DEF Read, TypeOK
<1> HIDE DEF g
<1>4. EntryType' /\ ListType' /\ swp' \in [0 .. SwpFrames - 1 -> Frame]
  BY <1>1, <1>2, TouchType
<1>5. RegionType' /\ ram' \in [0 .. RamFrames - 1 -> Frame]
  BY <1>1 DEF RegionType, region_vars, TypeOK
<1> QED BY <1>3, <1>4, <1>5, TypeParts DEF StorageType

LEMMA SyscallTypes ==
  ASSUME TypeOK, NEW p \in Procs, Syscall(p)
  PROVE  TypeOK'
<1>1. RegionType /\ EntryType /\ ListType /\ StorageType
  BY TypeParts
<1>2. ASSUME NEW size \in Sizes, SyscallInc(p, size) PROVE TypeOK'
  <2>1. size \in Nat
    BY VMemAssumption
  <2>2. EntryType' /\ fifo_pgn' \in [Procs -> Seq(Pages)]
        /\ ram_free' \in Seq(0 .. RamFrames - 1) /\ sbrk' \in [Procs -> Nat]
    BY <1>2, <2>1, GrowType, GrowOutOfMemoryType DEF SyscallInc
  <2>3. UNCHANGED <<symrgtbl, vm_freerg_list, swp_free, ram, swp, wild>>
    BY <1>2 DEF SyscallInc
  <2>4. RegionType' /\ ListType' /\ StorageType'
    BY <1>1, <2>2, <2>3 DEF RegionType, ListType, StorageType
  <2> QED BY <2>2, <2>4, TypeParts
<1>3. ASSUME NEW first \in Pages, NEW n \in 1 .. MaxPages - first, SyscallMap(p, first, n)
      PROVE  TypeOK'
  <2> DEFINE C == {PdFromPagenum(g) : g \in first .. first + n - 1}
             new == [path \in Paths |-> IF path \in C THEN ZeroPte ELSE pgtbl[p][path]]
  <2>1. pgtbl' = [pgtbl EXCEPT ![p] = new]
        /\ UNCHANGED <<sbrk, symrgtbl, vm_freerg_list, fifo_pgn, ram_free, swp_free, ram, swp, wild>>
    BY <1>3 DEF SyscallMap, region_vars
  <2> HIDE DEF C
  <2>2. new \in [Paths -> Pte] /\ \A path \in Paths : new[path].present \/ new[path].val = 0
    BY EmptyPte DEF TypeOK
  <2> HIDE DEF new
  <2>3. EntryType'
    BY <2>1, <2>2 DEF EntryType, TypeOK
  <2>4. RegionType' /\ ListType' /\ StorageType'
    BY <1>1, <2>1 DEF RegionType, ListType, StorageType
  <2> QED BY <2>3, <2>4, TypeParts
<1>4. \A n \in Nat : UserFrames(n) \subseteq Nat
  BY DEF UserFrames
<1>5. ASSUME NEW f \in UserFrames(RamFrames), NEW s \in UserFrames(SwpFrames), SyscallSwp(f, s)
      PROVE  TypeOK'
  <2>1. f \in Nat /\ s \in Nat
    BY <1>4, Layout
  <2>2. UNCHANGED <<region_vars, page_vars, ram>> /\ wild' \in BOOLEAN
        /\ swp' = IF f < RamFrames /\ s < SwpFrames THEN [swp EXCEPT ![s] = ram[f]] ELSE swp
    BY <1>5 DEF SyscallSwp
  <2>3. f < RamFrames => ram[f] \in Frame
    BY <2>1, Layout DEF TypeOK
  <2>4. swp' \in [0 .. SwpFrames - 1 -> Frame]
    BY <2>2, <2>3 DEF TypeOK
  <2>5. RegionType' /\ EntryType' /\ ListType' /\ StorageType'
    BY <1>1, <2>2, <2>4 DEF RegionType, EntryType, ListType, StorageType, region_vars, page_vars
  <2> QED BY <2>5, TypeParts
<1>6. ASSUME NEW f \in UserFrames(RamFrames), NEW off \in 0 .. PageSz - 1, NEW v \in Vals,
             SyscallWrite(f, off, v)
      PROVE  TypeOK'
  <2>1. f \in Nat
    BY <1>4, Layout
  <2>2. ram' \in [0 .. RamFrames - 1 -> Frame] /\ wild' \in BOOLEAN
    BY <1>6, <2>1, StoreType DEF SyscallWrite
  <2>3. UNCHANGED <<region_vars, page_vars, swp>>
    BY <1>6 DEF SyscallWrite
  <2>4. RegionType' /\ EntryType' /\ ListType' /\ StorageType'
    BY <1>1, <2>2, <2>3 DEF RegionType, EntryType, ListType, StorageType, region_vars, page_vars
  <2> QED BY <2>4, TypeParts
<1>7. ASSUME NEW f \in UserFrames(RamFrames), SyscallRead(f) PROVE TypeOK'
  <2>1. UNCHANGED <<region_vars, page_vars, ram, swp>> /\ wild' \in BOOLEAN
    BY <1>7 DEF SyscallRead
  <2>2. RegionType' /\ EntryType' /\ ListType' /\ StorageType'
    BY <1>1, <2>1 DEF RegionType, EntryType, ListType, StorageType, region_vars, page_vars
  <2> QED BY <2>2, TypeParts
<1> QED BY <1>2, <1>3, <1>5, <1>6, <1>7 DEF Syscall

LEMMA StutterTypes == TypeOK /\ UNCHANGED vars => TypeOK'
BY DEF TypeOK, vars, region_vars, page_vars

(***************************************************************************)
(* The virtual memory keeps its types in every run: page numbers on the    *)
(* FIFO are pages of the address space, the free lists hold frames of the  *)
(* devices, an entry is all zero or PRESENT.  No condition on sizes,       *)
(* frames, contents of malloc's memory or answers of the search for a pid. *)
(***************************************************************************)
THEOREM VMemTypeCorrect == Spec => []TypeOK
<1>1. Init => TypeOK
  BY InitTypes
<1>2. TypeOK /\ [Next]_vars => TypeOK'
  <2> SUFFICES ASSUME TypeOK, [Next]_vars PROVE TypeOK'
    OBVIOUS
  <2>1. ASSUME NEW p \in Procs, NEW r \in Rgids, Instruction(p, r) PROVE TypeOK'
    BY <2>1, AllocTypes, FreeTypes, WriteTypes, ReadTypes DEF Instruction
  <2> QED BY <2>1, SyscallTypes, StutterTypes DEF Next
<1> QED BY <1>1, <1>2, PTL DEF Spec
-----------------------------------------------------------------------------
(* no byte has two owners                                                  *)

(***************************************************************************)
(* RegionsDisjoint for one process: its symbol table, its free list and    *)
(* its sbrk.                                                               *)
(***************************************************************************)
OwnedOnce(tbl, free, brk) ==
  /\ \A r, s \in Rgids : r # s => Disjoint(tbl[r], tbl[s])
  /\ \A r \in Rgids : tbl[r].start <= tbl[r].end /\ tbl[r].end <= brk
  /\ \A r \in Rgids : \A k \in 1 .. Len(free) : Disjoint(tbl[r], free[k])
  /\ \A k \in 1 .. Len(free) : free[k].end <= brk
  /\ \A k, l \in 1 .. Len(free) : k # l => Disjoint(free[k], free[l])

LEMMA RegionsByProcess ==
  /\ RegionsDisjoint
       <=> \A p \in Procs : OwnedOnce(symrgtbl[p], vm_freerg_list[p], sbrk[p])
  /\ RegionsDisjoint'
       <=> \A p \in Procs : OwnedOnce(symrgtbl'[p], vm_freerg_list'[p], sbrk'[p])
BY DEF RegionsDisjoint, SymbolsDisjoint, OwnedOnce

LEMMA RegionBounds ==
  /\ \A rg \in Region : rg.start \in Nat /\ rg.end \in Nat
  /\ \A list \in Seq(Region) : \A k \in 1 .. Len(list) :
       list[k] \in Region /\ list[k].start \in Nat /\ list[k].end \in Nat
<1>1. \A rg \in Region : rg.start \in Nat /\ rg.end \in Nat
  BY DEF Region
<1>2. ASSUME NEW list \in Seq(Region), NEW k \in 1 .. Len(list) PROVE list[k] \in Region
  OBVIOUS
<1> QED BY <1>1, <1>2

LEMMA Narrower ==
  ASSUME NEW rg, NEW sg, NEW rg2, NEW sg2, Disjoint(rg, sg),
         rg.start \in Nat, rg.end \in Nat, sg.start \in Nat, sg.end \in Nat,
         rg2.start \in Nat, rg2.end \in Nat, sg2.start \in Nat, sg2.end \in Nat,
         rg.start <= rg2.start, rg2.end = rg.end, sg.start <= sg2.start, sg2.end = sg.end
  PROVE  Disjoint(rg2, sg2)
BY DEF Disjoint

(***************************************************************************)
(* The space that get_free_vmrg_area cuts off a free region leaves a list  *)
(* that lies apart from it and within the old list.                        *)
(***************************************************************************)
LEMMA ShrunkLeaves ==
  ASSUME NEW free \in Seq(Region), NEW k \in 1 .. Len(free), NEW size \in Nat \ {0},
         Fits(free[k], size),
         \A i, j \in 1 .. Len(free) : i # j => Disjoint(free[i], free[j])
  PROVE  LET new == Shrunk(free, k, size)
             taken == [start |-> free[k].start, end |-> free[k].start + size]
         IN /\ new \in Seq(Region)
            /\ \A i \in 1 .. Len(new) : \E j \in 1 .. Len(free) :
                 free[j].start <= new[i].start /\ new[i].end = free[j].end
            /\ \A i \in 1 .. Len(new) : Disjoint(taken, new[i])
            /\ \A i, j \in 1 .. Len(new) : i # j => Disjoint(new[i], new[j])
<1> DEFINE new == Shrunk(free, k, size)
           taken == [start |-> free[k].start, end |-> free[k].start + size]
<1>1. \A i \in 1 .. Len(free) : free[i] \in Region /\ free[i].start \in Nat /\ free[i].end \in Nat
  BY RegionBounds
<1>2. new \in Seq(Region)
  BY ShrunkType
<1>3. CASE free[k].start + size < free[k].end
  <2>1. new = [free EXCEPT ![k].start = free[k].start + size]
    BY <1>3 DEF Shrunk
  <2>2. /\ Len(new) = Len(free)
        /\ \A i \in 1 .. Len(free) : i # k => new[i] = free[i]
        /\ new[k].start = free[k].start + size /\ new[k].end = free[k].end
    <3>1. new[k] = [free[k] EXCEPT !.start = free[k].start + size]
      BY <2>1
    <3>2. new[k].start = free[k].start + size /\ new[k].end = free[k].end
      BY <1>1, <3>1 DEF Region
    <3> QED BY <2>1, <3>2
  <2>3. taken.start = free[k].start /\ taken.end = free[k].start + size
    OBVIOUS
  <2> HIDE DEF new, taken
  <2>4. ASSUME NEW i \in 1 .. Len(new)
        PROVE  free[i].start <= new[i].start /\ new[i].end = free[i].end /\ i \in 1 .. Len(free)
    BY <1>1, <2>2
  <2>5. ASSUME NEW i \in 1 .. Len(new) PROVE Disjoint(taken, new[i])
    <3>1. CASE i = k
      BY <1>1, <2>2, <2>3, <3>1 DEF Disjoint
    <3>2. CASE i # k
      <4>1. i \in 1 .. Len(free) /\ new[i] = free[i] /\ Disjoint(free[k], free[i])
        BY <2>2, <3>2
      <4>2. /\ free[k].start \in Nat /\ free[k].end \in Nat
            /\ free[i].start \in Nat /\ free[i].end \in Nat
        BY <1>1, <4>1
      <4> QED BY <1>3, <2>3, <4>1, <4>2, SMTT(30) DEF Disjoint
    <3> QED BY <3>1, <3>2
  <2>6. ASSUME NEW i \in 1 .. Len(new), NEW j \in 1 .. Len(new), i # j
        PROVE  Disjoint(new[i], new[j])
    <3>1. Disjoint(free[i], free[j])
      BY <2>2, <2>6
    <3>2. new[i].start \in Nat /\ new[i].end \in Nat /\ new[j].start \in Nat /\ new[j].end \in Nat
      BY <1>2, RegionBounds
    <3>3. /\ free[i].end \in Nat /\ free[j].end \in Nat
          /\ free[i].start <= new[i].start /\ new[i].end = free[i].end /\ free[i].start \in Nat
          /\ free[j].start <= new[j].start /\ new[j].end = free[j].end /\ free[j].start \in Nat
      BY <1>1, <2>4
    <3> QED BY <1>1, <3>1, <3>2, <3>3, Narrower
  <2> QED BY <1>2, <2>4, <2>5, <2>6 DEF new, taken
<1>4. CASE ~(free[k].start + size < free[k].end)
  <2>1. new = RemoveAt(free, k)
    BY <1>4 DEF Shrunk
  <2>2. /\ Len(new) = Len(free) - 1
        /\ \A j \in 1 .. k - 1 : new[j] = free[j]
        /\ \A j \in k .. Len(free) - 1 : new[j] = free[j + 1]
    BY <2>1, RemoveAtProperties
  <2> DEFINE old(i) == IF i < k THEN i ELSE i + 1
  <2>3. \A i \in 1 .. Len(new) : old(i) \in 1 .. Len(free) /\ old(i) # k /\ new[i] = free[old(i)]
    BY <2>2
  <2>4. \A i, j \in 1 .. Len(new) : i # j => old(i) # old(j)
    BY <2>2
  <2> HIDE DEF old, new
  <2>5. free[k].end = free[k].start + size
    <3>1. free[k].start \in Nat /\ free[k].end \in Nat /\ free[k].start + size <= free[k].end
      BY <1>1 DEF Fits
    <3> QED BY <1>4, <3>1
  <2>6. \A i \in 1 .. Len(new) : Disjoint(taken, new[i])
    BY <1>1, <2>3, <2>5 DEF Disjoint
  <2>7. \A i, j \in 1 .. Len(new) : i # j => Disjoint(new[i], new[j])
    BY <2>3, <2>4
  <2>8. ASSUME NEW i \in 1 .. Len(new)
        PROVE  \E j \in 1 .. Len(free) : free[j].start <= new[i].start /\ new[i].end = free[j].end
    <3>1. free[old(i)].start <= new[i].start /\ new[i].end = free[old(i)].end
      BY <1>1, <2>3
    <3> QED BY <2>3, <3>1
  <2> QED BY <1>2, <2>6, <2>7, <2>8 DEF new
<1> QED BY <1>3, <1>4

(***************************************************************************)
(* __alloc from the free list.                                             *)
(***************************************************************************)
LEMMA ReuseKeepsOwners ==
  ASSUME NEW tbl \in [Rgids -> Region], NEW free \in Seq(Region), NEW brk \in Nat,
         OwnedOnce(tbl, free, brk),
         NEW r \in Rgids, NEW size \in Nat \ {0}, NEW k \in 1 .. Len(free), Fits(free[k], size),
         NEW tbl2,
         tbl2 = [tbl EXCEPT ![r] = [start |-> free[k].start, end |-> free[k].start + size]]
  PROVE  OwnedOnce(tbl2, Shrunk(free, k, size), brk)
<1> DEFINE new == Shrunk(free, k, size)
           taken == [start |-> free[k].start, end |-> free[k].start + size]
<1>1. /\ new \in Seq(Region)
      /\ \A i \in 1 .. Len(new) : \E j \in 1 .. Len(free) :
           free[j].start <= new[i].start /\ new[i].end = free[j].end
      /\ \A i \in 1 .. Len(new) : Disjoint(taken, new[i])
      /\ \A i, j \in 1 .. Len(new) : i # j => Disjoint(new[i], new[j])
  BY ShrunkLeaves DEF OwnedOnce
<1>2. /\ \A s \in Rgids : tbl[s].start \in Nat /\ tbl[s].end \in Nat
      /\ \A j \in 1 .. Len(free) : free[j].start \in Nat /\ free[j].end \in Nat
      /\ \A j \in 1 .. Len(new) : new[j].start \in Nat /\ new[j].end \in Nat
  <2> HIDE DEF new
  <2> QED BY <1>1, RegionBounds
<1>3. taken.start = free[k].start /\ taken.end = free[k].start + size
  OBVIOUS
<1>4. tbl2[r] = taken /\ \A s \in Rgids : s # r => tbl2[s] = tbl[s]
  OBVIOUS
<1> HIDE DEF new, taken
<1>5. \A s \in Rgids : s # r => Disjoint(tbl[s], taken) /\ Disjoint(taken, tbl[s])
  BY <1>2, <1>3, SMTT(30) DEF OwnedOnce, Disjoint, Fits
<1>6. \A s \in Rgids : \A j \in 1 .. Len(new) : Disjoint(tbl[s], new[j])
  <2> SUFFICES ASSUME NEW s \in Rgids, NEW j \in 1 .. Len(new) PROVE Disjoint(tbl[s], new[j])
    OBVIOUS
  <2>1. PICK i \in 1 .. Len(free) : free[i].start <= new[j].start /\ new[j].end = free[i].end
    BY <1>1
  <2>2. Disjoint(tbl[s], free[i])
    BY DEF OwnedOnce
  <2> QED BY <1>2, <2>1, <2>2, SMTT(30) DEF Disjoint
<1>7. \A j \in 1 .. Len(new) : new[j].end <= brk
  BY <1>1 DEF OwnedOnce
<1>8. taken.start <= taken.end /\ taken.end <= brk
  BY <1>2, <1>3 DEF OwnedOnce, Fits
<1>9. \A s \in Rgids : tbl2[s].start <= tbl2[s].end /\ tbl2[s].end <= brk
  BY <1>4, <1>8 DEF OwnedOnce
<1>10. \A s, t \in Rgids : s # t => Disjoint(tbl2[s], tbl2[t])
  BY <1>4, <1>5 DEF OwnedOnce
<1>11. \A s \in Rgids : \A j \in 1 .. Len(new) : Disjoint(tbl2[s], new[j])
  BY <1>1, <1>4, <1>6
<1> QED BY <1>1, <1>7, <1>9, <1>10, <1>11 DEF OwnedOnce, new

(***************************************************************************)
(* __alloc above the old sbrk, once the limit has been raised by at least  *)
(* the size asked for; and a limit raised on its own.                      *)
(***************************************************************************)
LEMMA GrowKeepsOwners ==
  ASSUME NEW tbl \in [Rgids -> Region], NEW free \in Seq(Region), NEW brk \in Nat,
         OwnedOnce(tbl, free, brk), NEW size \in Nat, NEW brk2 \in Nat, brk + size <= brk2
  PROVE  /\ OwnedOnce(tbl, free, brk2)
         /\ \A r \in Rgids :
              OwnedOnce([tbl EXCEPT ![r] = [start |-> brk, end |-> brk + size]], free, brk2)
<1>1. /\ \A s \in Rgids : tbl[s].start \in Nat /\ tbl[s].end \in Nat
      /\ \A j \in 1 .. Len(free) : free[j].start \in Nat /\ free[j].end \in Nat
  BY RegionBounds
<1>2. OwnedOnce(tbl, free, brk2)
  BY <1>1 DEF OwnedOnce
<1>3. ASSUME NEW r \in Rgids
      PROVE  OwnedOnce([tbl EXCEPT ![r] = [start |-> brk, end |-> brk + size]], free, brk2)
  <2> DEFINE taken == [start |-> brk, end |-> brk + size]
             tbl2 == [tbl EXCEPT ![r] = taken]
  <2>1. tbl2[r] = taken /\ \A s \in Rgids : s # r => tbl2[s] = tbl[s]
    OBVIOUS
  <2>2. taken.start = brk /\ taken.end = brk + size
    OBVIOUS
  <2> HIDE DEF taken, tbl2
  <2>3. \A s \in Rgids : Disjoint(tbl[s], taken) /\ Disjoint(taken, tbl[s])
    BY <1>1, <2>2 DEF OwnedOnce, Disjoint
  <2>4. \A j \in 1 .. Len(free) : Disjoint(taken, free[j])
    BY <1>1, <2>2 DEF OwnedOnce, Disjoint
  <2>5. \A s \in Rgids : tbl2[s].start <= tbl2[s].end /\ tbl2[s].end <= brk2
    BY <1>1, <2>1, <2>2 DEF OwnedOnce
  <2>6. \A s, t \in Rgids : s # t => Disjoint(tbl2[s], tbl2[t])
    BY <2>1, <2>3 DEF OwnedOnce
  <2>7. \A s \in Rgids : \A j \in 1 .. Len(free) : Disjoint(tbl2[s], free[j])
    BY <2>1, <2>4 DEF OwnedOnce
  <2>8. OwnedOnce(tbl2, free, brk2)
    BY <1>2, <2>5, <2>6, <2>7 DEF OwnedOnce
  <2> QED BY <2>8 DEF tbl2, taken
<1> QED BY <1>2, <1>3

(***************************************************************************)
(* __free moves a region from the symbol table to the free list.           *)
(***************************************************************************)
LEMMA FreeKeepsOwners ==
  ASSUME NEW tbl \in [Rgids -> Region], NEW free \in Seq(Region), NEW brk \in Nat,
         OwnedOnce(tbl, free, brk), NEW r \in Rgids
  PROVE  /\ OwnedOnce([tbl EXCEPT ![r] = EmptyRegion], free, brk)
         /\ OwnedOnce([tbl EXCEPT ![r] = EmptyRegion], <<tbl[r]>> \o free, brk)
<1> DEFINE tbl2 == [tbl EXCEPT ![r] = EmptyRegion]
           new == <<tbl[r]>> \o free
<1>1. /\ \A s \in Rgids : tbl[s] \in Region /\ tbl[s].start \in Nat /\ tbl[s].end \in Nat
      /\ \A j \in 1 .. Len(free) : free[j].start \in Nat /\ free[j].end \in Nat
  BY RegionBounds
<1>2. tbl2[r] = EmptyRegion /\ \A s \in Rgids : s # r => tbl2[s] = tbl[s]
  OBVIOUS
<1>3. Len(new) = Len(free) + 1 /\ new[1] = tbl[r]
      /\ \A j \in 2 .. Len(free) + 1 : new[j] = free[j - 1]
  BY <1>1, PushProperties
<1>4. EmptyRegion.start = 0 /\ EmptyRegion.end = 0
  BY DEF EmptyRegion
<1> HIDE DEF tbl2, new
<1>5. \A e : Disjoint(EmptyRegion, e) /\ Disjoint(e, EmptyRegion)
  BY <1>4 DEF Disjoint
<1>6. \A s \in Rgids : tbl2[s].start <= tbl2[s].end /\ tbl2[s].end <= brk
  BY <1>2, <1>4 DEF OwnedOnce
<1>7. \A s, t \in Rgids : s # t => Disjoint(tbl2[s], tbl2[t])
  BY <1>2, <1>5 DEF OwnedOnce
<1>8. \A s \in Rgids : \A j \in 1 .. Len(free) : Disjoint(tbl2[s], free[j])
  BY <1>2, <1>5 DEF OwnedOnce
<1>9. OwnedOnce(tbl2, free, brk)
  BY <1>6, <1>7, <1>8 DEF OwnedOnce
<1>10. \A j \in 1 .. Len(new) : j = 1 \/ (j - 1 \in 1 .. Len(free) /\ new[j] = free[j - 1])
  BY <1>3
<1>11. \A j \in 1 .. Len(new) : new[j].end <= brk
  BY <1>3, <1>10 DEF OwnedOnce
<1>12. \A s \in Rgids : \A j \in 1 .. Len(new) : Disjoint(tbl2[s], new[j])
  BY <1>2, <1>3, <1>5, <1>8, <1>10 DEF OwnedOnce
<1>13. \A j \in 1 .. Len(free) : Disjoint(tbl[r], free[j]) /\ Disjoint(free[j], tbl[r])
  BY <1>1 DEF OwnedOnce, Disjoint
<1>14. \A i, j \in 1 .. Len(new) : i # j => Disjoint(new[i], new[j])
  <2> SUFFICES ASSUME NEW i \in 1 .. Len(new), NEW j \in 1 .. Len(new), i # j
               PROVE  Disjoint(new[i], new[j])
    OBVIOUS
  <2>1. CASE i = 1 \/ j = 1
    BY <1>3, <1>10, <1>13, <2>1
  <2>2. CASE i # 1 /\ j # 1
    <3>1. /\ i - 1 \in 1 .. Len(free) /\ new[i] = free[i - 1]
          /\ j - 1 \in 1 .. Len(free) /\ new[j] = free[j - 1] /\ i - 1 # j - 1
      BY <1>10, <2>2
    <3>2. Disjoint(free[i - 1], free[j - 1])
      BY <3>1 DEF OwnedOnce
    <3> QED BY <3>1, <3>2
  <2> QED BY <2>1, <2>2
<1>15. OwnedOnce(tbl2, new, brk)
  BY <1>6, <1>7, <1>11, <1>12, <1>14 DEF OwnedOnce
<1> QED BY <1>9, <1>15 DEF tbl2, new

(***************************************************************************)
(* One step, when the pid is always found and malloc returns zeroes.       *)
(***************************************************************************)
LEMMA GrowRaises ==
  ASSUME TypeOK, NEW p \in Procs, NEW size \in Nat, Grow(p, size) \/ GrowOutOfMemory(p, size)
  PROVE  sbrk' \in [Procs -> Nat] /\ sbrk[p] \in Nat /\ sbrk[p] + size <= sbrk'[p]
         /\ \A q \in Procs : q # p => sbrk'[q] = sbrk[q]
<1>1. sbrk \in [Procs -> Nat] /\ sbrk[p] \in Nat
  BY DEF TypeOK
<1>2. PagesFor(size) * PageSz \in Nat /\ size <= PagesFor(size) * PageSz
  BY PagesForCovers
<1>3. \E d \in Nat : size <= d /\ sbrk' = [sbrk EXCEPT ![p] = sbrk[p] + d]
  BY <1>2 DEF Grow, GrowOutOfMemory
<1>4. PICK d \in Nat : size <= d /\ sbrk' = [sbrk EXCEPT ![p] = sbrk[p] + d]
  BY <1>3
<1> QED BY <1>1, <1>4

LEMMA InstructionKeepsOwners ==
  ASSUME TypeOK, RegionsDisjoint, Lookup \subseteq {TRUE},
         NEW p \in Procs, NEW r \in Rgids, Instruction(p, r)
  PROVE  RegionsDisjoint'
<1> DEFINE tbl == symrgtbl[p]
           free == vm_freerg_list[p]
           brk == sbrk[p]
<1>1. tbl \in [Rgids -> Region] /\ free \in Seq(Region) /\ brk \in Nat
      /\ symrgtbl \in [Procs -> [Rgids -> Region]] /\ vm_freerg_list \in [Procs -> Seq(Region)]
      /\ sbrk \in [Procs -> Nat]
  BY DEF TypeOK
<1>2. \A q \in Procs : OwnedOnce(symrgtbl[q], vm_freerg_list[q], sbrk[q])
  BY RegionsByProcess
<1>3. SUFFICES /\ OwnedOnce(symrgtbl'[p], vm_freerg_list'[p], sbrk'[p])
               /\ \A q \in Procs : q # p => /\ symrgtbl'[q] = symrgtbl[q] /\ sbrk'[q] = sbrk[q]
                                            /\ vm_freerg_list'[q] = vm_freerg_list[q]
  <2>1. \A q \in Procs : OwnedOnce(symrgtbl'[q], vm_freerg_list'[q], sbrk'[q])
    BY <1>2, <1>3
  <2> QED BY <2>1, RegionsByProcess
<1>4. ASSUME NEW size \in Sizes, AllocReuse(p, r, size) PROVE <1>3!1
  <2> DEFINE k == FirstFit(p, size)
             start == free[k].start
  <2>1. size \in Nat \ {0}
    BY VMemAssumption
  <2>2. k # 0 /\ vm_freerg_list' = [vm_freerg_list EXCEPT ![p] = Shrunk(free, k, size)]
        /\ symrgtbl' = [symrgtbl EXCEPT ![p][r] = [start |-> start, end |-> start + size]]
        /\ sbrk' = sbrk
    BY <1>4 DEF AllocReuse, SetSymbol
  <2>3. k \in 1 .. Len(free) /\ Fits(free[k], size)
    BY <1>1, <2>2, FirstFitFinds
  <2> HIDE DEF k
  <2> DEFINE tbl2 == [tbl EXCEPT ![r] = [start |-> start, end |-> start + size]]
             free2 == Shrunk(free, k, size)
  <2>4. OwnedOnce(tbl2, free2, brk)
    BY <1>1, <1>2, <2>1, <2>3, ReuseKeepsOwners
  <2>5. symrgtbl' = [symrgtbl EXCEPT ![p] = tbl2]
    BY <1>1, <2>2
  <2> HIDE DEF tbl2, free2
  <2>6. symrgtbl'[p] = tbl2 /\ \A q \in Procs : q # p => symrgtbl'[q] = symrgtbl[q]
    BY <1>1, <2>5
  <2>7. vm_freerg_list'[p] = free2 /\ \A q \in Procs : q # p => vm_freerg_list'[q] = vm_freerg_list[q]
    BY <1>1, <2>2 DEF free2
  <2> QED BY <2>2, <2>4, <2>6, <2>7
<1>5. ASSUME NEW size \in Sizes, AllocGrow(p, r, size, TRUE) PROVE <1>3!1
  <2>1. size \in Nat
    BY VMemAssumption
  <2>2. /\ Grow(p, size) \/ GrowOutOfMemory(p, size)
        /\ symrgtbl' = [symrgtbl EXCEPT ![p][r] = [start |-> brk, end |-> brk + size]]
        /\ vm_freerg_list' = vm_freerg_list
    BY <1>5 DEF AllocGrow, SetSymbol
  <2>3. brk + size <= sbrk'[p] /\ sbrk'[p] \in Nat /\ \A q \in Procs : q # p => sbrk'[q] = sbrk[q]
    BY <2>1, <2>2, GrowRaises
  <2> DEFINE tbl2 == [tbl EXCEPT ![r] = [start |-> brk, end |-> brk + size]]
  <2>4. OwnedOnce(tbl2, free, sbrk'[p])
    BY <1>1, <1>2, <2>1, <2>3, GrowKeepsOwners
  <2>5. symrgtbl' = [symrgtbl EXCEPT ![p] = tbl2]
    BY <1>1, <2>2
  <2> HIDE DEF tbl2
  <2>6. symrgtbl'[p] = tbl2 /\ \A q \in Procs : q # p => symrgtbl'[q] = symrgtbl[q]
    BY <1>1, <2>5
  <2> QED BY <2>2, <2>3, <2>4, <2>6
<1>6. ASSUME Free(p, r) PROVE <1>3!1
  <2> DEFINE rg == tbl[r]
             tbl2 == [tbl EXCEPT ![r] = EmptyRegion]
  <2>1. /\ vm_freerg_list' = [vm_freerg_list EXCEPT ![p] =
                                IF rg.start >= rg.end THEN free ELSE <<rg>> \o free]
        /\ symrgtbl' = [symrgtbl EXCEPT ![p][r] = [start |-> 0, end |-> 0]]
        /\ sbrk' = sbrk
    BY <1>6 DEF Free, SetSymbol
  <2>2. OwnedOnce(tbl2, free, brk) /\ OwnedOnce(tbl2, <<rg>> \o free, brk)
    BY <1>1, <1>2, FreeKeepsOwners
  <2>3. symrgtbl' = [symrgtbl EXCEPT ![p] = tbl2]
    BY <1>1, <2>1 DEF EmptyRegion
  <2> HIDE DEF tbl2
  <2>4. symrgtbl'[p] = tbl2 /\ \A q \in Procs : q # p => symrgtbl'[q] = symrgtbl[q]
    BY <1>1, <2>3
  <2>5. vm_freerg_list'[p] \in {free, <<rg>> \o free}
        /\ \A q \in Procs : q # p => vm_freerg_list'[q] = vm_freerg_list[q]
    BY <1>1, <2>1
  <2> QED BY <2>1, <2>2, <2>4, <2>5
<1>7. ASSUME UNCHANGED region_vars PROVE <1>3!1
  <2>1. symrgtbl' = symrgtbl /\ vm_freerg_list' = vm_freerg_list /\ sbrk' = sbrk
    BY <1>7 DEF region_vars
  <2> QED BY <1>2, <2>1
<1>8. ASSUME NEW off, NEW v, NEW found, Write(p, r, off, v, found) \/ Read(p, r, off, found)
      PROVE  UNCHANGED region_vars
  BY <1>8 DEF Write, Read
<1> QED BY <1>4, <1>5, <1>6, <1>7, <1>8 DEF Instruction

LEMMA SyscallKeepsOwners ==
  ASSUME TypeOK, RegionsDisjoint, NEW p \in Procs, Syscall(p)
  PROVE  RegionsDisjoint'
<1>1. \A q \in Procs : OwnedOnce(symrgtbl[q], vm_freerg_list[q], sbrk[q])
  BY RegionsByProcess
<1>2. ASSUME NEW size \in Sizes, SyscallInc(p, size) PROVE RegionsDisjoint'
  <2>1. size \in Nat /\ symrgtbl' = symrgtbl /\ vm_freerg_list' = vm_freerg_list
        /\ (Grow(p, size) \/ GrowOutOfMemory(p, size))
    BY <1>2, VMemAssumption DEF SyscallInc
  <2>2. sbrk[p] \in Nat /\ sbrk[p] + size <= sbrk'[p] /\ sbrk'[p] \in Nat
        /\ \A q \in Procs : q # p => sbrk'[q] = sbrk[q]
    BY <2>1, GrowRaises
  <2>3. symrgtbl[p] \in [Rgids -> Region] /\ vm_freerg_list[p] \in Seq(Region)
    BY DEF TypeOK
  <2>4. OwnedOnce(symrgtbl[p], vm_freerg_list[p], sbrk'[p])
    BY <1>1, <2>1, <2>2, <2>3, GrowKeepsOwners
  <2>5. \A q \in Procs : OwnedOnce(symrgtbl'[q], vm_freerg_list'[q], sbrk'[q])
    BY <1>1, <2>1, <2>2, <2>4
  <2> QED BY <2>5, RegionsByProcess
<1>3. CASE UNCHANGED region_vars
  <2>1. symrgtbl' = symrgtbl /\ vm_freerg_list' = vm_freerg_list /\ sbrk' = sbrk
    BY <1>3 DEF region_vars
  <2> QED BY <1>1, <2>1, RegionsByProcess
<1>4. (\E size \in Sizes : SyscallInc(p, size)) \/ UNCHANGED region_vars
  BY DEF Syscall, SyscallMap, SyscallSwp, SyscallWrite, SyscallRead
<1> QED BY <1>2, <1>3, <1>4

(***************************************************************************)
(* __alloc and __free never lose track of who owns a byte, when the search *)
(* for the pid never fails and the symbol table starts out empty (a zeroed *)
(* mm; init_mm leaves it as malloc returned it).  Without the first,       *)
(* SymbolsDisjoint is violated in the model: see the run vmem_lookup.      *)
(***************************************************************************)
THEOREM NoByteHasTwoOwners ==
  ASSUME Lookup \subseteq {TRUE}, Garbage \subseteq {EmptyRegion}
  PROVE  Spec => []RegionsDisjoint
<1> USE DEF EmptyRegion
<1>1. Init => RegionsDisjoint
  <2> SUFFICES ASSUME Init, NEW p \in Procs
               PROVE  OwnedOnce(symrgtbl[p], vm_freerg_list[p], sbrk[p])
    BY RegionsByProcess
  <2>1. \A r \in Rgids : symrgtbl[p][r] = [start |-> 0, end |-> 0]
    BY DEF Init
  <2>2. vm_freerg_list[p] = <<[start |-> 0, end |-> 0]>> /\ sbrk[p] = 0
    BY DEF Init
  <2>3. Len(vm_freerg_list[p]) = 1 /\ vm_freerg_list[p][1] = [start |-> 0, end |-> 0]
    BY <2>2
  <2> QED BY <2>1, <2>2, <2>3 DEF OwnedOnce, Disjoint
<1>2. TypeOK /\ RegionsDisjoint /\ [Next]_vars => RegionsDisjoint'
  <2> SUFFICES ASSUME TypeOK, RegionsDisjoint, [Next]_vars PROVE RegionsDisjoint'
    OBVIOUS
  <2>1. CASE UNCHANGED vars
    BY <2>1 DEF vars, region_vars, RegionsDisjoint, SymbolsDisjoint
  <2> QED BY <2>1, InstructionKeepsOwners, SyscallKeepsOwners DEF Next
<1> QED BY <1>1, <1>2, VMemTypeCorrect, PTL DEF Spec
-----------------------------------------------------------------------------
(* the page table, page by page                                            *)

(***************************************************************************)
(* What each operation does to the entry of every page, when pages have    *)
(* paths of their own.                                                     *)
(***************************************************************************)
PathsSuffice == MaxPages <= Entries * Entries

LEMMA EntryOfPage ==
  ASSUME TypeOK, NEW q \in Procs, NEW h \in Pages
  PROVE  Entry(q, h) \in Pte /\ Fpn(Entry(q, h)) \in Nat /\ Swp(Entry(q, h)) \in Nat
<1>1. Entry(q, h) \in Pte
  BY PathType DEF Entry, TypeOK
<1> QED BY <1>1, FpnEntry

LEMMA GrowPages ==
  ASSUME PathsSuffice, TypeOK, NEW p \in Procs, NEW size \in Nat,
         sbrk[p] + PagesFor(size) * PageSz <= MaxPages * PageSz, Grow(p, size)
  PROVE  LET n == PagesFor(size)
             first == sbrk[p] \div PageSz
             New == first .. first + n - 1
         IN /\ n \in Nat /\ first \in Nat /\ New \subseteq Pages /\ first + n <= MaxPages
            /\ n <= Len(ram_free)
            /\ \A q \in Procs, h \in Pages : q # p \/ h \notin New => Entry(q, h)' = Entry(q, h)
            /\ \A h \in New : /\ h - first + 1 \in 1 .. n
                              /\ Entry(p, h)' = WithFpn(Entry(p, h), ram_free[h - first + 1])
            /\ fifo_pgn' = [fifo_pgn EXCEPT ![p] = [k \in 1 .. n |-> first + n - k] \o fifo_pgn[p]]
<1> DEFINE n == PagesFor(size)
           first == sbrk[p] \div PageSz
           New == first .. first + n - 1
           PageAt(path) == CHOOSE g \in New : PdFromPagenum(g) = path
           new == [path \in Paths |->
                    IF \E g \in New : PdFromPagenum(g) = path
                    THEN WithFpn(pgtbl[p][path], ram_free[PageAt(path) - first + 1])
                    ELSE pgtbl[p][path]]
<1>1. n \in Nat /\ n * PageSz \in Nat /\ sbrk[p] \in Nat
  BY PagesForCovers DEF TypeOK
<1>2. first \in Nat /\ first + n <= MaxPages /\ New \subseteq Pages
  BY <1>1, NewPages
<1>3. pgtbl' = [pgtbl EXCEPT ![p] = new]
  BY DEF Grow, MapPages
<1>4. n <= Len(ram_free)
      /\ fifo_pgn' = [fifo_pgn EXCEPT ![p] = [k \in 1 .. n |-> first + n - k] \o fifo_pgn[p]]
  BY DEF Grow, MapPages, TypeOK
<1>5. \A q \in Procs : q # p => pgtbl'[q] = pgtbl[q]
  BY <1>3 DEF TypeOK
<1>6. pgtbl'[p] = new
  BY <1>3 DEF TypeOK
<1>7. ASSUME NEW h \in Pages, h \notin New PROVE pgtbl'[p][PdFromPagenum(h)] = pgtbl[p][PdFromPagenum(h)]
  <2>1. ~(\E g \in New : PdFromPagenum(g) = PdFromPagenum(h))
    BY <1>2, <1>7, PathsDiffer DEF PathsSuffice
  <2>2. PdFromPagenum(h) \in Paths
    BY PathType
  <2> QED BY <1>6, <2>1, <2>2
<1>8. ASSUME NEW h \in New
      PROVE  pgtbl'[p][PdFromPagenum(h)] = WithFpn(pgtbl[p][PdFromPagenum(h)], ram_free[h - first + 1])
  <2>1. PdFromPagenum(h) \in Paths
    BY <1>2, PathType
  <2>2. PageAt(PdFromPagenum(h)) \in New
        /\ PdFromPagenum(PageAt(PdFromPagenum(h))) = PdFromPagenum(h)
    OBVIOUS
  <2> HIDE DEF New, PageAt
  <2>3. PageAt(PdFromPagenum(h)) = h
    BY <1>2, <2>2, PathsDiffer DEF PathsSuffice
  <2> QED BY <1>6, <2>1, <2>3
<1>9. \A h \in New : h - first + 1 \in 1 .. n
  BY <1>1, <1>2
<1> HIDE DEF n, first, New, new
<1>10. \A q \in Procs, h \in Pages : q # p \/ h \notin New => Entry(q, h)' = Entry(q, h)
  BY <1>5, <1>7 DEF Entry
<1>11. \A h \in New : Entry(p, h)' = WithFpn(Entry(p, h), ram_free[h - first + 1])
  BY <1>8 DEF Entry
<1> QED BY <1>1, <1>2, <1>4, <1>9, <1>10, <1>11 DEF n, first, New

LEMMA EvictPages ==
  ASSUME PathsSuffice, TypeOK, NEW p \in Procs, NEW g \in Pages, NEW found \in Lookup,
         Evict(p, g, found)
  PROVE  \E vic \in Pages, s \in Nat :
            /\ vic = Victim(p) /\ s = Head(swp_free)
            /\ swp_free # << >> /\ fifo_pgn[p] # << >>
            /\ \A q \in Procs, h \in Pages :
                 q # p \/ (h # g /\ h # vic) => Entry(q, h)' = Entry(q, h)
            /\ vic # g => Entry(p, vic)' = WithSwap(Entry(p, vic), s)
            /\ Entry(p, g)'.present /\ ~Entry(p, g)'.swapped
            /\ Fpn(Entry(p, g)') = Fpn(Entry(p, vic))
<1>1. swp_free \in Seq(0 .. SwpFrames - 1) /\ swp_free # << >>
      /\ fifo_pgn[p] \in Seq(Pages) /\ fifo_pgn[p] # << >>
  BY DEF Evict, CanEvict, TypeOK
<1>2. PICK vic \in Pages : vic = Victim(p)
  BY <1>1, FrontProperties DEF Victim
<1>3. PICK s \in 0 .. SwpFrames - 1 : s = Head(swp_free)
  BY <1>1, TailProperties
<1>4. ExchangeEntries(p, g, vic, s) /\ s \in Nat
  BY <1>2, <1>3, Layout DEF Evict
<1> DEFINE a == PdFromPagenum(vic)
           b == PdFromPagenum(g)
<1>5. /\ \A q \in Procs : q # p => pgtbl'[q] = pgtbl[q]
      /\ \A path \in Paths : path # a /\ path # b => pgtbl'[p][path] = pgtbl[p][path]
      /\ a # b => pgtbl'[p][a] = WithSwap(pgtbl[p][a], s)
      /\ \E e \in Pte : pgtbl'[p][b] = WithFpn(e, Fpn(pgtbl[p][a]))
  BY <1>2, <1>4, ExchangeProperties
<1>6. Fpn(pgtbl[p][a]) \in Nat
  BY <1>2, EntryOfPage DEF Entry
<1>7. pgtbl'[p][b].present /\ ~pgtbl'[p][b].swapped /\ Fpn(pgtbl'[p][b]) = Fpn(pgtbl[p][a])
  <2>1. PICK f \in Nat : f = Fpn(pgtbl[p][a])
    BY <1>6
  <2>2. f < FpnRange
    BY <1>2, <2>1, EntryOfPage, PageTableAssumption DEF Fpn, Entry, Pte
  <2> QED BY <1>5, <2>1, <2>2, FpnEntry
<1>8. \A h \in Pages : h # g /\ h # vic => PdFromPagenum(h) # a /\ PdFromPagenum(h) # b
                                         /\ PdFromPagenum(h) \in Paths
  BY <1>2, PathsDiffer, PathType DEF PathsSuffice
<1>9. vic # g => a # b
  BY <1>2, PathsDiffer DEF PathsSuffice
<1> HIDE DEF a, b
<1>10. \A q \in Procs, h \in Pages :
         q # p \/ (h # g /\ h # vic) => Entry(q, h)' = Entry(q, h)
  BY <1>5, <1>8 DEF Entry
<1>11. vic # g => Entry(p, vic)' = WithSwap(Entry(p, vic), s)
  BY <1>5, <1>9 DEF Entry, a
<1>12. Entry(p, g)'.present /\ ~Entry(p, g)'.swapped /\ Fpn(Entry(p, g)') = Fpn(Entry(p, vic))
  BY <1>7 DEF Entry, a, b
<1> QED BY <1>1, <1>2, <1>4, <1>10, <1>11, <1>12, <1>3

LEMMA MapClears ==
  ASSUME TypeOK, NEW p \in Procs, NEW first, NEW n, SyscallMap(p, first, n)
  PROVE  /\ \A q \in Procs, h \in Pages : Entry(q, h)' \in {Entry(q, h), ZeroPte}
         /\ UNCHANGED <<fifo_pgn, swp_free>>
<1> DEFINE C == {PdFromPagenum(g) : g \in first .. first + n - 1}
           new == [path \in Paths |-> IF path \in C THEN ZeroPte ELSE pgtbl[p][path]]
<1>1. pgtbl' = [pgtbl EXCEPT ![p] = new] /\ UNCHANGED <<fifo_pgn, swp_free>>
  BY DEF SyscallMap
<1>2. ASSUME NEW q \in Procs, NEW h \in Pages
      PROVE  pgtbl'[q][PdFromPagenum(h)] \in {pgtbl[q][PdFromPagenum(h)], ZeroPte}
  <2>1. PdFromPagenum(h) \in Paths
    BY PathType
  <2>2. new[PdFromPagenum(h)] \in {pgtbl[p][PdFromPagenum(h)], ZeroPte}
    BY <2>1
  <2> HIDE DEF new
  <2>3. pgtbl'[q] = IF q = p THEN new ELSE pgtbl[q]
    BY <1>1 DEF TypeOK
  <2> QED BY <2>2, <2>3
<1> QED BY <1>1, <1>2 DEF Entry
-----------------------------------------------------------------------------
(* eviction                                                                *)

(***************************************************************************)
(* A step evicts a page, or leaves the swap device alone and marks no page *)
(* as swapped out.                                                         *)
(***************************************************************************)
SwapAlone ==
  /\ swp_free' = swp_free
  /\ \A q \in Procs, h \in Pages : Entry(q, h)' = Entry(q, h) \/ ~Entry(q, h)'.swapped

EvictStep == \E p \in Procs, g \in Pages, found \in Lookup : Evict(p, g, found)

LEMMA GrowLeavesSwap ==
  ASSUME PathsSuffice, TypeOK, NEW p \in Procs, NEW size \in Sizes,
         sbrk[p] + PagesFor(size) * PageSz <= MaxPages * PageSz,
         Grow(p, size) \/ GrowOutOfMemory(p, size), swp_free' = swp_free
  PROVE  SwapAlone
<1>1. size \in Nat
  BY VMemAssumption
<1>2. CASE GrowOutOfMemory(p, size)
  BY <1>2 DEF GrowOutOfMemory, SwapAlone, Entry
<1>3. CASE Grow(p, size)
  <2> DEFINE n == PagesFor(size)
             first == sbrk[p] \div PageSz
             New == first .. first + n - 1
  <2>1. /\ n <= Len(ram_free) /\ n \in Nat /\ New \subseteq Pages
        /\ \A q \in Procs, h \in Pages : q # p \/ h \notin New => Entry(q, h)' = Entry(q, h)
        /\ \A h \in New : /\ h - first + 1 \in 1 .. n
                          /\ Entry(p, h)' = WithFpn(Entry(p, h), ram_free[h - first + 1])
    BY <1>1, <1>3, GrowPages
  <2>2. \A k \in 1 .. Len(ram_free) : ram_free[k] \in Nat
    BY Layout, SMTT(30) DEF TypeOK
  <2> HIDE DEF n, first, New
  <2>3. ASSUME NEW h \in New PROVE ~Entry(p, h)'.swapped
    <3>1. PICK f \in Nat : f = ram_free[h - first + 1]
      <4>1. h - first + 1 \in 1 .. Len(ram_free)
        BY <2>1 DEF TypeOK
      <4> QED BY <2>2, <4>1
    <3>2. Entry(p, h) \in Pte
      BY <2>1, EntryOfPage
    <3>3. Entry(p, h)' = WithFpn(Entry(p, h), f)
      BY <2>1, <3>1
    <3> QED BY <3>2, <3>3, FpnEntry
  <2> QED BY <2>1, <2>3 DEF SwapAlone
<1> QED BY <1>2, <1>3

LEMMA EvictsOrLeavesSwap ==
  ASSUME PathsSuffice, TypeOK, [Next]_vars
  PROVE  SwapAlone \/ EvictStep
<1>1. ASSUME UNCHANGED <<pgtbl, swp_free>> PROVE SwapAlone
  BY <1>1 DEF SwapAlone, Entry
<1>2. CASE UNCHANGED vars
  BY <1>1, <1>2 DEF vars, page_vars
<1>3. ASSUME NEW p \in Procs, Syscall(p) PROVE SwapAlone
  <2>1. ASSUME NEW size \in Sizes, SyscallInc(p, size) PROVE SwapAlone
    BY <2>1, GrowLeavesSwap DEF SyscallInc
  <2>2. ASSUME NEW first, NEW n, SyscallMap(p, first, n) PROVE SwapAlone
    BY <2>2, MapClears, EmptyPte DEF SwapAlone
  <2>3. \/ \E size \in Sizes : SyscallInc(p, size)
        \/ \E first, n : SyscallMap(p, first, n)
        \/ UNCHANGED page_vars
    BY <1>3 DEF Syscall, SyscallSwp, SyscallWrite, SyscallRead
  <2> QED BY <1>1, <2>1, <2>2, <2>3 DEF page_vars
<1>4. ASSUME NEW p \in Procs, NEW g \in Pages, NEW found \in Lookup, Touch(p, g, found)
      PROVE  SwapAlone \/ EvictStep
  BY <1>1, <1>4 DEF Touch, EvictStep
<1>5. ASSUME NEW p \in Procs, NEW r \in Rgids, Instruction(p, r) PROVE SwapAlone \/ EvictStep
  <2>1. ASSUME NEW size \in Sizes, NEW found \in Lookup, AllocGrow(p, r, size, found)
        PROVE  SwapAlone
    <3>1. swp_free' = swp_free /\ sbrk[p] + PagesFor(size) * PageSz <= MaxPages * PageSz
          /\ (Grow(p, size) \/ GrowOutOfMemory(p, size) \/ pgtbl' = pgtbl)
      BY <2>1 DEF AllocGrow
    <3> QED BY <1>1, <3>1, GrowLeavesSwap
  <2>2. ASSUME NEW size, AllocReuse(p, r, size) \/ Free(p, r) PROVE SwapAlone
    BY <1>1, <2>2 DEF AllocReuse, Free, page_vars
  <2>3. ASSUME NEW off \in Offsets, NEW v \in Vals, NEW found \in Lookup, Write(p, r, off, v, found)
        PROVE  SwapAlone \/ EvictStep
    <3>1. Touch(p, Pgn(Address(p, r, off)), found) /\ MayAccess(p, r, off)
      BY <2>3, WriteTouches DEF Write
    <3> QED BY <1>4, <3>1, AccessAddress
  <2>4. ASSUME NEW off \in Offsets, NEW found \in Lookup, Read(p, r, off, found)
        PROVE  SwapAlone \/ EvictStep
    <3>1. Touch(p, Pgn(Address(p, r, off)), found) /\ MayAccess(p, r, off)
      BY <2>4, ReadTouches DEF Read
    <3> QED BY <1>4, <3>1, AccessAddress
  <2> QED BY <1>5, <2>1, <2>2, <2>3, <2>4 DEF Instruction
<1> QED BY <1>2, <1>3, <1>5 DEF Next

(***************************************************************************)
(* SwapFramesUnique with its parts spelled out.                            *)
(***************************************************************************)
Out(q, h) == Entry(q, h).present /\ Entry(q, h).swapped

SwapOwners ==
  /\ \A q, r \in Procs : \A g, h \in Pages :
       Out(q, g) /\ Out(r, h) /\ Swp(Entry(q, g)) = Swp(Entry(r, h)) => q = r /\ g = h
  /\ \A q \in Procs, g \in Pages : \A k \in 1 .. Len(swp_free) :
       Out(q, g) => Swp(Entry(q, g)) # swp_free[k]
  /\ \A j, k \in 1 .. Len(swp_free) : swp_free[j] = swp_free[k] => j = k

LEMMA SwapOwnersSuffice ==
  ASSUME TypeOK, SwapOwners PROVE SwapFramesUnique
<1>1. DOMAIN swp_free = 1 .. Len(swp_free)
  BY DEF TypeOK
<1>2. IsInjective(swp_free)
  BY <1>1 DEF SwapOwners, IsInjective
<1>3. \A pg \in SwappedOut : pg \in Procs \X Pages /\ Out(pg[1], pg[2])
  BY DEF SwappedOut, Mapped, Out
<1>4. ASSUME NEW pg \in SwappedOut, NEW qg \in SwappedOut, SwapOffsetOf(pg) = SwapOffsetOf(qg)
      PROVE  pg = qg
  <2>1. pg[1] = qg[1] /\ pg[2] = qg[2]
    BY <1>3, <1>4 DEF SwapOwners, SwapOffsetOf
  <2> QED BY <1>3, <2>1
<1>5. ASSUME NEW pg \in SwappedOut PROVE SwapOffsetOf(pg) \notin ToSet(swp_free)
  BY <1>1, <1>3 DEF SwapOwners, SwapOffsetOf, ToSet
<1> QED BY <1>2, <1>4, <1>5 DEF SwapFramesUnique

LEMMA SwapOwnersStep ==
  ASSUME PathsSuffice, TypeOK, SwapOwners, [Next]_vars
  PROVE  SwapOwners'
<1>1. CASE SwapAlone
  <2>1. \A q \in Procs, h \in Pages : Out(q, h)' => Out(q, h) /\ Entry(q, h)' = Entry(q, h)
    BY <1>1 DEF SwapAlone, Out
  <2>2. swp_free' = swp_free
    BY <1>1 DEF SwapAlone
  <2> QED BY <2>1, <2>2 DEF SwapOwners
<1>2. CASE EvictStep
  <2>1. PICK p \in Procs, g \in Pages, found \in Lookup : Evict(p, g, found)
    BY <1>2 DEF EvictStep
  <2>2. PICK vic \in Pages, s \in Nat :
          /\ vic = Victim(p) /\ s = Head(swp_free)
          /\ swp_free # << >> /\ fifo_pgn[p] # << >>
          /\ \A q \in Procs, h \in Pages :
               q # p \/ (h # g /\ h # vic) => Entry(q, h)' = Entry(q, h)
          /\ vic # g => Entry(p, vic)' = WithSwap(Entry(p, vic), s)
          /\ Entry(p, g)'.present /\ ~Entry(p, g)'.swapped
    BY <2>1, EvictPages
  <2>3. Entry(p, vic) \in Pte
    BY EntryOfPage
  <2>4. Out(p, vic)' => Swp(Entry(p, vic)') = s
    BY <2>2, <2>3, SwapEntry DEF Out
  <2>5. \A q \in Procs, h \in Pages :
          q # p \/ h # vic => (Out(q, h)' => Out(q, h) /\ Entry(q, h)' = Entry(q, h))
    BY <2>2 DEF Out
  <2>6. /\ swp_free[1] = s /\ Len(swp_free) \in Nat /\ 1 \in 1 .. Len(swp_free)
        /\ Len(swp_free') = Len(swp_free) - 1
        /\ \A k \in 1 .. Len(swp_free') : k + 1 \in 1 .. Len(swp_free) /\ k + 1 # 1
                                          /\ swp_free'[k] = swp_free[k + 1]
    <3>1. swp_free' = Tail(swp_free) /\ swp_free \in Seq(0 .. SwpFrames - 1)
      BY <2>1 DEF Evict, TypeOK
    <3> QED BY <2>2, <3>1, TailProperties
  <2>7. ASSUME NEW q \in Procs, NEW r \in Procs, NEW e \in Pages, NEW h \in Pages,
               Out(q, e)', Out(r, h)', Swp(Entry(q, e)') = Swp(Entry(r, h)')
        PROVE  q = r /\ e = h
    BY <2>4, <2>5, <2>6, <2>7 DEF SwapOwners
  <2>8. ASSUME NEW q \in Procs, NEW h \in Pages, NEW k \in 1 .. Len(swp_free'), Out(q, h)'
        PROVE  Swp(Entry(q, h)') # swp_free'[k]
    <3>1. CASE q = p /\ h = vic
      BY <2>4, <2>6, <2>8, <3>1 DEF SwapOwners
    <3>2. CASE q # p \/ h # vic
      BY <2>5, <2>6, <2>8, <3>2 DEF SwapOwners
    <3> QED BY <3>1, <3>2
  <2>9. ASSUME NEW j \in 1 .. Len(swp_free'), NEW k \in 1 .. Len(swp_free'),
               swp_free'[j] = swp_free'[k]
        PROVE  j = k
    <3>1. j + 1 = k + 1
      BY <2>6, <2>9 DEF SwapOwners
    <3> QED BY <2>6, <3>1
  <2>10. \A q \in Procs, h \in Pages : Swp(Entry(q, h)') = Swp(Entry(q, h))'
    BY DEF Swp
  <2> QED BY <2>7, <2>8, <2>9, <2>10 DEF SwapOwners
<1> QED BY <1>1, <1>2, EvictsOrLeavesSwap

(***************************************************************************)
(* An eviction never overwrites a page that was swapped out before, in     *)
(* every run, whatever programs do with SYSCALL 17 and however little RAM  *)
(* there is.  Pages must have paths of their own (512 * 512 of them for    *)
(* PAGING_MAX_PGN = 16384 pages).                                          *)
(***************************************************************************)
THEOREM SwapFramesHaveOneOwner ==
  ASSUME MaxPages <= Entries * Entries
  PROVE  Spec => []SwapFramesUnique
<1>1. PathsSuffice
  BY DEF PathsSuffice
<1>2. Init => SwapOwners
  <2> SUFFICES ASSUME Init PROVE SwapOwners
    OBVIOUS
  <2>1. \A q \in Procs, h \in Pages : ~Out(q, h)
    BY PathType, EmptyPte DEF Init, Entry, Out
  <2>2. \A n \in Nat : Len(FormattedList(n)) = n /\ \A k \in 1 .. n : FormattedList(n)[k] = k - 1
    BY DEF FormattedList
  <2>3. \A j, k \in 1 .. Len(swp_free) : swp_free[j] = swp_free[k] => j = k
    BY <2>2, Layout DEF Init
  <2> QED BY <2>1, <2>3 DEF SwapOwners
<1>3. TypeOK /\ SwapOwners /\ [Next]_vars => SwapOwners'
  BY <1>1, SwapOwnersStep
<1>4. TypeOK /\ SwapOwners => SwapFramesUnique
  BY SwapOwnersSuffice
<1> QED BY <1>2, <1>3, <1>4, VMemTypeCorrect, PTL DEF Spec

(***************************************************************************)
(* ResidentIsEvictable with its parts spelled out.  A full swap device     *)
(* stays full, so the property is kept by the step that loses a victim.    *)
(***************************************************************************)
Resident(q, h) == Entry(q, h).present /\ ~Entry(q, h).swapped

OnFifo(q, h) == \E k \in 1 .. Len(fifo_pgn[q]) : fifo_pgn[q][k] = h

Evictable ==
  swp_free # << >> => \A q \in Procs, h \in Pages : Resident(q, h) => OnFifo(q, h)

LEMMA EvictableSuffices ==
  ASSUME TypeOK, Evictable PROVE ResidentIsEvictable
<1> SUFFICES ASSUME swp_free # << >>, NEW pg \in Mapped \ SwappedOut
             PROVE  pg[2] \in ToSet(fifo_pgn[pg[1]])
  BY DEF ResidentIsEvictable
<1>1. pg[1] \in Procs /\ pg[2] \in Pages /\ Resident(pg[1], pg[2])
  BY DEF Mapped, SwappedOut, Resident
<1>2. DOMAIN fifo_pgn[pg[1]] = 1 .. Len(fifo_pgn[pg[1]])
  BY <1>1 DEF TypeOK
<1>3. OnFifo(pg[1], pg[2])
  BY <1>1 DEF Evictable
<1> QED BY <1>2, <1>3 DEF OnFifo, ToSet

(***************************************************************************)
(* A step that keeps the FIFO entries of every page and makes no page      *)
(* resident that is not on the FIFO.                                       *)
(***************************************************************************)
FifoCovers ==
  /\ swp_free' = swp_free
  /\ \A q \in Procs, h \in Pages :
       Resident(q, h)' => OnFifo(q, h)' \/ (Resident(q, h) /\ (OnFifo(q, h) => OnFifo(q, h)'))

LEMMA GrowCovers ==
  ASSUME PathsSuffice, TypeOK, NEW p \in Procs, NEW size \in Sizes,
         sbrk[p] + PagesFor(size) * PageSz <= MaxPages * PageSz,
         Grow(p, size) \/ GrowOutOfMemory(p, size), swp_free' = swp_free
  PROVE  FifoCovers
<1>1. size \in Nat
  BY VMemAssumption
<1>2. CASE GrowOutOfMemory(p, size)
  <2>1. pgtbl' = pgtbl /\ fifo_pgn' = fifo_pgn
    BY <1>2 DEF GrowOutOfMemory
  <2> QED BY <2>1 DEF FifoCovers, Entry, Resident, OnFifo
<1>3. CASE Grow(p, size)
  <2> DEFINE n == PagesFor(size)
             first == sbrk[p] \div PageSz
             New == first .. first + n - 1
             a == [k \in 1 .. n |-> first + n - k]
             b == fifo_pgn[p]
  <2>1. /\ n \in Nat /\ first \in Nat /\ New \subseteq Pages /\ first + n <= MaxPages
        /\ \A q \in Procs, h \in Pages : q # p \/ h \notin New => Entry(q, h)' = Entry(q, h)
        /\ fifo_pgn' = [fifo_pgn EXCEPT ![p] = a \o b]
    BY <1>1, <1>3, GrowPages
  <2>2. fifo_pgn'[p] = a \o b /\ \A q \in Procs : q # p => fifo_pgn'[q] = fifo_pgn[q]
    BY <2>1 DEF TypeOK
  <2> HIDE DEF n, first
  <2>3. a \in Seq(Pages) /\ Len(a) = n /\ b \in Seq(Pages)
    <3>1. b \in Seq(Pages)
      BY DEF TypeOK
    <3> QED BY <2>1, <3>1
  <2>4. /\ Len(a \o b) = n + Len(b) /\ Len(b) \in Nat
        /\ \A j \in 1 .. n : (a \o b)[j] = first + n - j
        /\ \A j \in 1 .. Len(b) : (a \o b)[n + j] = b[j]
    <3>1. \A j \in 1 .. n : a[j] = first + n - j
      OBVIOUS
    <3> HIDE DEF a, b
    <3>4. Len(b) \in Nat
      BY <2>3
    <3>2. /\ Len(a \o b) = Len(a) + Len(b)
          /\ \A j \in 1 .. Len(a) : (a \o b)[j] = a[j]
          /\ \A j \in Len(a) + 1 .. Len(a) + Len(b) : (a \o b)[j] = b[j - Len(a)]
      BY <2>3, ConcatElements
    <3>3. \A j \in 1 .. Len(b) : n + j \in Len(a) + 1 .. Len(a) + Len(b) /\ (n + j) - Len(a) = j
      BY <2>1, <2>3, <3>4
    <3> QED BY <2>3, <3>1, <3>2, <3>3, <3>4
  <2> HIDE DEF a, b
  <2>5. ASSUME NEW h \in New PROVE OnFifo(p, h)'
    <3>1. first + n - h \in 1 .. n /\ first + n - (first + n - h) = h
      BY <2>1
    <3>2. first + n - h \in 1 .. Len(fifo_pgn'[p]) /\ fifo_pgn'[p][first + n - h] = h
      BY <2>1, <2>2, <2>4, <3>1
    <3> QED BY <3>2 DEF OnFifo
  <2>6. ASSUME NEW h \in Pages, OnFifo(p, h) PROVE OnFifo(p, h)'
    <3>1. PICK k \in 1 .. Len(b) : b[k] = h
      BY <2>6 DEF OnFifo, b
    <3>2. n + k \in 1 .. Len(fifo_pgn'[p]) /\ fifo_pgn'[p][n + k] = h
      BY <2>1, <2>2, <2>4, <3>1, SMTT(30)
    <3> QED BY <3>2 DEF OnFifo
  <2>7. ASSUME NEW q \in Procs, NEW h \in Pages, q # p
        PROVE  Resident(q, h)' = Resident(q, h) /\ OnFifo(q, h)' = OnFifo(q, h)
    BY <2>1, <2>2, <2>7 DEF Resident, OnFifo
  <2>8. ASSUME NEW h \in Pages, h \notin New PROVE Resident(p, h)' => Resident(p, h)
    BY <2>1, <2>8 DEF Resident
  <2> HIDE DEF New
  <2> QED BY <2>5, <2>6, <2>7, <2>8 DEF FifoCovers
<1> QED BY <1>2, <1>3

LEMMA CoversOrEvictsOrFull ==
  ASSUME PathsSuffice, TypeOK, [Next]_vars
  PROVE  FifoCovers \/ EvictStep \/ swp_free' = << >>
<1>1. ASSUME UNCHANGED <<pgtbl, fifo_pgn, swp_free>> PROVE FifoCovers
  BY <1>1 DEF FifoCovers, Entry, Resident, OnFifo
<1>2. CASE UNCHANGED vars
  BY <1>1, <1>2 DEF vars, page_vars
<1>3. ASSUME NEW p \in Procs, Syscall(p) PROVE FifoCovers
  <2>1. ASSUME NEW size \in Sizes, SyscallInc(p, size) PROVE FifoCovers
    BY <2>1, GrowCovers DEF SyscallInc
  <2>2. ASSUME NEW first, NEW n, SyscallMap(p, first, n) PROVE FifoCovers
    <3>1. /\ \A q \in Procs, h \in Pages : Entry(q, h)' \in {Entry(q, h), ZeroPte}
          /\ fifo_pgn' = fifo_pgn /\ swp_free' = swp_free
      BY <2>2, MapClears
    <3> QED BY <3>1, EmptyPte DEF FifoCovers, Resident, OnFifo
  <2>3. \/ \E size \in Sizes : SyscallInc(p, size)
        \/ \E first, n : SyscallMap(p, first, n)
        \/ UNCHANGED page_vars
    BY <1>3 DEF Syscall, SyscallSwp, SyscallWrite, SyscallRead
  <2> QED BY <1>1, <2>1, <2>2, <2>3 DEF page_vars
<1>4. ASSUME NEW p \in Procs, NEW g \in Pages, NEW found \in Lookup, Touch(p, g, found)
      PROVE  FifoCovers \/ EvictStep \/ swp_free' = << >>
  BY <1>1, <1>4 DEF Touch, EvictStep
<1>5. ASSUME NEW p \in Procs, NEW r \in Rgids, Instruction(p, r)
      PROVE  FifoCovers \/ EvictStep \/ swp_free' = << >>
  <2>1. ASSUME NEW size \in Sizes, NEW found \in Lookup, AllocGrow(p, r, size, found)
        PROVE  FifoCovers
    <3>1. swp_free' = swp_free /\ sbrk[p] + PagesFor(size) * PageSz <= MaxPages * PageSz
          /\ (Grow(p, size) \/ GrowOutOfMemory(p, size) \/ UNCHANGED <<pgtbl, fifo_pgn>>)
      BY <2>1 DEF AllocGrow
    <3> QED BY <1>1, <3>1, GrowCovers
  <2>2. ASSUME NEW size, AllocReuse(p, r, size) \/ Free(p, r) PROVE FifoCovers
    BY <1>1, <2>2 DEF AllocReuse, Free, page_vars
  <2>3. ASSUME NEW off \in Offsets, NEW v \in Vals, NEW found \in Lookup, Write(p, r, off, v, found)
        PROVE  FifoCovers \/ EvictStep \/ swp_free' = << >>
    <3>1. Touch(p, Pgn(Address(p, r, off)), found) /\ MayAccess(p, r, off)
      BY <2>3, WriteTouches DEF Write
    <3> QED BY <1>4, <3>1, AccessAddress
  <2>4. ASSUME NEW off \in Offsets, NEW found \in Lookup, Read(p, r, off, found)
        PROVE  FifoCovers \/ EvictStep \/ swp_free' = << >>
    <3>1. Touch(p, Pgn(Address(p, r, off)), found) /\ MayAccess(p, r, off)
      BY <2>4, ReadTouches DEF Read
    <3> QED BY <1>4, <3>1, AccessAddress
  <2> QED BY <1>5, <2>1, <2>2, <2>3, <2>4 DEF Instruction
<1> QED BY <1>2, <1>3, <1>5 DEF Next

LEMMA EvictableStep ==
  ASSUME PathsSuffice, TypeOK, Evictable, [Next]_vars
  PROVE  Evictable'
<1>1. CASE swp_free' = << >>
  BY <1>1 DEF Evictable
<1>2. CASE FifoCovers
  BY <1>2 DEF FifoCovers, Evictable
<1>3. CASE EvictStep
  <2>1. PICK p \in Procs, g \in Pages, found \in Lookup : Evict(p, g, found)
    BY <1>3 DEF EvictStep
  <2>2. PICK vic \in Pages, s \in Nat :
          /\ vic = Victim(p) /\ s = Head(swp_free)
          /\ swp_free # << >> /\ fifo_pgn[p] # << >>
          /\ \A q \in Procs, h \in Pages :
               q # p \/ (h # g /\ h # vic) => Entry(q, h)' = Entry(q, h)
          /\ vic # g => Entry(p, vic)' = WithSwap(Entry(p, vic), s)
          /\ Entry(p, g)'.present /\ ~Entry(p, g)'.swapped
    BY <2>1, EvictPages
  <2> DEFINE old == fifo_pgn[p]
             new == fifo_pgn'[p]
  <2>3. /\ old \in Seq(Pages) /\ new = <<g>> \o Front(old)
        /\ \A q \in Procs : q # p => fifo_pgn'[q] = fifo_pgn[q]
    BY <2>1 DEF Evict, TypeOK
  <2> HIDE DEF old, new
  <2>4. /\ Front(old) \in Seq(Pages) /\ Len(Front(old)) = Len(old) - 1 /\ Len(old) \in Nat \ {0}
        /\ vic = old[Len(old)]
        /\ \A j \in 1 .. Len(old) - 1 : Front(old)[j] = old[j]
    BY <2>2, <2>3, FrontProperties DEF Victim, old
  <2>5. /\ Len(new) = Len(Front(old)) + 1 /\ new[1] = g
        /\ \A j \in 1 .. Len(Front(old)) : new[j + 1] = Front(old)[j]
    BY <2>3, <2>4, PushProperties
  <2>6. OnFifo(p, g)'
    <3>1. 1 \in 1 .. Len(new)
      BY <2>4, <2>5
    <3> QED BY <2>5, <3>1 DEF OnFifo, new
  <2>7. ASSUME NEW h \in Pages, h # vic, OnFifo(p, h) PROVE OnFifo(p, h)'
    <3>1. PICK k \in 1 .. Len(old) : old[k] = h
      BY <2>7 DEF OnFifo, old
    <3>2. k \in 1 .. Len(Front(old)) /\ Front(old)[k] = h
      BY <2>4, <2>7, <3>1
    <3>3. k + 1 \in 1 .. Len(new) /\ new[k + 1] = h
      BY <2>4, <2>5, <3>2
    <3> QED BY <3>3 DEF OnFifo, new
  <2>8. vic # g => ~Resident(p, vic)'
    <3>1. Entry(p, vic) \in Pte
      BY EntryOfPage
    <3> QED BY <2>2, <3>1, SwapEntry DEF Resident
  <2>9. \A q \in Procs, h \in Pages :
          q # p \/ (h # g /\ h # vic) => (Resident(q, h)' => Resident(q, h))
    BY <2>2 DEF Resident
  <2>10. \A q \in Procs, h \in Pages : q # p => (OnFifo(q, h) => OnFifo(q, h)')
    BY <2>3 DEF OnFifo
  <2> QED BY <2>2, <2>6, <2>7, <2>8, <2>9, <2>10 DEF Evictable
<1> QED BY <1>1, <1>2, <1>3, CoversOrEvictsOrFull

(***************************************************************************)
(* find_victim_page can reach every page that owns a frame, until the swap *)
(* device has run full: no page is lost to the FIFO before that, whatever  *)
(* programs do with SYSCALL 17 and however little RAM there is.            *)
(***************************************************************************)
THEOREM ResidentPagesStayEvictable ==
  ASSUME MaxPages <= Entries * Entries
  PROVE  Spec => []ResidentIsEvictable
<1>1. PathsSuffice
  BY DEF PathsSuffice
<1>2. Init => Evictable
  <2> SUFFICES ASSUME Init PROVE Evictable
    OBVIOUS
  <2>1. \A q \in Procs, h \in Pages : ~Resident(q, h)
    BY PathType, EmptyPte DEF Init, Entry, Resident
  <2> QED BY <2>1 DEF Evictable
<1>3. TypeOK /\ Evictable /\ [Next]_vars => Evictable'
  BY <1>1, EvictableStep
<1>4. TypeOK /\ Evictable => ResidentIsEvictable
  BY EvictableSuffices
<1> QED BY <1>2, <1>3, <1>4, VMemTypeCorrect, PTL DEF Spec
=============================================================================
