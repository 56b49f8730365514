------------------------- MODULE VMemResidentProofs -------------------------
(***************************************************************************)
(* Proofs about VMem.tla when RAM holds every page of every process and    *)
(* programs keep to their regions: paging is then invisible.               *)
(***************************************************************************)
EXTENDS VMemProofs

(***************************************************************************)
(* RAM has a frame for each page; a frame number fits the field of an      *)
(* entry, a page number the bits PAGING_PGN keeps, and pages have paths of *)
(* their own.  Programs stay in their regions and do not use               *)
(* SYSMEM_MAP_OP, the pid is found, the mm is zeroed.                      *)
(***************************************************************************)
RamSuffices ==
  /\ IsFiniteSet(Procs) /\ Cardinality(Procs) * MaxPages <= RamFrames
  /\ RamFrames <= FpnRange /\ MaxPages <= PgnRange /\ MaxPages <= Entries * Entries
  /\ InBounds /\ "MAP" \notin UserOps
  /\ Lookup \subseteq {TRUE} /\ Garbage \subseteq {EmptyRegion}

-----------------------------------------------------------------------------
(* the inductive invariant                                                 *)

\* Pages below sbrk.
Used(p) == sbrk[p] \div PageSz

(***************************************************************************)
(* sbrk is always a multiple of the page size, and exactly the pages below *)
(* it are mapped.                                                          *)
(***************************************************************************)
MappedBelowBrk ==
  \A p \in Procs :
    /\ sbrk[p] = Used(p) * PageSz /\ Used(p) <= MaxPages
    /\ \A g \in Pages : Entry(p, g).present <=> g < Used(p)

(***************************************************************************)
(* FramesPartitioned with its parts spelled out.                           *)
(***************************************************************************)
FramesOwned ==
  /\ \A q, r \in Procs : \A g, h \in Pages :
       Entry(q, g).present /\ Entry(r, h).present /\ Fpn(Entry(q, g)) = Fpn(Entry(r, h))
         => q = r /\ g = h
  /\ \A q \in Procs, g \in Pages : Entry(q, g).present =>
       /\ Fpn(Entry(q, g)) \in 0 .. RamFrames - 1
       /\ \A k \in 1 .. Len(ram_free) : Fpn(Entry(q, g)) # ram_free[k]
  /\ \A j, k \in 1 .. Len(ram_free) : ram_free[j] = ram_free[k] => j = k
  /\ \A f \in 0 .. RamFrames - 1 :
       \/ \E k \in 1 .. Len(ram_free) : ram_free[k] = f
       \/ \E q \in Procs, g \in Pages : Entry(q, g).present /\ Fpn(Entry(q, g)) = f

ResidentInv == TypeOK /\ RegionsDisjoint /\ MappedBelowBrk /\ FramesOwned /\ ~wild

LEMMA Ample ==
  ASSUME RamSuffices
  PROVE  /\ PathsSuffice /\ RamFrames <= FpnRange /\ MaxPages <= PgnRange
         /\ "MAP" \notin UserOps /\ Lookup \subseteq {TRUE} /\ Garbage \subseteq {EmptyRegion}
         /\ InBounds
BY DEF RamSuffices, PathsSuffice

LEMMA ResidentParts ==
  ASSUME ResidentInv
  PROVE  TypeOK /\ RegionsDisjoint /\ MappedBelowBrk /\ FramesOwned /\ ~wild
BY DEF ResidentInv

LEMMA MultiplesDivide ==
  ASSUME NEW m \in Nat
  PROVE  m * PageSz \in Nat /\ (m * PageSz) \div PageSz = m
<1>1. ASSUME NEW b \in Nat \ {0} PROVE m * b \in Nat /\ (m * b) \div b = m
  BY <1>1
<1> QED BY <1>1, Layout

-----------------------------------------------------------------------------
(* RAM never runs out                                                      *)

(***************************************************************************)
(* The frames fit into the pages: a free frame goes to a page that is to   *)
(* be mapped, a used one to the page that has it.  If the free list were   *)
(* shorter than the allocation, the last new page would get no frame, and  *)
(* there would be fewer frames than pages.                                 *)
(***************************************************************************)
LEMMA EnoughFrames ==
  ASSUME RamSuffices, ResidentInv, NEW p \in Procs, NEW n \in Nat, Used(p) + n <= MaxPages
  PROVE  n <= Len(ram_free)
<1> SUFFICES ASSUME Len(ram_free) < n PROVE FALSE
  BY DEF ResidentInv, TypeOK
<1> DEFINE F == 0 .. RamFrames - 1
           D == 1 .. Len(ram_free)
           u == Used(p)
           last == <<p, u + n - 1>>
           PP == Procs \X Pages
           Slot(x) == CHOOSE k \in D : ram_free[k] = x
           Page(x) == CHOOSE pg \in Mapped : FrameOf(pg) = x
           f == [x \in F |-> IF \E k \in D : ram_free[k] = x
                             THEN <<p, u + Slot(x) - 1>> ELSE Page(x)]
<1>1. Len(ram_free) \in Nat /\ u \in Nat /\ \A k \in D : ram_free[k] \in F
  <2>1. sbrk[p] \in Nat /\ ram_free \in Seq(F)
    BY DEF ResidentInv, TypeOK
  <2>2. ASSUME NEW b \in Nat \ {0}, NEW s \in Nat PROVE s \div b \in Nat
    OBVIOUS
  <2>3. u \in Nat
    BY <2>1, <2>2, Layout DEF Used
  <2>4. Len(ram_free) \in Nat /\ \A k \in D : ram_free[k] \in F
    <3> HIDE DEF F
    <3> QED BY <2>1
  <2> QED BY <2>3, <2>4
<1>2. FramesOwned /\ MappedBelowBrk
  BY ResidentParts
<1> HIDE DEF u
<1>3. \A k \in D : u + k - 1 \in Pages /\ u + k - 1 # u + n - 1 /\ ~(u + k - 1 < u)
  BY <1>1, Layout DEF Pages, u
<1>4. last \in PP /\ last \notin Mapped
  <2>1. u + n - 1 \in Pages /\ ~(u + n - 1 < u)
    BY <1>1, Layout DEF Pages, u
  <2> QED BY <1>2, <2>1 DEF MappedBelowBrk, Mapped, u
<1>5. ASSUME NEW x \in F, \E k \in D : ram_free[k] = x
      PROVE  Slot(x) \in D /\ ram_free[Slot(x)] = x /\ f[x] = <<p, u + Slot(x) - 1>>
  BY <1>5
<1>6. ASSUME NEW x \in F, ~ \E k \in D : ram_free[k] = x
      PROVE  f[x] \in Mapped /\ FrameOf(f[x]) = x
  <2>1. PICK q \in Procs, g \in Pages : Entry(q, g).present /\ Fpn(Entry(q, g)) = x
    BY <1>2, <1>6 DEF FramesOwned
  <2>2. <<q, g>> \in Mapped /\ FrameOf(<<q, g>>) = x
    BY <2>1 DEF Mapped, FrameOf
  <2>3. Page(x) \in Mapped /\ FrameOf(Page(x)) = x
    BY <2>2
  <2> HIDE DEF Page
  <2> QED BY <1>6, <2>3
<1> HIDE DEF f, Slot
<1>7. ASSUME NEW x \in F PROVE f[x] \in PP \ {last}
  <2>1. CASE \E k \in D : ram_free[k] = x
    <3>1. Slot(x) \in D /\ f[x] = <<p, u + Slot(x) - 1>>
      BY <1>5, <2>1
    <3>2. u + Slot(x) - 1 \in Pages /\ u + Slot(x) - 1 # u + n - 1
      BY <1>3, <3>1
    <3> QED BY <3>1, <3>2
  <2>2. CASE ~ \E k \in D : ram_free[k] = x
    BY <1>4, <1>6, <2>2 DEF Mapped
  <2> QED BY <2>1, <2>2
<1>8. ASSUME NEW x \in F, \E k \in D : ram_free[k] = x PROVE f[x] \notin Mapped
  <2>1. u + Slot(x) - 1 \in Pages /\ ~(u + Slot(x) - 1 < u) /\ f[x] = <<p, u + Slot(x) - 1>>
    BY <1>3, <1>5, <1>8
  <2> QED BY <1>2, <2>1 DEF MappedBelowBrk, Mapped, u
<1>9. ASSUME NEW x \in F, NEW y \in F, f[x] = f[y] PROVE x = y
  <2>1. CASE (\E k \in D : ram_free[k] = x) /\ (\E k \in D : ram_free[k] = y)
    <3>1. u + Slot(x) - 1 = u + Slot(y) - 1
      BY <1>5, <1>9, <2>1
    <3>2. Slot(x) = Slot(y)
      <4>1. Slot(x) \in Nat /\ Slot(y) \in Nat
        BY <1>5, <2>1
      <4> QED BY <1>1, <3>1, <4>1
    <3> QED BY <1>5, <2>1, <3>2
  <2>2. CASE (~ \E k \in D : ram_free[k] = x) /\ (~ \E k \in D : ram_free[k] = y)
    BY <1>6, <1>9, <2>2
  <2>3. CASE (\E k \in D : ram_free[k] = x) # (\E k \in D : ram_free[k] = y)
    BY <1>6, <1>8, <1>9, <2>3
  <2> QED BY <2>1, <2>2, <2>3
<1>10. f \in Injection(F, PP \ {last})
  <2>1. f = [x \in F |-> f[x]]
    BY DEF f
  <2>2. f \in [F -> PP \ {last}]
    BY <1>7, <2>1
  <2> QED BY <1>9, <2>2 DEF Injection, IsInjective
<1>11. IsFiniteSet(Pages) /\ Cardinality(Pages) = MaxPages
  <2>1. 0 \in Int /\ MaxPages - 1 \in Int /\ ~(0 > MaxPages - 1) /\ (MaxPages - 1) - 0 + 1 = MaxPages
    BY Layout
  <2> QED BY <2>1, FS_Interval DEF Pages
<1>12. IsFiniteSet(PP) /\ Cardinality(PP) = Cardinality(Procs) * MaxPages
  BY <1>11, FS_Product DEF RamSuffices
<1>13. IsFiniteSet(PP \ {last}) /\ Cardinality(PP \ {last}) = Cardinality(PP) - 1
  BY <1>4, <1>12, FS_RemoveElement
<1>14. Cardinality(F) <= Cardinality(PP \ {last})
  BY <1>10, <1>13, FS_Injection
<1>15. Cardinality(F) = RamFrames
  <2>1. 0 \in Int /\ RamFrames - 1 \in Int /\ (RamFrames - 1) - 0 + 1 = RamFrames
        /\ (0 > RamFrames - 1 => RamFrames = 0)
    BY Layout
  <2> QED BY <2>1, FS_Interval
<1>16. Cardinality(PP) \in Nat
  BY <1>12, FS_CardinalityType
<1>17. Cardinality(PP) <= RamFrames
  BY <1>12 DEF RamSuffices
<1> HIDE DEF PP, F
<1> QED BY <1>13, <1>14, <1>15, <1>16, <1>17, Layout

LEMMA NeverOutOfMemory ==
  ASSUME RamSuffices, ResidentInv, NEW p \in Procs, NEW size \in Nat,
         sbrk[p] + PagesFor(size) * PageSz <= MaxPages * PageSz
  PROVE  ~GrowOutOfMemory(p, size)
<1>1. PagesFor(size) \in Nat /\ sbrk[p] \in Nat
  BY PagesForCovers DEF ResidentInv, TypeOK
<1>2. Used(p) + PagesFor(size) <= MaxPages
  BY <1>1, NewPages DEF Used
<1>3. PagesFor(size) <= Len(ram_free) /\ Len(ram_free) \in Nat
  BY <1>1, <1>2, EnoughFrames DEF ResidentInv, TypeOK
<1> QED BY <1>1, <1>3 DEF GrowOutOfMemory

(***************************************************************************)
(* inc_vma_limit maps the pages between the old and the new sbrk, which    *)
(* were not mapped before, on the first frames of the free list.           *)
(***************************************************************************)
LEMMA GrowMaps ==
  ASSUME PathsSuffice, RamFrames <= FpnRange, TypeOK, MappedBelowBrk,
         NEW p \in Procs, NEW size \in Nat,
         sbrk[p] + PagesFor(size) * PageSz <= MaxPages * PageSz, Grow(p, size)
  PROVE  LET n == PagesFor(size)
             first == sbrk[p] \div PageSz
             New == first .. first + n - 1
         IN /\ n \in Nat /\ first \in Nat /\ New \subseteq Pages
            /\ \A q \in Procs, h \in Pages : q # p \/ h \notin New => Entry(q, h)' = Entry(q, h)
            /\ \A h \in New :
                 /\ h - first + 1 \in 1 .. n /\ h - first + 1 \in 1 .. Len(ram_free)
                 /\ Entry(p, h)'.present /\ Fpn(Entry(p, h)') = ram_free[h - first + 1]
                 /\ ~Entry(p, h).present
            /\ fifo_pgn' = [fifo_pgn EXCEPT ![p] = [k \in 1 .. n |-> first + n - k] \o fifo_pgn[p]]
            /\ \A k \in 1 .. Len(ram_free) : ram_free[k] \in 0 .. RamFrames - 1
            /\ Len(ram_free') = Len(ram_free) - n /\ Len(ram_free) \in Nat
            /\ \A k \in 1 .. Len(ram_free') :
                 k + n \in 1 .. Len(ram_free) /\ ram_free'[k] = ram_free[k + n]
            /\ MappedBelowBrk'
<1> DEFINE n == PagesFor(size)
           first == sbrk[p] \div PageSz
           New == first .. first + n - 1
<1>1. TypeOK /\ MappedBelowBrk /\ PathsSuffice
  OBVIOUS
<1>2. /\ n \in Nat /\ first \in Nat /\ New \subseteq Pages /\ first + n <= MaxPages
      /\ n <= Len(ram_free)
      /\ \A q \in Procs, h \in Pages : q # p \/ h \notin New => Entry(q, h)' = Entry(q, h)
      /\ \A h \in New : /\ h - first + 1 \in 1 .. n
                        /\ Entry(p, h)' = WithFpn(Entry(p, h), ram_free[h - first + 1])
      /\ fifo_pgn' = [fifo_pgn EXCEPT ![p] = [k \in 1 .. n |-> first + n - k] \o fifo_pgn[p]]
  BY <1>1, GrowPages
<1>3. /\ ram_free \in Seq(0 .. RamFrames - 1) /\ Len(ram_free) \in Nat /\ sbrk \in [Procs -> Nat]
      /\ ram_free' = SubSeq(ram_free, n + 1, Len(ram_free))
      /\ sbrk' = [sbrk EXCEPT ![p] = sbrk[p] + n * PageSz]
  BY <1>1 DEF TypeOK, Grow
<1>4. sbrk[p] = first * PageSz
  BY <1>1 DEF MappedBelowBrk, Used
<1> HIDE DEF n, first
<1>5. sbrk'[p] = (first + n) * PageSz /\ \A q \in Procs : q # p => sbrk'[q] = sbrk[q]
  <2>1. ASSUME NEW b \in Nat PROVE first * b + n * b = (first + n) * b
    BY <1>2
  <2>2. sbrk'[p] = sbrk[p] + n * PageSz /\ \A q \in Procs : q # p => sbrk'[q] = sbrk[q]
    BY <1>3
  <2> QED BY <1>4, <2>1, <2>2, Layout
<1>6. Used(p)' = first + n /\ \A q \in Procs : q # p => Used(q)' = Used(q)
  <2>1. (first + n) \in Nat
    BY <1>2
  <2> QED BY <1>5, <2>1, MultiplesDivide DEF Used
<1>7. \A k \in 1 .. Len(ram_free) : ram_free[k] \in 0 .. RamFrames - 1 /\ ram_free[k] \in Nat
                                    /\ ram_free[k] < FpnRange
  <2> DEFINE F == 0 .. RamFrames - 1
  <2>1. \A k \in 1 .. Len(ram_free) : ram_free[k] \in F
    <3> HIDE DEF F
    <3>1. ram_free \in Seq(F)
      BY <1>3 DEF F
    <3> QED BY <3>1
  <2> QED BY <2>1, Layout
<1>8. ASSUME NEW h \in New
      PROVE  /\ h - first + 1 \in 1 .. n /\ h - first + 1 \in 1 .. Len(ram_free)
             /\ Entry(p, h)'.present /\ Fpn(Entry(p, h)') = ram_free[h - first + 1]
  <2>1. h - first + 1 \in 1 .. n /\ h - first + 1 \in 1 .. Len(ram_free)
    BY <1>2, <1>3
  <2>2. PICK f \in Nat : f = ram_free[h - first + 1] /\ f < FpnRange
    BY <1>7, <2>1
  <2>3. Entry(p, h) \in Pte
    BY <1>1, <1>2, EntryOfPage
  <2>4. Entry(p, h)' = WithFpn(Entry(p, h), f)
    BY <1>2, <2>2
  <2> QED BY <2>1, <2>2, <2>3, <2>4, FpnEntry
<1>9. MappedBelowBrk'
  <2> SUFFICES ASSUME NEW q \in Procs
               PROVE  /\ sbrk'[q] = Used(q)' * PageSz /\ Used(q)' <= MaxPages
                      /\ \A h \in Pages : Entry(q, h)'.present <=> h < Used(q)'
    BY DEF MappedBelowBrk
  <2>1. CASE q # p
    BY <1>1, <1>2, <1>5, <1>6, <2>1 DEF MappedBelowBrk
  <2>2. CASE q = p
    <3>1. ASSUME NEW h \in Pages PROVE Entry(p, h)'.present <=> h < first + n
      <4>1. CASE h \in New
        <5>1. h < first + n
          BY <1>2, <4>1
        <5> QED BY <1>8, <4>1, <5>1
      <4>2. CASE h \notin New
        <5>1. Entry(p, h)' = Entry(p, h) /\ (Entry(p, h).present <=> h < first)
          BY <1>1, <1>2, <4>2 DEF MappedBelowBrk, Used, first
        <5>2. h < first + n <=> h < first
          BY <1>2, <4>2, Layout DEF Pages
        <5> QED BY <5>1, <5>2
      <4> QED BY <4>1, <4>2
    <3> QED BY <1>2, <1>5, <1>6, <2>2, <3>1
  <2> QED BY <2>1, <2>2
<1>10. /\ Len(ram_free') = Len(ram_free) - n
       /\ \A k \in 1 .. Len(ram_free') : k + n \in 1 .. Len(ram_free) /\ ram_free'[k] = ram_free[k + n]
  <2>1. n \in 0 .. Len(ram_free)
    BY <1>2, <1>3
  <2>2. /\ Len(ram_free') = Len(ram_free) - n
        /\ \A k \in 1 .. Len(ram_free) - n : ram_free'[k] = ram_free[k + n]
    BY <1>3, <2>1, DropProperties
  <2> QED BY <1>2, <1>3, <2>2, SMTT(30)
<1>11. \A h \in New : ~Entry(p, h).present
  <2>1. \A h \in New : ~(h < first)
    BY <1>2
  <2> QED BY <1>1, <1>2, <2>1 DEF MappedBelowBrk, Used, first
<1> HIDE DEF New
<1> QED BY <1>2, <1>3, <1>7, <1>8, <1>9, <1>10, <1>11 DEF n, first, New

(***************************************************************************)
(* With RAM for every page, growing keeps every frame with one owner.      *)
(***************************************************************************)
LEMMA GrowKeepsResident ==
  ASSUME RamSuffices, ResidentInv, NEW p \in Procs, NEW size \in Nat,
         sbrk[p] + PagesFor(size) * PageSz <= MaxPages * PageSz, Grow(p, size)
  PROVE  MappedBelowBrk' /\ FramesOwned'
<1> DEFINE n == PagesFor(size)
           first == sbrk[p] \div PageSz
           New == first .. first + n - 1
<1>1. TypeOK /\ FramesOwned /\ MappedBelowBrk /\ PathsSuffice /\ RamFrames <= FpnRange
  BY ResidentParts, Ample
<1>2. /\ n \in Nat /\ first \in Nat /\ New \subseteq Pages
      /\ \A q \in Procs, h \in Pages : q # p \/ h \notin New => Entry(q, h)' = Entry(q, h)
      /\ \A k \in 1 .. Len(ram_free) : ram_free[k] \in 0 .. RamFrames - 1
      /\ Len(ram_free) \in Nat /\ MappedBelowBrk'
  BY <1>1, GrowMaps
<1>3. \A h \in New :
        /\ h - first + 1 \in 1 .. n /\ h - first + 1 \in 1 .. Len(ram_free)
        /\ Entry(p, h)'.present /\ Fpn(Entry(p, h)') = ram_free[h - first + 1]
        /\ ~Entry(p, h).present
  BY <1>1, GrowMaps
<1>4. /\ Len(ram_free') = Len(ram_free) - n
      /\ \A k \in 1 .. Len(ram_free') :
           k + n \in 1 .. Len(ram_free) /\ ram_free'[k] = ram_free[k + n]
  BY <1>1, GrowMaps
<1> HIDE DEF n, first
<1>5. \A q \in Procs, h \in Pages : Fpn(Entry(q, h))' = Fpn(Entry(q, h)')
  BY DEF Fpn
<1>6. FramesOwned'
  <2>1. ASSUME NEW q \in Procs, NEW r \in Procs, NEW g \in Pages, NEW h \in Pages,
               Entry(q, g)'.present, Entry(r, h)'.present, Fpn(Entry(q, g)') = Fpn(Entry(r, h)')
        PROVE  q = r /\ g = h
    <3>1. CASE (q # p \/ g \notin New) /\ (r # p \/ h \notin New)
      BY <1>1, <1>2, <2>1, <3>1 DEF FramesOwned
    <3>2. CASE (q = p /\ g \in New) /\ (r # p \/ h \notin New)
      <4>1. Fpn(Entry(r, h)) = ram_free[g - first + 1] /\ Entry(r, h).present
        BY <1>2, <1>3, <2>1, <3>2
      <4> QED BY <1>1, <1>3, <3>2, <4>1 DEF FramesOwned
    <3>3. CASE (q # p \/ g \notin New) /\ (r = p /\ h \in New)
      <4>1. Fpn(Entry(q, g)) = ram_free[h - first + 1] /\ Entry(q, g).present
        BY <1>2, <1>3, <2>1, <3>3
      <4> QED BY <1>1, <1>3, <3>3, <4>1 DEF FramesOwned
    <3>4. CASE (q = p /\ g \in New) /\ (r = p /\ h \in New)
      <4>1. g - first + 1 = h - first + 1
        BY <1>1, <1>3, <2>1, <3>4 DEF FramesOwned
      <4> QED BY <1>2, <3>4, <4>1, Layout DEF Pages
    <3> QED BY <3>1, <3>2, <3>3, <3>4
  <2>2. ASSUME NEW q \in Procs, NEW g \in Pages, Entry(q, g)'.present
        PROVE  /\ Fpn(Entry(q, g)') \in 0 .. RamFrames - 1
               /\ \A k \in 1 .. Len(ram_free') : Fpn(Entry(q, g)') # ram_free'[k]
    <3>1. CASE q # p \/ g \notin New
      BY <1>1, <1>2, <1>4, <2>2, <3>1 DEF FramesOwned
    <3>2. CASE q = p /\ g \in New
      <4>1. /\ Fpn(Entry(q, g)') = ram_free[g - first + 1]
            /\ g - first + 1 \in 1 .. n /\ g - first + 1 \in 1 .. Len(ram_free)
        BY <1>3, <3>2
      <4>2. \A k \in 1 .. Len(ram_free') : k + n # g - first + 1 /\ k + n \in 1 .. Len(ram_free)
        BY <1>2, <1>4, <4>1
      <4>3. \A k \in 1 .. Len(ram_free') : ram_free[k + n] # ram_free[g - first + 1]
        BY <1>1, <4>1, <4>2 DEF FramesOwned
      <4> QED BY <1>2, <1>4, <4>1, <4>3
    <3> QED BY <3>1, <3>2
  <2>3. ASSUME NEW j \in 1 .. Len(ram_free'), NEW k \in 1 .. Len(ram_free'),
               ram_free'[j] = ram_free'[k]
        PROVE  j = k
    <3>1. j + n = k + n
      BY <1>1, <1>4, <2>3 DEF FramesOwned
    <3> QED BY <1>2, <3>1
  <2>4. ASSUME NEW f \in 0 .. RamFrames - 1
        PROVE  \/ \E k \in 1 .. Len(ram_free') : ram_free'[k] = f
               \/ \E q \in Procs, g \in Pages : Entry(q, g)'.present /\ Fpn(Entry(q, g)') = f
    <3>1. CASE \E q \in Procs, g \in Pages : Entry(q, g).present /\ Fpn(Entry(q, g)) = f
      BY <1>2, <1>3, <3>1
    <3>2. CASE \E k \in 1 .. Len(ram_free) : ram_free[k] = f
      <4>1. PICK k \in 1 .. Len(ram_free) : ram_free[k] = f
        BY <3>2
      <4>2. CASE k > n
        <5>1. k - n \in 1 .. Len(ram_free') /\ (k - n) + n = k
          BY <1>2, <1>4, <4>2
        <5>2. ram_free'[k - n] = f
          BY <1>4, <4>1, <5>1
        <5> QED BY <5>1, <5>2
      <4>3. CASE ~(k > n)
        <5>1. PICK h \in New : h - first + 1 = k
          <6>1. first + k - 1 \in New /\ (first + k - 1) - first + 1 = k
            BY <1>2, <4>3
          <6> QED BY <6>1
        <5>2. Entry(p, h)'.present /\ Fpn(Entry(p, h)') = f
          BY <1>3, <4>1, <5>1
        <5> QED BY <1>2, <5>1, <5>2
      <4> QED BY <4>2, <4>3
    <3> QED BY <1>1, <3>1, <3>2 DEF FramesOwned
  <2> HIDE DEF New
  <2> QED BY <1>5, <2>1, <2>2, <2>3, <2>4 DEF FramesOwned
<1> QED BY <1>2, <1>6

-----------------------------------------------------------------------------
(* no access faults                                                        *)

(***************************************************************************)
(* PAGING_PGN keeps all of the page number of an address below sbrk, and   *)
(* that page is mapped.                                                    *)
(***************************************************************************)
LEMMA BelowBrkIsPresent ==
  ASSUME MaxPages <= PgnRange, TypeOK, MappedBelowBrk,
         NEW p \in Procs, NEW a \in Nat, a < sbrk[p]
  PROVE  /\ a \in Addrs /\ Pgn(a) = a \div PageSz /\ Pgn(a) \in Pages /\ Pgn(a) < Used(p)
         /\ Entry(p, Pgn(a)).present
<1>1. MappedBelowBrk /\ MaxPages <= PgnRange
  OBVIOUS
<1>2. ASSUME NEW b \in Nat \ {0}, NEW u \in Nat, NEW m \in Nat, NEW r \in Nat \ {0},
             a < u * b, u <= m, m <= r
      PROVE  a < m * b /\ a \div b \in Nat /\ a \div b < u /\ (a \div b) % r = a \div b
  <2>1. a \div b \in Nat /\ a \div b < u
    BY <1>2
  <2>2. u * b <= m * b /\ u * b \in Nat /\ m * b \in Nat
    BY <1>2
  <2>3. a < m * b
    BY <1>2, <2>2
  <2>4. \A x \in Nat : x < r => x % r = x
    OBVIOUS
  <2>5. a \div b < r
    BY <1>2, <2>1
  <2> QED BY <2>1, <2>3, <2>4, <2>5
<1>3. sbrk[p] = Used(p) * PageSz /\ Used(p) \in Nat /\ Used(p) <= MaxPages
  <2>1. sbrk[p] \in Nat
    BY DEF TypeOK
  <2>2. ASSUME NEW b \in Nat \ {0}, NEW s \in Nat PROVE s \div b \in Nat
    OBVIOUS
  <2> QED BY <1>1, <2>1, <2>2, Layout DEF MappedBelowBrk, Used
<1>4. PICK u \in Nat : u = Used(p)
  BY <1>3
<1>5. a < u * PageSz /\ u <= MaxPages
  BY <1>3, <1>4
<1>6. a < MaxPages * PageSz /\ a \div PageSz \in Nat /\ a \div PageSz < u
      /\ (a \div PageSz) % PgnRange = a \div PageSz
  BY <1>1, <1>2, <1>5, Layout
<1>7. a \in Addrs
  <2>1. MaxPages * PageSz \in Nat
    BY MultiplesDivide, Layout
  <2> QED BY <1>6, <2>1 DEF Addrs
<1>8. Pgn(a) = a \div PageSz /\ Pgn(a) < u
  BY <1>6 DEF Pgn
<1>9. Pgn(a) \in Pages
  BY <1>7, PgnIsPage
<1>10. Entry(p, Pgn(a)).present
  BY <1>1, <1>4, <1>8, <1>9 DEF MappedBelowBrk
<1> QED BY <1>4, <1>7, <1>8, <1>9, <1>10

LEMMA BelowBrkIsMapped ==
  ASSUME RamSuffices, ResidentInv, NEW p \in Procs, NEW a \in Nat, a < sbrk[p]
  PROVE  /\ a \in Addrs /\ Pgn(a) = a \div PageSz /\ Pgn(a) \in Pages /\ Pgn(a) < Used(p)
         /\ Entry(p, Pgn(a)).present /\ Fpn(Entry(p, Pgn(a))) \in 0 .. RamFrames - 1
<1>1. TypeOK /\ MappedBelowBrk /\ FramesOwned /\ MaxPages <= PgnRange
  BY ResidentParts, Ample
<1>2. /\ a \in Addrs /\ Pgn(a) = a \div PageSz /\ Pgn(a) \in Pages /\ Pgn(a) < Used(p)
      /\ Entry(p, Pgn(a)).present
  BY <1>1, BelowBrkIsPresent
<1> QED BY <1>1, <1>2 DEF FramesOwned

LEMMA OwnedIsBelowBrk ==
  ASSUME TypeOK, RegionsDisjoint, NEW p \in Procs, NEW r \in Rgids,
         NEW a \in symrgtbl[p][r].start .. symrgtbl[p][r].end - 1
  PROVE  a \in Nat /\ a < sbrk[p]
<1>1. symrgtbl[p][r].start \in Nat /\ symrgtbl[p][r].end \in Nat /\ sbrk[p] \in Nat
  BY DEF TypeOK, Region
<1>2. symrgtbl[p][r].end <= sbrk[p]
  BY DEF RegionsDisjoint
<1> QED BY <1>1, <1>2

LEMMA AccessHits ==
  ASSUME RamSuffices, ResidentInv, NEW p \in Procs, NEW r \in Rgids, NEW off \in Offsets,
         MayAccess(p, r, off)
  PROVE  LET a == Address(p, r, off) IN
         /\ a \in symrgtbl[p][r].start .. symrgtbl[p][r].end - 1
         /\ off \in 0 .. symrgtbl[p][r].end - symrgtbl[p][r].start - 1
         /\ PageHit(p, Pgn(a)) /\ Fpn(Entry(p, Pgn(a))) \in 0 .. RamFrames - 1
<1> DEFINE a == Address(p, r, off)
<1>1. symrgtbl[p][r].start \in Nat /\ symrgtbl[p][r].end \in Nat /\ off \in Nat
  BY VMemAssumption DEF ResidentInv, TypeOK, Region
<1>2. off < symrgtbl[p][r].end - symrgtbl[p][r].start
  BY Ample DEF MayAccess, Size
<1>3. a \in symrgtbl[p][r].start .. symrgtbl[p][r].end - 1
      /\ off \in 0 .. symrgtbl[p][r].end - symrgtbl[p][r].start - 1
  BY <1>1, <1>2 DEF Address
<1>4. a \in Nat /\ a < sbrk[p]
  BY <1>3, ResidentParts, OwnedIsBelowBrk
<1> HIDE DEF a
<1>5. Entry(p, Pgn(a)).present /\ Fpn(Entry(p, Pgn(a))) \in 0 .. RamFrames - 1
  BY <1>4, BelowBrkIsMapped
<1> QED BY <1>3, <1>5 DEF PageHit, a

-----------------------------------------------------------------------------
(* the invariant is inductive                                              *)

(***************************************************************************)
(* What a step may do when the invariant holds: grow, or leave the pages   *)
(* alone.  There is no eviction.                                           *)
(***************************************************************************)
GrowStep ==
  \E p \in Procs, size \in Sizes :
    /\ sbrk[p] + PagesFor(size) * PageSz <= MaxPages * PageSz
    /\ Grow(p, size) /\ wild' = wild

PagesStay == UNCHANGED <<sbrk, pgtbl, ram_free, wild>>

LEMMA WriteHits ==
  ASSUME RamSuffices, ResidentInv, NEW p \in Procs, NEW r \in Rgids, NEW off \in Offsets,
         NEW v, NEW found \in Lookup, Write(p, r, off, v, found)
  PROVE  LET a == Address(p, r, off)
             f == Fpn(Entry(p, Pgn(a)))
         IN /\ MayAccess(p, r, off) /\ f \in 0 .. RamFrames - 1
            /\ ram' = [ram EXCEPT ![f][Offst(a)] = v] /\ wild' = wild
            /\ UNCHANGED <<region_vars, ram_free, pgtbl>>
<1> DEFINE a == Address(p, r, off)
           f == Fpn(Entry(p, Pgn(a)))
<1>1. MayAccess(p, r, off)
  BY DEF Write
<1>2. PageHit(p, Pgn(a)) /\ f \in 0 .. RamFrames - 1 /\ found = TRUE
  BY <1>1, AccessHits, Ample
<1>3. /\ Store(f, Offst(a), v, found)
      /\ UNCHANGED <<pgtbl, fifo_pgn, swp_free, swp>>
      /\ UNCHANGED <<region_vars, ram_free>>
  BY <1>2 DEF Write, NoVictim, SwapFull, Evict, CanEvict
<1> HIDE DEF f, a
<1>4. f < RamFrames /\ ~(f >= RamFrames)
  BY <1>2, Layout
<1>5. ram' = [ram EXCEPT ![f][Offst(a)] = v] /\ wild' = wild
  <2>1. wild' = (wild \/ (found /\ f >= RamFrames)) /\ wild \in BOOLEAN
    BY <1>3 DEF Store, ResidentInv, TypeOK
  <2> QED BY <1>2, <1>3, <1>4, <2>1 DEF Store
<1> QED BY <1>1, <1>2, <1>3, <1>5 DEF f, a

LEMMA ReadHits ==
  ASSUME RamSuffices, ResidentInv, NEW p \in Procs, NEW r \in Rgids, NEW off \in Offsets,
         NEW found \in Lookup, Read(p, r, off, found)
  PROVE  MayAccess(p, r, off) /\ UNCHANGED <<region_vars, ram_free, pgtbl, ram, wild>>
<1> DEFINE a == Address(p, r, off)
           f == Fpn(Entry(p, Pgn(a)))
<1>1. MayAccess(p, r, off)
  BY DEF Read
<1>2. PageHit(p, Pgn(a)) /\ f \in 0 .. RamFrames - 1
  BY <1>1, AccessHits
<1>3. /\ wild' = (wild \/ (found /\ f >= RamFrames))
      /\ pgtbl' = pgtbl
      /\ UNCHANGED <<region_vars, ram_free, ram>>
  BY <1>2 DEF Read, NoVictim, SwapFull, Evict, CanEvict
<1> HIDE DEF f, a
<1>4. ~(f >= RamFrames) /\ wild \in BOOLEAN
  BY <1>2, Layout DEF ResidentInv, TypeOK
<1> QED BY <1>1, <1>3, <1>4

LEMMA GrowsOrStays ==
  ASSUME RamSuffices, ResidentInv, [Next]_vars
  PROVE  GrowStep \/ PagesStay
<1>1. CASE UNCHANGED vars
  BY <1>1 DEF vars, page_vars, region_vars, PagesStay
<1>2. ASSUME NEW p \in Procs, NEW size \in Sizes,
             sbrk[p] + PagesFor(size) * PageSz <= MaxPages * PageSz,
             Grow(p, size) \/ GrowOutOfMemory(p, size), wild' = wild
      PROVE  GrowStep
  <2>1. size \in Nat
    BY VMemAssumption
  <2> QED BY <1>2, <2>1, NeverOutOfMemory DEF GrowStep
<1>3. ASSUME NEW p \in Procs, Syscall(p) PROVE GrowStep \/ PagesStay
  <2>1. ASSUME NEW size \in Sizes, SyscallInc(p, size) PROVE GrowStep
    BY <1>2, <2>1 DEF SyscallInc
  <2>2. ASSUME NEW f \in UserFrames(RamFrames) PROVE ~(f >= RamFrames)
    BY Ample, Layout DEF UserFrames
  <2>3. ASSUME NEW s \in UserFrames(SwpFrames) PROVE ~(s >= SwpFrames)
    BY Ample, Layout DEF UserFrames
  <2>4. wild = FALSE
    BY DEF ResidentInv, TypeOK
  <2>5. ASSUME NEW f \in UserFrames(RamFrames), NEW s \in UserFrames(SwpFrames), SyscallSwp(f, s)
        PROVE  PagesStay
    BY <2>2, <2>3, <2>4, <2>5 DEF SyscallSwp, PagesStay, region_vars, page_vars
  <2>6. ASSUME NEW f \in UserFrames(RamFrames), NEW off, NEW v, SyscallWrite(f, off, v)
        PROVE  PagesStay
    BY <2>2, <2>4, <2>6 DEF SyscallWrite, Store, PagesStay, region_vars, page_vars
  <2>7. ASSUME NEW f \in UserFrames(RamFrames), SyscallRead(f) PROVE PagesStay
    BY <2>2, <2>4, <2>7 DEF SyscallRead, PagesStay, region_vars, page_vars
  <2>8. \A first, n : ~SyscallMap(p, first, n)
    BY Ample DEF SyscallMap
  <2> QED BY <1>3, <2>1, <2>5, <2>6, <2>7, <2>8 DEF Syscall
<1>4. ASSUME NEW p \in Procs, NEW r \in Rgids, Instruction(p, r) PROVE GrowStep \/ PagesStay
  <2>1. ASSUME NEW size \in Sizes, NEW found \in Lookup, AllocGrow(p, r, size, found)
        PROVE  GrowStep
    <3>1. /\ Grow(p, size) \/ GrowOutOfMemory(p, size)
          /\ sbrk[p] + PagesFor(size) * PageSz <= MaxPages * PageSz /\ wild' = wild
      BY <2>1, Ample DEF AllocGrow
    <3> QED BY <1>2, <3>1
  <2>2. ASSUME NEW size, AllocReuse(p, r, size) \/ Free(p, r) PROVE PagesStay
    BY <2>2 DEF AllocReuse, Free, PagesStay, page_vars
  <2>3. ASSUME NEW off \in Offsets, NEW v \in Vals, NEW found \in Lookup, Write(p, r, off, v, found)
        PROVE  PagesStay
    BY <2>3, WriteHits DEF PagesStay, region_vars
  <2>4. ASSUME NEW off \in Offsets, NEW found \in Lookup, Read(p, r, off, found) PROVE PagesStay
    BY <2>4, ReadHits DEF PagesStay, region_vars
  <2> QED BY <1>4, <2>1, <2>2, <2>3, <2>4 DEF Instruction
<1> QED BY <1>1, <1>3, <1>4 DEF Next

LEMMA StayKeepsResident ==
  ASSUME MappedBelowBrk, FramesOwned, PagesStay
  PROVE  MappedBelowBrk' /\ FramesOwned'
<1>1. sbrk' = sbrk /\ pgtbl' = pgtbl /\ ram_free' = ram_free
  BY DEF PagesStay
<1>2. MappedBelowBrk'
  BY <1>1 DEF MappedBelowBrk, Used, Entry
<1>3. FramesOwned'
  BY <1>1 DEF FramesOwned, Entry, Fpn
<1> QED BY <1>2, <1>3

LEMMA ResidentStep ==
  ASSUME RamSuffices, ResidentInv, [Next]_vars
  PROVE  MappedBelowBrk' /\ FramesOwned' /\ ~wild'
<1>1. CASE PagesStay
  BY <1>1, ResidentParts, StayKeepsResident DEF PagesStay
<1>2. CASE GrowStep
  <2>1. PICK p \in Procs, size \in Sizes :
          /\ sbrk[p] + PagesFor(size) * PageSz <= MaxPages * PageSz
          /\ Grow(p, size) /\ wild' = wild
    BY <1>2 DEF GrowStep
  <2>2. size \in Nat
    BY VMemAssumption
  <2> QED BY <2>1, <2>2, GrowKeepsResident, ResidentParts
<1> QED BY <1>1, <1>2, GrowsOrStays

LEMMA InitResident ==
  ASSUME Init PROVE MappedBelowBrk /\ FramesOwned /\ ~wild
<1>1. \A q \in Procs, g \in Pages : ~Entry(q, g).present
  BY PathType, EmptyPte DEF Init, Entry
<1>2. \A q \in Procs : sbrk[q] = 0 /\ Used(q) = 0
  <2>1. ASSUME NEW b \in Nat \ {0} PROVE 0 \div b = 0
    OBVIOUS
  <2> QED BY <2>1, Layout DEF Init, Used
<1>3. MappedBelowBrk
  <2>1. \A g \in Pages : ~(g < 0)
    BY DEF Pages
  <2>2. 0 * PageSz = 0 /\ 0 <= MaxPages
    BY Layout
  <2> QED BY <1>1, <1>2, <2>1, <2>2 DEF MappedBelowBrk
<1>4. Len(ram_free) = RamFrames /\ \A k \in 1 .. RamFrames : ram_free[k] = k - 1
  <2>1. \A n \in Nat : Len(FormattedList(n)) = n /\ \A k \in 1 .. n : FormattedList(n)[k] = k - 1
    BY DEF FormattedList
  <2> QED BY <2>1, Layout DEF Init
<1>5. ASSUME NEW f \in 0 .. RamFrames - 1 PROVE \E k \in 1 .. Len(ram_free) : ram_free[k] = f
  <2>1. f + 1 \in 1 .. RamFrames /\ (f + 1) - 1 = f
    BY Layout
  <2>2. ram_free[f + 1] = f
    BY <1>4, <2>1
  <2> QED BY <1>4, <2>1, <2>2
<1>6. \A j, k \in 1 .. Len(ram_free) : ram_free[j] = ram_free[k] => j = k
  BY <1>4, Layout
<1>7. FramesOwned
  BY <1>1, <1>5, <1>6 DEF FramesOwned
<1> QED BY <1>3, <1>7 DEF Init

(***************************************************************************)
(* The inductive invariant behind the theorems that follow.                *)
(***************************************************************************)
THEOREM ResidentInvariance ==
  ASSUME RamSuffices
  PROVE  Spec => []ResidentInv
<1>1. Spec => []RegionsDisjoint
  BY Ample, NoByteHasTwoOwners
<1>2. Init => MappedBelowBrk /\ FramesOwned /\ ~wild
  BY InitResident
<1>3. TypeOK /\ RegionsDisjoint /\ (MappedBelowBrk /\ FramesOwned /\ ~wild) /\ [Next]_vars
        => (MappedBelowBrk /\ FramesOwned /\ ~wild)'
  BY ResidentStep DEF ResidentInv
<1>4. TypeOK /\ RegionsDisjoint /\ (MappedBelowBrk /\ FramesOwned /\ ~wild) => ResidentInv
  BY DEF ResidentInv
<1> QED BY <1>1, <1>2, <1>3, <1>4, VMemTypeCorrect, PTL DEF Spec

(***************************************************************************)
(* With RAM for every page, each frame is on the free list once or mapped  *)
(* by one page of one process, in every run: alloc_pages_range and         *)
(* vmap_page_range neither leak a frame nor share one.                     *)
(***************************************************************************)
THEOREM FramesStayPartitioned ==
  ASSUME RamSuffices
  PROVE  Spec => []FramesPartitioned
<1>1. ASSUME ResidentInv PROVE FramesPartitioned
  <2>1. FramesOwned /\ DOMAIN ram_free = 1 .. Len(ram_free)
    BY <1>1 DEF ResidentInv, TypeOK
  <2>2. IsInjective(ram_free)
    BY <2>1 DEF FramesOwned, IsInjective
  <2>3. \A pg \in Mapped : pg \in Procs \X Pages /\ Entry(pg[1], pg[2]).present
    BY DEF Mapped
  <2>4. ASSUME NEW pg \in Mapped, NEW qg \in Mapped, FrameOf(pg) = FrameOf(qg) PROVE pg = qg
    <3>1. pg[1] = qg[1] /\ pg[2] = qg[2]
      BY <2>1, <2>3, <2>4 DEF FramesOwned, FrameOf
    <3> QED BY <2>3, <3>1
  <2>5. ASSUME NEW pg \in Mapped PROVE FrameOf(pg) \in (0 .. RamFrames - 1) \ ToSet(ram_free)
    BY <2>1, <2>3 DEF FramesOwned, FrameOf, ToSet
  <2>6. ASSUME NEW f \in (0 .. RamFrames - 1) \ ToSet(ram_free)
        PROVE  f \in {FrameOf(pg) : pg \in Mapped}
    <3>1. ~ \E k \in 1 .. Len(ram_free) : ram_free[k] = f
      BY <2>1 DEF ToSet
    <3>2. PICK q \in Procs, g \in Pages : Entry(q, g).present /\ Fpn(Entry(q, g)) = f
      BY <2>1, <3>1 DEF FramesOwned
    <3>3. <<q, g>> \in Mapped /\ FrameOf(<<q, g>>) = f
      BY <3>2 DEF Mapped, FrameOf
    <3> QED BY <3>3
  <2> QED BY <2>2, <2>4, <2>5, <2>6 DEF FramesPartitioned, NoAliasing
<1> QED BY <1>1, ResidentInvariance, PTL

(***************************************************************************)
(* With RAM for every page, the pages of an allocated region are           *)
(* "immediately accessible without a fault" (inc_vma_limit), and no access *)
(* of a program that stays in its regions leaves the storage of a device.  *)
(***************************************************************************)
THEOREM AllocatedRegionsAreMapped ==
  ASSUME RamSuffices
  PROVE  Spec => []AllocatedIsMapped
<1>1. ASSUME ResidentInv PROVE AllocatedIsMapped
  <2>1. ASSUME NEW p \in Procs, NEW r \in Rgids,
               NEW a \in symrgtbl[p][r].start .. symrgtbl[p][r].end - 1
        PROVE  Entry(p, Pgn(a)).present
    BY <1>1, ResidentParts, OwnedIsBelowBrk, BelowBrkIsMapped
  <2> QED BY <1>1, <2>1 DEF AllocatedIsMapped, ResidentInv
<1> QED BY <1>1, ResidentInvariance, PTL

-----------------------------------------------------------------------------
(* paging is invisible                                                     *)

Owned(q, b) == \E r \in Rgids : b \in symrgtbl[q][r].start .. symrgtbl[q][r].end - 1

TheByte(q, b) == ram[Fpn(Entry(q, Pgn(b)))][Offst(b)]

ByteMap == [q \in Procs |-> [b \in Addrs |-> ByteAt(q, b)]]

(***************************************************************************)
(* Every owned byte has its place in RAM.                                  *)
(***************************************************************************)
BytesInRam ==
  \A q \in Procs, b \in Addrs :
    /\ ByteAt(q, b) = IF Owned(q, b) THEN TheByte(q, b) ELSE None
    /\ Owned(q, b) => TheByte(q, b) \in Vals \cup {0}

LEMMA OwnedHasItsPlace ==
  ASSUME RamSuffices, ResidentInv, NEW q \in Procs, NEW b \in Addrs, Owned(q, b)
  PROVE  /\ Pgn(b) = b \div PageSz /\ Pgn(b) \in Pages /\ Pgn(b) < Used(q) /\ b \in Nat
         /\ Entry(q, Pgn(b)).present /\ Fpn(Entry(q, Pgn(b))) \in 0 .. RamFrames - 1
         /\ Offst(b) \in 0 .. PageSz - 1
<1>1. PICK r \in Rgids : b \in symrgtbl[q][r].start .. symrgtbl[q][r].end - 1
  BY DEF Owned
<1>2. b \in Nat /\ b < sbrk[q]
  BY <1>1, ResidentParts, OwnedIsBelowBrk
<1> QED BY <1>2, BelowBrkIsMapped, PgnIsPage

LEMMA BytesAreInRam ==
  ASSUME RamSuffices, ResidentInv PROVE BytesInRam
<1> SUFFICES ASSUME NEW q \in Procs, NEW b \in Addrs
             PROVE  /\ ByteAt(q, b) = IF Owned(q, b) THEN TheByte(q, b) ELSE None
                    /\ Owned(q, b) => TheByte(q, b) \in Vals \cup {0}
  BY DEF BytesInRam
<1>1. CASE ~Owned(q, b)
  BY <1>1 DEF ByteAt, Owned
<1>2. CASE Owned(q, b)
  <2>1. PICK f \in 0 .. RamFrames - 1 : f = Fpn(Entry(q, Pgn(b)))
    BY <1>2, OwnedHasItsPlace
  <2>2. f < RamFrames /\ Offst(b) \in 0 .. PageSz - 1
    BY <1>2, <2>1, OwnedHasItsPlace, Layout
  <2>3. ByteAt(q, b) = TheByte(q, b)
    BY <1>2, <2>1, <2>2 DEF ByteAt, Owned, TheByte
  <2>4. ram[f] \in Frame
    BY DEF ResidentInv, TypeOK
  <2>5. TheByte(q, b) \in Vals \cup {0}
    BY <2>1, <2>2, <2>4 DEF TheByte, Frame
  <2> QED BY <1>2, <2>3, <2>5
<1> QED BY <1>1, <1>2

(***************************************************************************)
(* A step that stores nothing keeps the bytes that are owned, wherever the *)
(* new pages of inc_vma_limit go.                                          *)
(***************************************************************************)
OwnedStay == \A q \in Procs, b \in Addrs : Owned(q, b) => TheByte(q, b)' = TheByte(q, b)

LEMMA NoStoreKeepsBytes ==
  ASSUME RamSuffices, ResidentInv, [Next]_vars, ram' = ram
  PROVE  OwnedStay
<1> SUFFICES ASSUME NEW q \in Procs, NEW b \in Addrs, Owned(q, b)
             PROVE  TheByte(q, b)' = TheByte(q, b)
  BY DEF OwnedStay
<1>1. SUFFICES pgtbl'[q][PdFromPagenum(Pgn(b))] = pgtbl[q][PdFromPagenum(Pgn(b))]
  BY <1>1 DEF TheByte, Entry, Fpn
<1>2. CASE PagesStay
  BY <1>2 DEF PagesStay
<1>3. CASE GrowStep
  <2>1. PICK p \in Procs, size \in Sizes :
          /\ sbrk[p] + PagesFor(size) * PageSz <= MaxPages * PageSz
          /\ Grow(p, size)
    BY <1>3 DEF GrowStep
  <2> DEFINE first == sbrk[p] \div PageSz
             New == first .. first + PagesFor(size) - 1
  <2>2. size \in Nat /\ PathsSuffice /\ TypeOK
    BY VMemAssumption, Ample DEF ResidentInv
  <2>3. /\ first \in Nat
        /\ \A o \in Procs, h \in Pages : o # p \/ h \notin New => Entry(o, h)' = Entry(o, h)
    BY <2>1, <2>2, GrowPages
  <2>4. Pgn(b) \in Pages /\ Pgn(b) < Used(q)
    BY OwnedHasItsPlace
  <2>5. q = p => Pgn(b) \notin New
    <3>1. q = p => Pgn(b) < first
      BY <2>4 DEF Used
    <3>2. Pgn(b) \in Nat
      BY <2>4, Layout DEF Pages
    <3> HIDE DEF first
    <3> QED BY <2>3, <3>1, <3>2
  <2> HIDE DEF New
  <2> QED BY <2>3, <2>4, <2>5 DEF Entry
<1> QED BY <1>2, <1>3, GrowsOrStays

LEMMA SameByteMap ==
  ASSUME BytesInRam, BytesInRam', NEW q \in Procs,
         \A b \in Addrs : Owned(q, b)' <=> Owned(q, b),
         \A b \in Addrs : Owned(q, b) => TheByte(q, b)' = TheByte(q, b)
  PROVE  \A b \in Addrs : ByteAt(q, b)' = ByteAt(q, b)
BY DEF BytesInRam

LEMMA OthersBytes ==
  ASSUME NEW p \in Procs, NEW r \in Rgids, NEW b
  PROVE  b \in Mem!OwnedByOthers(p, r)
           <=> \E s \in Rgids : s # r /\ b \in symrgtbl[p][s].start .. symrgtbl[p][s].end - 1
BY DEF Mem!OwnedByOthers, Mem!Extent

LEMMA AllocIsMemAlloc ==
  ASSUME TypeOK, BytesInRam, BytesInRam', OwnedStay,
         NEW p \in Procs, NEW r \in Rgids, NEW size \in Sizes, NEW start \in Addrs,
         ins' = <<"ALLOC", p, r, size>>,
         symrgtbl' = [symrgtbl EXCEPT ![p][r] = [start |-> start, end |-> start + size]],
         start .. start + size - 1 \subseteq Addrs,
         \A s \in Rgids : s # r =>
           \A b \in start .. start + size - 1 : b \notin symrgtbl[p][s].start .. symrgtbl[p][s].end - 1
  PROVE  Mem!MemAlloc(p, r, size)
<1> DEFINE New == start .. start + size - 1
           Others == Mem!OwnedByOthers(p, r)
           new == [b \in New |-> TheByte(p, b)']
           after == [b \in Addrs |-> CASE b \in New -> new[b]
                                       [] b \in Others -> ByteMap[p][b]
                                       [] OTHER -> None]
<1>1. symrgtbl \in [Procs -> [Rgids -> Region]]
  BY DEF TypeOK
<1>2. /\ symrgtbl'[p][r] = [start |-> start, end |-> start + size]
      /\ \A s \in Rgids : s # r => symrgtbl'[p][s] = symrgtbl[p][s]
      /\ \A q \in Procs : q # p => symrgtbl'[q] = symrgtbl[q]
  BY <1>1
<1>3. \A b \in Addrs : b \in Others
        <=> \E s \in Rgids : s # r /\ b \in symrgtbl[p][s].start .. symrgtbl[p][s].end - 1
  BY OthersBytes
<1>4. \A b \in Addrs : Owned(p, b)' <=> b \in New \/ b \in Others
  <2>1. symrgtbl'[p][r].start .. symrgtbl'[p][r].end - 1 = New
    <3>1. symrgtbl'[p][r].start = start /\ symrgtbl'[p][r].end = start + size
      BY <1>2
    <3>2. start \in Nat /\ size \in Nat
      BY VMemAssumption, Layout DEF Addrs
    <3>3. ASSUME NEW x, NEW y, x = start, y = start + size PROVE x .. y - 1 = New
      BY <3>2, <3>3
    <3> HIDE DEF New
    <3> QED BY <3>1, <3>3
  <2> SUFFICES ASSUME NEW b \in Addrs PROVE Owned(p, b)' <=> b \in New \/ b \in Others
    OBVIOUS
  <2>2. Owned(p, b)' <=> \E s \in Rgids : b \in symrgtbl'[p][s].start .. symrgtbl'[p][s].end - 1
    BY DEF Owned
  <2> HIDE DEF New, Others
  <2>3. ASSUME NEW s \in Rgids, b \in symrgtbl'[p][s].start .. symrgtbl'[p][s].end - 1
        PROVE  b \in New \/ b \in Others
    BY <1>2, <1>3, <2>1, <2>3
  <2>4. ASSUME b \in Others
        PROVE  \E s \in Rgids : b \in symrgtbl'[p][s].start .. symrgtbl'[p][s].end - 1
    BY <1>2, <1>3, <2>4
  <2> QED BY <2>1, <2>2, <2>3, <2>4
<1>5. \A b \in Addrs : b \in Others => Owned(p, b)
  BY <1>3 DEF Owned
<1>6. \A b \in New : b \in Addrs /\ b \notin Others
  BY <1>3
<1> HIDE DEF New, Others
<1>7. \A b \in Addrs : ByteAt(p, b)' = after[b]
  <2> SUFFICES ASSUME NEW b \in Addrs PROVE ByteAt(p, b)' = after[b]
    OBVIOUS
  <2>1. CASE b \in New
    <3>1. after[b] = new[b]
      BY <1>6, <2>1
    <3>2. new[b] = TheByte(p, b)' /\ Owned(p, b)'
      BY <1>4, <2>1
    <3> QED BY <3>1, <3>2 DEF BytesInRam
  <2>2. CASE b \notin New /\ b \in Others
    <3>1. after[b] = ByteAt(p, b)
      BY <2>2 DEF ByteMap
    <3>2. Owned(p, b) /\ Owned(p, b)' /\ TheByte(p, b)' = TheByte(p, b)
      BY <1>4, <1>5, <2>2 DEF OwnedStay
    <3> QED BY <3>1, <3>2 DEF BytesInRam
  <2>3. CASE b \notin New /\ b \notin Others
    <3>1. after[b] = None
      BY <2>3
    <3>2. ~Owned(p, b)'
      BY <1>4, <2>3
    <3> QED BY <3>1, <3>2 DEF BytesInRam
  <2> QED BY <2>1, <2>2, <2>3
<1>8. \A q \in Procs : q # p => \A b \in Addrs : ByteAt(q, b)' = ByteAt(q, b)
  <2> SUFFICES ASSUME NEW q \in Procs, q # p PROVE \A b \in Addrs : ByteAt(q, b)' = ByteAt(q, b)
    OBVIOUS
  <2>1. \A b \in Addrs : Owned(q, b)' <=> Owned(q, b)
    BY <1>2 DEF Owned
  <2> QED BY <2>1, SameByteMap DEF OwnedStay
<1>9. new \in [New -> Vals \cup {0}]
  BY <1>4, <1>6 DEF BytesInRam
<1> HIDE DEF new
<1>10. ByteMap' = [ByteMap EXCEPT ![p] = after]
  <2>1. after = [b \in Addrs |-> after[b]]
    OBVIOUS
  <2> HIDE DEF after
  <2> QED BY <1>7, <1>8, <2>1 DEF ByteMap
<1>11. New \subseteq Addrs \ Others
  BY <1>6
<1> QED BY <1>9, <1>10, <1>11 DEF Mem!MemAlloc, ByteMap, New, Others

LEMMA FreeIsMemFree ==
  ASSUME TypeOK, BytesInRam, BytesInRam', OwnedStay,
         NEW p \in Procs, NEW r \in Rgids, ins' = <<"FREE", p, r>>, Free(p, r)
  PROVE  Mem!MemFree(p, r)
<1> DEFINE Others == Mem!OwnedByOthers(p, r)
           after == [b \in Addrs |-> IF b \in Others THEN ByteMap[p][b] ELSE None]
<1>1. symrgtbl \in [Procs -> [Rgids -> Region]]
      /\ symrgtbl' = [symrgtbl EXCEPT ![p][r] = [start |-> 0, end |-> 0]]
  BY DEF TypeOK, Free, SetSymbol
<1>2. /\ symrgtbl'[p][r].start = 0 /\ symrgtbl'[p][r].end = 0
      /\ \A s \in Rgids : s # r => symrgtbl'[p][s] = symrgtbl[p][s]
      /\ \A q \in Procs : q # p => symrgtbl'[q] = symrgtbl[q]
  BY <1>1
<1>3. \A b \in Addrs : b \in Others
        <=> \E s \in Rgids : s # r /\ b \in symrgtbl[p][s].start .. symrgtbl[p][s].end - 1
  BY OthersBytes
<1> HIDE DEF Others
<1>4. \A b \in Addrs : Owned(p, b)' <=> b \in Others
  <2> SUFFICES ASSUME NEW b \in Addrs PROVE Owned(p, b)' <=> b \in Others
    OBVIOUS
  <2>1. Owned(p, b)' <=> \E s \in Rgids : b \in symrgtbl'[p][s].start .. symrgtbl'[p][s].end - 1
    BY DEF Owned
  <2>2. b \notin symrgtbl'[p][r].start .. symrgtbl'[p][r].end - 1
    BY <1>2
  <2>3. ASSUME NEW s \in Rgids, b \in symrgtbl'[p][s].start .. symrgtbl'[p][s].end - 1
        PROVE  b \in Others
    BY <1>2, <1>3, <2>2, <2>3
  <2>4. ASSUME b \in Others
        PROVE  \E s \in Rgids : b \in symrgtbl'[p][s].start .. symrgtbl'[p][s].end - 1
    BY <1>2, <1>3, <2>4
  <2> QED BY <2>1, <2>3, <2>4
<1>5. \A b \in Addrs : b \in Others => Owned(p, b)
  BY <1>3 DEF Owned
<1>6. ASSUME NEW b \in Addrs PROVE ByteAt(p, b)' = after[b]
  <2>1. CASE b \in Others
    <3>1. after[b] = ByteAt(p, b)
      BY <2>1 DEF ByteMap
    <3>2. Owned(p, b) /\ Owned(p, b)' /\ TheByte(p, b)' = TheByte(p, b)
      BY <1>4, <1>5, <2>1 DEF OwnedStay
    <3> QED BY <3>1, <3>2 DEF BytesInRam
  <2>2. CASE b \notin Others
    BY <1>4, <2>2 DEF BytesInRam
  <2> QED BY <2>1, <2>2
<1>7. ASSUME NEW q \in Procs, q # p PROVE \A b \in Addrs : ByteAt(q, b)' = ByteAt(q, b)
  <2>1. \A b \in Addrs : Owned(q, b)' <=> Owned(q, b)
    BY <1>2, <1>7 DEF Owned
  <2> QED BY <2>1, SameByteMap DEF OwnedStay
<1>8. ByteMap' = [ByteMap EXCEPT ![p] = after]
  <2>1. after = [b \in Addrs |-> after[b]]
    OBVIOUS
  <2> HIDE DEF after
  <2> QED BY <1>6, <1>7, <2>1 DEF ByteMap
<1> QED BY <1>1, <1>8 DEF Mem!MemFree, Mem!NoRegion, ByteMap, Others

(***************************************************************************)
(* Two addresses of one page with the same offset are the same.            *)
(***************************************************************************)
LEMMA SamePlaceSameAddress ==
  ASSUME NEW a \in Nat, NEW b \in Nat, a \div PageSz = b \div PageSz, Offst(a) = Offst(b)
  PROVE  a = b
<1>1. ASSUME NEW e \in Nat \ {0}, a \div e = b \div e, a % e = b % e PROVE a = b
  BY <1>1
<1> QED BY <1>1, Layout DEF Offst

LEMMA WriteIsMemWrite ==
  ASSUME RamSuffices, ResidentInv, BytesInRam, BytesInRam', NEW p \in Procs, NEW r \in Rgids,
         NEW off \in Offsets, NEW v \in Vals, NEW found \in Lookup,
         ins' = <<"WRITE", p, r, off, v>>, Write(p, r, off, v, found)
  PROVE  /\ off \in 0 .. symrgtbl[p][r].end - symrgtbl[p][r].start - 1
         /\ Mem!MemWrite(p, r, off, v)
<1> DEFINE a == Address(p, r, off)
           f == Fpn(Entry(p, Pgn(a)))
<1>1. /\ MayAccess(p, r, off) /\ f \in 0 .. RamFrames - 1
      /\ ram' = [ram EXCEPT ![f][Offst(a)] = v]
      /\ symrgtbl' = symrgtbl /\ pgtbl' = pgtbl
  BY WriteHits DEF region_vars
<1>2. a \in symrgtbl[p][r].start .. symrgtbl[p][r].end - 1
      /\ off \in 0 .. symrgtbl[p][r].end - symrgtbl[p][r].start - 1
  BY <1>1, AccessHits
<1>3. a \in Addrs /\ Owned(p, a)
  BY <1>1, <1>2 DEF MayAccess, Owned
<1>4. Pgn(a) = a \div PageSz /\ Pgn(a) \in Pages /\ a \in Nat /\ Entry(p, Pgn(a)).present
      /\ Offst(a) \in 0 .. PageSz - 1
  BY <1>3, OwnedHasItsPlace
<1>5. PICK x \in Addrs : x = a
  BY <1>3
<1>6. PICK fr \in 0 .. RamFrames - 1 : fr = f
  BY <1>1
<1> HIDE DEF a, f
<1>7. \A q \in Procs, b \in Addrs : Owned(q, b)' <=> Owned(q, b)
  BY <1>1 DEF Owned
<1>8. \A q \in Procs, b \in Addrs :
        TheByte(q, b)' = ram'[Fpn(Entry(q, Pgn(b)))][Offst(b)]
  BY <1>1 DEF TheByte, Entry, Fpn
<1>9. /\ ram \in [0 .. RamFrames - 1 -> Frame] /\ ram[fr] \in Frame
      /\ ram' = [ram EXCEPT ![fr] = [ram[fr] EXCEPT ![Offst(x)] = v]]
  BY <1>1, <1>5, <1>6 DEF ResidentInv, TypeOK
<1>10. /\ ram'[fr][Offst(x)] = v
       /\ \A o \in 0 .. PageSz - 1 : o # Offst(x) => ram'[fr][o] = ram[fr][o]
       /\ \A g \in 0 .. RamFrames - 1 : g # fr => ram'[g] = ram[g]
  BY <1>4, <1>5, <1>9 DEF Frame
<1>11. TheByte(p, x)' = v
  BY <1>3, <1>5, <1>6, <1>8, <1>10 DEF f
<1>12. ASSUME NEW q \in Procs, NEW b \in Addrs, Owned(q, b), q # p \/ b # x
       PROVE  TheByte(q, b)' = TheByte(q, b)
  <2>1. Pgn(b) = b \div PageSz /\ Pgn(b) \in Pages /\ b \in Nat /\ Entry(q, Pgn(b)).present
        /\ Offst(b) \in 0 .. PageSz - 1 /\ Fpn(Entry(q, Pgn(b))) \in 0 .. RamFrames - 1
    BY <1>12, OwnedHasItsPlace
  <2>2. PICK g \in 0 .. RamFrames - 1 : g = Fpn(Entry(q, Pgn(b)))
    BY <2>1
  <2>3. CASE g # fr
    BY <1>8, <1>10, <2>2, <2>3 DEF TheByte
  <2>4. CASE g = fr
    <3>1. FramesOwned
      BY ResidentParts
    <3>2. q = p /\ Pgn(b) = Pgn(x)
      BY <1>4, <1>5, <1>6, <2>1, <2>2, <2>4, <3>1 DEF FramesOwned, f
    <3>3. Offst(b) # Offst(x)
      BY <1>4, <1>5, <1>12, <2>1, <3>2, SamePlaceSameAddress
    <3> QED BY <1>8, <1>10, <2>1, <2>2, <2>4, <3>3 DEF TheByte
  <2> QED BY <2>3, <2>4
<1>13. ASSUME NEW q \in Procs, NEW b \in Addrs, q # p \/ b # x PROVE ByteAt(q, b)' = ByteAt(q, b)
  BY <1>7, <1>12, <1>13 DEF BytesInRam
<1>14. ByteAt(p, x)' = v
  BY <1>3, <1>5, <1>7, <1>11 DEF BytesInRam
<1>15. ByteMap' = [ByteMap EXCEPT ![p] = [ByteMap[p] EXCEPT ![x] = v]]
  <2>1. ByteMap[p] = [b \in Addrs |-> ByteAt(p, b)]
    BY DEF ByteMap
  <2>2. [ByteMap[p] EXCEPT ![x] = v] = [b \in Addrs |-> ByteAt(p, b)']
    BY <1>13, <1>14, <2>1
  <2> QED BY <1>13, <2>2 DEF ByteMap
<1>16. x = symrgtbl[p][r].start + off
  BY <1>5 DEF a, Address
<1>17. ByteMap' = [ByteMap EXCEPT ![p][symrgtbl[p][r].start + off] = v]
  BY <1>15, <1>16
<1> QED BY <1>1, <1>2, <1>17 DEF Mem!MemWrite, ByteMap

LEMMA BytesUnchanged ==
  ASSUME BytesInRam, BytesInRam', OwnedStay, symrgtbl' = symrgtbl
  PROVE  ByteMap' = ByteMap
<1>1. \A q \in Procs, b \in Addrs : Owned(q, b)' <=> Owned(q, b)
  BY DEF Owned
<1>2. \A q \in Procs, b \in Addrs : ByteAt(q, b)' = ByteAt(q, b)
  BY <1>1, SameByteMap DEF OwnedStay
<1> QED BY <1>2 DEF ByteMap

LEMMA AllocMaps ==
  ASSUME RamSuffices, ResidentInv, ResidentInv', BytesInRam, BytesInRam', [Next]_vars,
         NEW p \in Procs, NEW r \in Rgids, NEW size \in Sizes, NEW found \in Lookup,
         ins' = <<"ALLOC", p, r, size>>,
         AllocReuse(p, r, size) \/ AllocGrow(p, r, size, found)
  PROVE  Mem!MemAlloc(p, r, size)
<1>1. TypeOK /\ RegionsDisjoint /\ MappedBelowBrk' /\ TypeOK' /\ RegionsDisjoint'
  BY DEF ResidentInv
<1>2. size \in Nat \ {0}
  BY VMemAssumption
<1>3. ram' = ram
  BY DEF AllocReuse, AllocGrow
<1>4. OwnedStay
  BY <1>3, NoStoreKeepsBytes
<1>5. \E start \in Nat : symrgtbl' = [symrgtbl EXCEPT ![p][r] = [start |-> start, end |-> start + size]]
  <2>1. CASE AllocReuse(p, r, size)
    <3> DEFINE k == FirstFit(p, size)
    <3>1. vm_freerg_list[p] \in Seq(Region) /\ k # 0
      BY <1>1, <2>1 DEF TypeOK, AllocReuse
    <3>2. k \in 1 .. Len(vm_freerg_list[p])
      BY <3>1, FirstFitFinds
    <3>3. vm_freerg_list[p][k].start \in Nat
      <4> HIDE DEF k
      <4> QED BY <3>1, <3>2, RegionBounds
    <3> QED BY <2>1, <3>3 DEF AllocReuse, SetSymbol
  <2>2. CASE AllocGrow(p, r, size, found)
    BY <1>1, <2>2 DEF AllocGrow, SetSymbol, TypeOK
  <2> QED BY <2>1, <2>2
<1>6. PICK start \in Nat : symrgtbl' = [symrgtbl EXCEPT ![p][r] = [start |-> start, end |-> start + size]]
  BY <1>5
<1>7. /\ symrgtbl'[p][r].start = start /\ symrgtbl'[p][r].end = start + size
      /\ \A s \in Rgids : s # r => symrgtbl'[p][s] = symrgtbl[p][s]
  BY <1>1, <1>6 DEF TypeOK
<1>8. start + size <= MaxPages * PageSz
  <2>1. start + size <= sbrk'[p]
    BY <1>1, <1>7 DEF RegionsDisjoint
  <2>2. sbrk'[p] = Used(p)' * PageSz /\ Used(p)' <= MaxPages /\ sbrk'[p] \in Nat
    BY <1>1 DEF MappedBelowBrk, TypeOK
  <2>3. Used(p)' \in Nat
    <3>1. ASSUME NEW b \in Nat \ {0}, NEW t \in Nat PROVE t \div b \in Nat
      OBVIOUS
    <3> QED BY <2>2, <3>1, Layout DEF Used
  <2>4. ASSUME NEW u \in Nat, NEW m \in Nat, NEW b \in Nat, u <= m PROVE u * b <= m * b /\ m * b \in Nat
    BY <2>4
  <2>5. sbrk'[p] <= MaxPages * PageSz /\ MaxPages * PageSz \in Nat
    BY <2>2, <2>3, <2>4, Layout
  <2> QED BY <1>2, <2>1, <2>2, <2>5
<1>9. start \in Addrs /\ start .. start + size - 1 \subseteq Addrs
  <2>1. MaxPages * PageSz \in Nat
    BY MultiplesDivide, Layout
  <2> QED BY <1>2, <1>8, <2>1 DEF Addrs
<1>10. ASSUME NEW s \in Rgids, s # r, NEW b \in start .. start + size - 1
       PROVE  b \notin symrgtbl[p][s].start .. symrgtbl[p][s].end - 1
  <2>1. Disjoint(symrgtbl'[p][r], symrgtbl'[p][s])
    BY <1>1, <1>10 DEF RegionsDisjoint, SymbolsDisjoint
  <2>2. symrgtbl[p][s].start \in Nat /\ symrgtbl[p][s].end \in Nat
        /\ symrgtbl'[p][s] = symrgtbl[p][s]
    <3>1. symrgtbl[p][s] \in Region
      BY <1>1 DEF TypeOK
    <3> QED BY <1>7, <1>10, <3>1, RegionBounds
  <2>3. start < start + size /\ symrgtbl[p][s].start < symrgtbl[p][s].end
          => start + size <= symrgtbl[p][s].start \/ symrgtbl[p][s].end <= start
    BY <1>7, <2>1, <2>2 DEF Disjoint
  <2> QED BY <1>2, <2>2, <2>3
<1> QED BY <1>1, <1>4, <1>6, <1>9, <1>10, AllocIsMemAlloc

(***************************************************************************)
(* Every instruction does what Memory.tla promises.                        *)
(***************************************************************************)
LEMMA StepIsMemStep ==
  ASSUME RamSuffices, "IO_WRITE" \notin UserOps, [Next]_vars,
         ResidentInv, ResidentInv', BytesInRam, BytesInRam'
  PROVE  [Mem!MemNext]_(Mem!mem_vars)
<1>1. ASSUME UNCHANGED <<symrgtbl, ram>> PROVE ByteMap' = ByteMap
  BY <1>1, NoStoreKeepsBytes, BytesUnchanged
<1>2. CASE UNCHANGED vars
  <2>1. UNCHANGED <<symrgtbl, ram>> /\ ins' = ins
    BY <1>2 DEF vars, region_vars
  <2> QED BY <1>1, <2>1 DEF Mem!mem_vars, ByteMap
<1>3. ASSUME NEW p \in Procs, Syscall(p) PROVE Mem!MemNext
  <2>1. UNCHANGED <<symrgtbl, ram>>
    <3>1. \A first, n : ~SyscallMap(p, first, n)
      BY Ample DEF SyscallMap
    <3>2. \A f, off, v : ~SyscallWrite(f, off, v)
      BY DEF SyscallWrite
    <3> QED BY <1>3, <3>1, <3>2 DEF Syscall, SyscallInc, SyscallSwp, SyscallRead, region_vars
  <2>2. Mem!MemSyscall(p)
    BY <1>1, <1>3, <2>1 DEF Syscall, Mem!MemSyscall, ByteMap
  <2> QED BY <2>2 DEF Mem!MemNext
<1>4. ASSUME NEW p \in Procs, NEW r \in Rgids, Instruction(p, r) PROVE Mem!MemNext
  <2>1. ASSUME NEW size \in Sizes, NEW found \in Lookup, ins' = <<"ALLOC", p, r, size>>,
               AllocReuse(p, r, size) \/ AllocGrow(p, r, size, found)
        PROVE  Mem!MemNext
    BY <2>1, AllocMaps DEF Mem!MemNext
  <2>2. ASSUME ins' = <<"FREE", p, r>>, Free(p, r) PROVE Mem!MemNext
    <3>1. ram' = ram /\ TypeOK
      BY <2>2 DEF Free, ResidentInv
    <3>2. OwnedStay
      BY <3>1, NoStoreKeepsBytes
    <3> QED BY <2>2, <3>1, <3>2, FreeIsMemFree DEF Mem!MemNext
  <2>3. ASSUME NEW off \in Offsets, NEW v \in Vals, NEW found \in Lookup,
               ins' = <<"WRITE", p, r, off, v>>, Write(p, r, off, v, found)
        PROVE  Mem!MemNext
    <3>1. v \in Vals \cup {0}
      OBVIOUS
    <3>2. off \in 0 .. symrgtbl[p][r].end - symrgtbl[p][r].start - 1 /\ Mem!MemWrite(p, r, off, v)
      BY <2>3, WriteIsMemWrite
    <3> QED BY <3>1, <3>2 DEF Mem!MemNext
  <2>4. ASSUME NEW off \in Offsets, NEW found \in Lookup,
               ins' = <<"READ", p, r, off>>, Read(p, r, off, found)
        PROVE  Mem!MemNext
    <3>1. MayAccess(p, r, off) /\ UNCHANGED <<symrgtbl, ram>>
      BY <2>4, ReadHits DEF region_vars
    <3>2. off \in 0 .. symrgtbl[p][r].end - symrgtbl[p][r].start - 1
      BY <3>1, AccessHits
    <3>3. Mem!MemRead(p, r, off)
      BY <1>1, <2>4, <3>1 DEF Mem!MemRead, ByteMap
    <3> QED BY <3>2, <3>3 DEF Mem!MemNext
  <2> QED BY <1>4, <2>1, <2>2, <2>3, <2>4 DEF Instruction
<1> QED BY <1>2, <1>3, <1>4 DEF Next

(***************************************************************************)
(* Paging is invisible: with RAM for every page, and programs that stay in *)
(* their regions and do not store through physical addresses, the page     *)
(* tables, the allocator and the frame lists implement the memory that     *)
(* Memory.tla promises a program.                                          *)
(***************************************************************************)
THEOREM PagingImplementsMemory ==
  ASSUME RamSuffices, "IO_WRITE" \notin UserOps
  PROVE  Spec => ImplementsMemory
<1>1. ASSUME Init PROVE Mem!MemInit
  <2>1. symrgtbl = [q \in Procs |-> [r \in Rgids |-> EmptyRegion]]
    <3>1. symrgtbl \in [Procs -> [Rgids -> Garbage]] /\ Garbage \subseteq {EmptyRegion}
      BY <1>1, Ample DEF Init
    <3> QED BY <3>1
  <2>2. \A q \in Procs, b \in Addrs : ~Owned(q, b)
    <3>1. \A q \in Procs, r \in Rgids : symrgtbl[q][r].start = 0 /\ symrgtbl[q][r].end = 0
      BY <2>1 DEF EmptyRegion
    <3>2. \A b : b \notin 0 .. 0 - 1
      OBVIOUS
    <3> QED BY <3>1, <3>2 DEF Owned
  <2>3. \A q \in Procs, b \in Addrs : ByteAt(q, b) = None
    BY <2>2 DEF ByteAt, Owned
  <2> QED BY <1>1, <2>1, <2>3 DEF Mem!MemInit, Mem!NoRegion, EmptyRegion, Init
<1>2. ResidentInv => BytesInRam
  BY BytesAreInRam
<1>3. ResidentInv /\ ResidentInv' /\ BytesInRam /\ BytesInRam' /\ [Next]_vars
        => [Mem!MemNext]_(Mem!mem_vars)
  BY StepIsMemStep
<1>4. Spec => []ResidentInv
  BY ResidentInvariance
<1> QED BY <1>1, <1>2, <1>3, <1>4, PTL DEF Spec, ImplementsMemory, Mem!MemSpec
=============================================================================
