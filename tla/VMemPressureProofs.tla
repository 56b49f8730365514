------------------------ MODULE VMemPressureProofs -------------------------
(***************************************************************************)
(* Proofs about VMem.tla when RAM may be too small: what survives the      *)
(* evictions of pg_getpage, whatever the sizes of RAM and swap.            *)
(***************************************************************************)
EXTENDS VMemResidentProofs

(***************************************************************************)
(* What is asked of the programs and of the fields of an entry; nothing is *)
(* asked of the number of frames.  A page touched outside the regions, or  *)
(* cleared by SYSMEM_MAP_OP, could be mapped a second time by a later      *)
(* ALLOC and would then be on the FIFO twice.                              *)
(***************************************************************************)
WellBehaved ==
  /\ RamFrames <= FpnRange /\ MaxPages <= PgnRange /\ MaxPages <= Entries * Entries
  /\ InBounds /\ "MAP" \notin UserOps
  /\ Lookup \subseteq {TRUE} /\ Garbage \subseteq {EmptyRegion}

(***************************************************************************)
(* Two pages that have not been swapped out never translate to the same    *)
(* frame, and their frames are frames of RAM that are not free: when two   *)
(* pages alias (the run vmem_alias), one of them has been evicted.         *)
(***************************************************************************)
ResidentFramesUnique ==
  /\ \A pg, qg \in Mapped \ SwappedOut : FrameOf(pg) = FrameOf(qg) => pg = qg
  /\ \A pg \in Mapped \ SwappedOut : FrameOf(pg) \in (0 .. RamFrames - 1) \ ToSet(ram_free)
-----------------------------------------------------------------------------
(* the inductive invariant                                                 *)

\* FramesOwned for the pages that are not swapped out, without its last part:
\* alloc_pages_range loses frames when it fails.
FramesHeld ==
  /\ \A q, r \in Procs : \A g, h \in Pages :
       Resident(q, g) /\ Resident(r, h) /\ Fpn(Entry(q, g)) = Fpn(Entry(r, h))
         => q = r /\ g = h
  /\ \A q \in Procs, g \in Pages : Resident(q, g) =>
       /\ Fpn(Entry(q, g)) \in 0 .. RamFrames - 1
       /\ \A k \in 1 .. Len(ram_free) : Fpn(Entry(q, g)) # ram_free[k]
  /\ \A j, k \in 1 .. Len(ram_free) : ram_free[j] = ram_free[k] => j = k

OnceEach(list, S) ==
  /\ \A k \in 1 .. Len(list) : list[k] \in S
  /\ \A j, k \in 1 .. Len(list) : list[j] = list[k] => j = k

ResidentPages(q) == {g \in Pages : Resident(q, g)}

\* find_victim_page never meets a page twice, or one that has no frame to give.
FifoResident == \A q \in Procs : OnceEach(fifo_pgn[q], ResidentPages(q))

(***************************************************************************)
(* As long as RAM has a free frame nothing has gone wrong yet: exactly the *)
(* pages below sbrk are mapped, so that no access faults.  When RAM has    *)
(* none, nothing is mapped any more except by eviction.                    *)
(***************************************************************************)
PressureInv ==
  /\ TypeOK /\ RegionsDisjoint
  /\ FramesHeld /\ FifoResident
  /\ ram_free # << >> => MappedBelowBrk
-----------------------------------------------------------------------------
(* lists without repetition                                                *)

LEMMA ConcatOnce ==
  ASSUME NEW S, NEW a \in Seq(S), NEW b \in Seq(S), NEW A, NEW B,
         OnceEach(a, A), OnceEach(b, B), A \cap B = {}
  PROVE  OnceEach(a \o b, A \cup B)
<1> DEFINE c == a \o b
           n == Len(a)
<1>1. /\ n \in Nat /\ Len(b) \in Nat /\ Len(c) = n + Len(b)
      /\ \A j \in 1 .. n : c[j] = a[j]
      /\ \A j \in n + 1 .. n + Len(b) : c[j] = b[j - n]
  BY ConcatElements
<1> HIDE DEF c, n
<1>2. ASSUME NEW k \in 1 .. Len(c), k <= n PROVE k \in 1 .. n /\ c[k] = a[k] /\ c[k] \in A
  <2>1. k \in 1 .. n
    BY <1>1, <1>2
  <2> QED BY <1>1, <2>1 DEF OnceEach, n
<1>3. ASSUME NEW k \in 1 .. Len(c), ~(k <= n)
      PROVE  k - n \in 1 .. Len(b) /\ c[k] = b[k - n] /\ c[k] \in B
  <2>1. k \in n + 1 .. n + Len(b) /\ k - n \in 1 .. Len(b)
    BY <1>1, <1>3
  <2> QED BY <1>1, <2>1 DEF OnceEach
<1>4. ASSUME NEW j \in 1 .. Len(c), NEW k \in 1 .. Len(c), c[j] = c[k] PROVE j = k
  <2>1. CASE j <= n /\ k <= n
    BY <1>2, <1>4, <2>1 DEF OnceEach, n
  <2>2. CASE ~(j <= n) /\ ~(k <= n)
    <3>1. j - n = k - n
      BY <1>3, <1>4, <2>2 DEF OnceEach
    <3> QED BY <1>1, <3>1
  <2>3. (j <= n) = (k <= n)
    BY <1>2, <1>3, <1>4
  <2> QED BY <2>1, <2>2, <2>3
<1>5. \A k \in 1 .. Len(c) : c[k] \in A \cup B
  BY <1>2, <1>3
<1> QED BY <1>4, <1>5 DEF OnceEach, c

(***************************************************************************)
(* find_victim_page takes the oldest page off the FIFO.                    *)
(***************************************************************************)
LEMMA FrontOnce ==
  ASSUME NEW S, NEW s \in Seq(S), s # << >>, NEW A, OnceEach(s, A)
  PROVE  /\ Front(s) \in Seq(S) /\ Last(s) \in A /\ Last(s) \in S
         /\ OnceEach(Front(s), A \ {Last(s)})
<1>1. /\ Last(s) \in S /\ Last(s) = s[Len(s)] /\ Len(s) \in Nat \ {0}
      /\ Front(s) \in Seq(S) /\ Len(Front(s)) = Len(s) - 1
      /\ \A j \in 1 .. Len(s) - 1 : Front(s)[j] = s[j]
  BY FrontProperties
<1>2. \A j \in 1 .. Len(s) - 1 : j \in 1 .. Len(s) /\ j # Len(s)
  BY <1>1
<1>3. Len(s) \in 1 .. Len(s)
  BY <1>1
<1>4. \A j \in 1 .. Len(s) - 1 : Front(s)[j] \in A \ {Last(s)}
  BY <1>1, <1>2, <1>3 DEF OnceEach
<1>5. \A j, k \in 1 .. Len(s) - 1 : Front(s)[j] = Front(s)[k] => j = k
  BY <1>1, <1>2 DEF OnceEach
<1> QED BY <1>1, <1>3, <1>4, <1>5 DEF OnceEach

-----------------------------------------------------------------------------
(* growing                                                                 *)

LEMMA Behaved ==
  ASSUME WellBehaved
  PROVE  /\ PathsSuffice /\ RamFrames <= FpnRange /\ MaxPages <= PgnRange
         /\ "MAP" \notin UserOps /\ Lookup \subseteq {TRUE} /\ Garbage \subseteq {EmptyRegion}
         /\ InBounds
BY DEF WellBehaved, PathsSuffice

LEMMA PressureParts ==
  ASSUME PressureInv
  PROVE  /\ TypeOK /\ RegionsDisjoint /\ FramesHeld /\ FifoResident
         /\ ram_free # << >> => MappedBelowBrk
BY DEF PressureInv

(***************************************************************************)
(* An allocation needs at least one page.                                  *)
(***************************************************************************)
LEMMA GrowTakesFrames ==
  ASSUME TypeOK, NEW p \in Procs, NEW size \in Sizes, Grow(p, size)
  PROVE  ram_free # << >>
<1>1. size \in Nat \ {0} /\ Len(ram_free) \in Nat
  BY VMemAssumption DEF TypeOK
<1>2. ASSUME NEW b \in Nat \ {0} PROVE (size + b - 1) \div b >= 1
  BY <1>1, <1>2
<1>3. PagesFor(size) >= 1 /\ PagesFor(size) \in Nat
  BY <1>1, <1>2, PagesForCovers, Layout DEF PagesFor
<1>4. Len(ram_free) >= 1
  BY <1>1, <1>3 DEF Grow
<1> QED BY <1>4

LEMMA GrowKeepsPressure ==
  ASSUME WellBehaved, PressureInv, NEW p \in Procs, NEW size \in Sizes,
         sbrk[p] + PagesFor(size) * PageSz <= MaxPages * PageSz,
         Grow(p, size), swp_free' = swp_free
  PROVE  FramesHeld' /\ FifoResident' /\ MappedBelowBrk'
<1> DEFINE n == PagesFor(size)
           first == sbrk[p] \div PageSz
           New == first .. first + n - 1
           a == [k \in 1 .. n |-> first + n - k]
           b == fifo_pgn[p]
<1>1. /\ TypeOK /\ FramesHeld /\ FifoResident /\ MappedBelowBrk /\ size \in Nat
      /\ PathsSuffice /\ RamFrames <= FpnRange
  BY PressureParts, Behaved, GrowTakesFrames, VMemAssumption
<1>2. /\ n \in Nat /\ first \in Nat /\ New \subseteq Pages
      /\ \A q \in Procs, h \in Pages : q # p \/ h \notin New => Entry(q, h)' = Entry(q, h)
      /\ \A k \in 1 .. Len(ram_free) : ram_free[k] \in 0 .. RamFrames - 1
      /\ Len(ram_free) \in Nat /\ MappedBelowBrk'
  BY <1>1, GrowMaps
<1>3. \A h \in New :
        /\ h - first + 1 \in 1 .. n /\ h - first + 1 \in 1 .. Len(ram_free)
        /\ Entry(p, h)'.present /\ Fpn(Entry(p, h)') = ram_free[h - first + 1]
        /\ ~Entry(p, h).present
  BY <1>1, GrowMaps
<1>4. /\ Len(ram_free') = Len(ram_free) - n
      /\ \A k \in 1 .. Len(ram_free') :
           k + n \in 1 .. Len(ram_free) /\ ram_free'[k] = ram_free[k + n]
      /\ fifo_pgn' = [fifo_pgn EXCEPT ![p] = a \o b]
  BY <1>1, GrowMaps
<1>5. \A h \in New : Resident(p, h)' /\ ~Resident(p, h)
  <2>1. SwapAlone
    BY <1>1, GrowLeavesSwap
  <2> QED BY <1>2, <1>3, <2>1 DEF SwapAlone, Resident
<1> HIDE DEF n, first
<1>6. \A q \in Procs, h \in Pages : Fpn(Entry(q, h))' = Fpn(Entry(q, h)')
  BY DEF Fpn
<1>7. \A q \in Procs, h \in Pages :
        q # p \/ h \notin New => (Resident(q, h)' <=> Resident(q, h))
  BY <1>2 DEF Resident
<1>8. FramesHeld'
  <2>1. ASSUME NEW q \in Procs, NEW r \in Procs, NEW g \in Pages, NEW h \in Pages,
               Resident(q, g)', Resident(r, h)', Fpn(Entry(q, g)') = Fpn(Entry(r, h)')
        PROVE  q = r /\ g = h
    <3>1. CASE (q # p \/ g \notin New) /\ (r # p \/ h \notin New)
      BY <1>1, <1>2, <1>7, <2>1, <3>1 DEF FramesHeld
    <3>2. CASE (q = p /\ g \in New) /\ (r # p \/ h \notin New)
      <4>1. Fpn(Entry(r, h)) = ram_free[g - first + 1] /\ Resident(r, h)
        BY <1>2, <1>3, <1>7, <2>1, <3>2
      <4> QED BY <1>1, <1>3, <3>2, <4>1 DEF FramesHeld
    <3>3. CASE (q # p \/ g \notin New) /\ (r = p /\ h \in New)
      <4>1. Fpn(Entry(q, g)) = ram_free[h - first + 1] /\ Resident(q, g)
        BY <1>2, <1>3, <1>7, <2>1, <3>3
      <4> QED BY <1>1, <1>3, <3>3, <4>1 DEF FramesHeld
    <3>4. CASE (q = p /\ g \in New) /\ (r = p /\ h \in New)
      <4>1. g - first + 1 = h - first + 1
        BY <1>1, <1>3, <2>1, <3>4 DEF FramesHeld
      <4> QED BY <1>2, <3>4, <4>1, Layout DEF Pages
    <3> QED BY <3>1, <3>2, <3>3, <3>4
  <2>2. ASSUME NEW q \in Procs, NEW g \in Pages, Resident(q, g)'
        PROVE  /\ Fpn(Entry(q, g)') \in 0 .. RamFrames - 1
               /\ \A k \in 1 .. Len(ram_free') : Fpn(Entry(q, g)') # ram_free'[k]
    <3>1. CASE q # p \/ g \notin New
      BY <1>1, <1>2, <1>4, <1>7, <2>2, <3>1 DEF FramesHeld
    <3>2. CASE q = p /\ g \in New
      <4>1. /\ Fpn(Entry(q, g)') = ram_free[g - first + 1]
            /\ g - first + 1 \in 1 .. n /\ g - first + 1 \in 1 .. Len(ram_free)
        BY <1>3, <3>2
      <4>2. \A k \in 1 .. Len(ram_free') : k + n # g - first + 1 /\ k + n \in 1 .. Len(ram_free)
        BY <1>2, <1>4, <4>1
      <4>3. \A k \in 1 .. Len(ram_free') : ram_free[k + n] # ram_free[g - first + 1]
        BY <1>1, <4>1, <4>2 DEF FramesHeld
      <4> QED BY <1>2, <1>4, <4>1, <4>3
    <3> QED BY <3>1, <3>2
  <2>3. ASSUME NEW j \in 1 .. Len(ram_free'), NEW k \in 1 .. Len(ram_free'),
               ram_free'[j] = ram_free'[k]
        PROVE  j = k
    <3>1. j + n = k + n
      BY <1>1, <1>4, <2>3 DEF FramesHeld
    <3> QED BY <1>2, <3>1
  <2> HIDE DEF New
  <2> QED BY <1>6, <2>1, <2>2, <2>3 DEF FramesHeld
<1>9. FifoResident'
  <2>1. fifo_pgn'[p] = a \o b /\ \A q \in Procs : q # p => fifo_pgn'[q] = fifo_pgn[q]
    BY <1>1, <1>4 DEF TypeOK
  <2>2. \A k \in 1 .. n : first + n - k \in New /\ first + n - k \in Pages
    BY <1>2
  <2>3. a \in [1 .. n -> Pages] /\ \A k \in 1 .. n : a[k] = first + n - k
    BY <2>2
  <2>4. a \in Seq(Pages) /\ Len(a) = n /\ b \in Seq(Pages)
    <3>1. b \in Seq(Pages)
      BY <1>1 DEF TypeOK
    <3> QED BY <1>2, <2>3, <3>1
  <2>5. OnceEach(a, New)
    BY <1>2, <2>2, <2>3, <2>4 DEF OnceEach
  <2>6. OnceEach(b, ResidentPages(p))
    BY <1>1 DEF FifoResident
  <2>7. New \cap ResidentPages(p) = {}
    BY <1>5 DEF ResidentPages
  <2>8. New \cup ResidentPages(p) \subseteq ResidentPages(p)'
    BY <1>2, <1>5, <1>7 DEF ResidentPages
  <2>9. \A q \in Procs : q # p => ResidentPages(q)' = ResidentPages(q)
    BY <1>7 DEF ResidentPages
  <2> HIDE DEF a, b, New
  <2>10. OnceEach(a \o b, New \cup ResidentPages(p))
    BY <2>4, <2>5, <2>6, <2>7, ConcatOnce
  <2>11. OnceEach(fifo_pgn'[p], ResidentPages(p)')
    BY <2>1, <2>8, <2>10 DEF OnceEach
  <2>12. ASSUME NEW q \in Procs, q # p PROVE OnceEach(fifo_pgn'[q], ResidentPages(q)')
    BY <1>1, <2>1, <2>9, <2>12 DEF FifoResident
  <2>13. ASSUME NEW q \in Procs PROVE OnceEach(fifo_pgn[q], ResidentPages(q))'
    BY <2>11, <2>12 DEF OnceEach
  <2> QED BY <2>13 DEF FifoResident
<1> QED BY <1>2, <1>8, <1>9

LEMMA OutOfMemoryKeepsPressure ==
  ASSUME PressureInv, NEW p, NEW size, GrowOutOfMemory(p, size)
  PROVE  FramesHeld' /\ FifoResident' /\ ram_free' = << >>
<1>1. FramesHeld /\ FifoResident
  BY PressureParts
<1>2. pgtbl' = pgtbl /\ fifo_pgn' = fifo_pgn /\ ram_free' = << >>
  BY DEF GrowOutOfMemory
<1>3. \A k : k \notin 1 .. Len(ram_free')
  BY <1>2
<1>4. FifoResident'
  BY <1>1, <1>2 DEF FifoResident, OnceEach, ResidentPages, Resident, Entry
<1>5. FramesHeld'
  BY <1>1, <1>2, <1>3 DEF FramesHeld, Resident, Entry, Fpn
<1> QED BY <1>2, <1>4, <1>5
-----------------------------------------------------------------------------
(* accesses                                                                *)

(***************************************************************************)
(* While RAM has a free frame, an access within a region does not fault.   *)
(***************************************************************************)
LEMMA NoFaultBeforePressure ==
  ASSUME WellBehaved, PressureInv, ram_free # << >>,
         NEW p \in Procs, NEW r \in Rgids, NEW off \in Offsets, MayAccess(p, r, off)
  PROVE  PageHit(p, Pgn(Address(p, r, off)))
<1> DEFINE a == Address(p, r, off)
<1>1. TypeOK /\ RegionsDisjoint /\ MappedBelowBrk /\ MaxPages <= PgnRange /\ InBounds
  BY PressureParts, Behaved
<1>2. symrgtbl[p][r].start \in Nat /\ symrgtbl[p][r].end \in Nat /\ off \in Nat
  BY <1>1, VMemAssumption DEF TypeOK, Region
<1>3. off < symrgtbl[p][r].end - symrgtbl[p][r].start
  BY <1>1 DEF MayAccess, Size
<1>4. a \in symrgtbl[p][r].start .. symrgtbl[p][r].end - 1
  BY <1>2, <1>3, SMTT(30) DEF Address
<1>5. a \in Nat /\ a < sbrk[p]
  BY <1>1, <1>4, OwnedIsBelowBrk
<1> HIDE DEF a
<1>6. Entry(p, Pgn(a)).present
  BY <1>1, <1>5, BelowBrkIsPresent
<1> QED BY <1>6 DEF PageHit, a

(***************************************************************************)
(* The victim hands its frame to the faulting page and stops being         *)
(* resident, so that frame still has one resident owner.                   *)
(***************************************************************************)
LEMMA EvictKeepsPressure ==
  ASSUME WellBehaved, PressureInv, NEW p \in Procs, NEW g \in Pages, NEW found \in Lookup,
         Evict(p, g, found), ram_free' = ram_free
  PROVE  FramesHeld' /\ FifoResident'
<1>1. TypeOK /\ FramesHeld /\ FifoResident /\ PathsSuffice
  BY PressureParts, Behaved
<1>2. PICK vic \in Pages, s \in Nat :
        /\ vic = Victim(p) /\ fifo_pgn[p] # << >>
        /\ \A q \in Procs, h \in Pages :
             q # p \/ (h # g /\ h # vic) => Entry(q, h)' = Entry(q, h)
        /\ vic # g => Entry(p, vic)' = WithSwap(Entry(p, vic), s)
        /\ Entry(p, g)'.present /\ ~Entry(p, g)'.swapped
        /\ Fpn(Entry(p, g)') = Fpn(Entry(p, vic))
  BY <1>1, EvictPages
<1> DEFINE old == fifo_pgn[p]
<1>3. /\ old \in Seq(Pages) /\ fifo_pgn'[p] = <<g>> \o Front(old)
      /\ \A q \in Procs : q # p => fifo_pgn'[q] = fifo_pgn[q]
  BY <1>1 DEF Evict, TypeOK
<1>4. /\ Front(old) \in Seq(Pages) /\ vic \in ResidentPages(p)
      /\ OnceEach(Front(old), ResidentPages(p) \ {vic})
  BY <1>1, <1>2, <1>3, FrontOnce DEF FifoResident, Victim
<1> HIDE DEF old
<1>5. Resident(p, vic) /\ ~Resident(p, g) /\ vic # g
  BY <1>4 DEF ResidentPages, Resident, Evict, CanEvict, PageHit
<1>6. Resident(p, g)' /\ ~Resident(p, vic)'
  <2>1. Entry(p, vic) \in Pte
    BY <1>1, EntryOfPage
  <2> QED BY <1>2, <1>5, <2>1, SwapEntry DEF Resident
<1>7. \A q \in Procs, h \in Pages :
        q # p \/ (h # g /\ h # vic) => (Resident(q, h)' <=> Resident(q, h))
  BY <1>2 DEF Resident
<1>8. \A q \in Procs, h \in Pages : Fpn(Entry(q, h))' = Fpn(Entry(q, h)')
  BY DEF Fpn
\* A page that is resident afterwards has the frame of one that was before.
<1>9. ASSUME NEW q \in Procs, NEW h \in Pages, Resident(q, h)'
      PROVE  \/ q = p /\ h = g /\ Fpn(Entry(q, h)') = Fpn(Entry(p, vic))
             \/ /\ ~(q = p /\ h = g) /\ ~(q = p /\ h = vic)
                /\ Resident(q, h) /\ Fpn(Entry(q, h)') = Fpn(Entry(q, h))
  BY <1>2, <1>6, <1>7, <1>9
<1>10. FramesHeld'
  <2>1. ASSUME NEW q \in Procs, NEW r \in Procs, NEW h \in Pages, NEW i \in Pages,
               Resident(q, h)', Resident(r, i)', Fpn(Entry(q, h)') = Fpn(Entry(r, i)')
        PROVE  q = r /\ h = i
    BY <1>1, <1>5, <1>9, <2>1 DEF FramesHeld
  <2>2. ASSUME NEW q \in Procs, NEW h \in Pages, Resident(q, h)'
        PROVE  /\ Fpn(Entry(q, h)') \in 0 .. RamFrames - 1
               /\ \A k \in 1 .. Len(ram_free') : Fpn(Entry(q, h)') # ram_free'[k]
    BY <1>1, <1>5, <1>9, <2>2 DEF FramesHeld
  <2>3. \A j, k \in 1 .. Len(ram_free') : ram_free'[j] = ram_free'[k] => j = k
    BY <1>1 DEF FramesHeld
  <2> QED BY <1>8, <2>1, <2>2, <2>3 DEF FramesHeld
<1>11. FifoResident'
  <2>1. <<g>> \in Seq(Pages) /\ OnceEach(<<g>>, {g})
    BY DEF OnceEach
  <2>2. {g} \cap (ResidentPages(p) \ {vic}) = {}
    BY <1>5 DEF ResidentPages
  <2>3. OnceEach(<<g>> \o Front(old), {g} \cup (ResidentPages(p) \ {vic}))
    BY <1>4, <2>1, <2>2, ConcatOnce
  <2>4. {g} \cup (ResidentPages(p) \ {vic}) \subseteq ResidentPages(p)'
    BY <1>6, <1>7 DEF ResidentPages
  <2>5. OnceEach(fifo_pgn'[p], ResidentPages(p)')
    BY <1>3, <2>3, <2>4 DEF OnceEach
  <2>6. ASSUME NEW q \in Procs, q # p PROVE OnceEach(fifo_pgn'[q], ResidentPages(q)')
    <3>1. ResidentPages(q)' = ResidentPages(q)
      BY <1>7, <2>6 DEF ResidentPages
    <3> QED BY <1>1, <1>3, <2>6, <3>1 DEF FifoResident
  <2>7. ASSUME NEW q \in Procs PROVE OnceEach(fifo_pgn[q], ResidentPages(q))'
    BY <2>5, <2>6 DEF OnceEach
  <2> QED BY <2>7 DEF FifoResident
<1> QED BY <1>10, <1>11

(***************************************************************************)
(* The four outcomes of pg_getpage.                                        *)
(***************************************************************************)
LEMMA TouchKeepsPressure ==
  ASSUME WellBehaved, PressureInv, NEW p \in Procs, NEW g \in Pages, NEW found \in Lookup,
         Touch(p, g, found), ram_free' = ram_free
  PROVE  FramesHeld' /\ FifoResident'
<1>1. TypeOK /\ FramesHeld /\ FifoResident
  BY PressureParts
<1>2. ASSUME pgtbl' = pgtbl PROVE FramesHeld' /\ \A q \in Procs : ResidentPages(q)' = ResidentPages(q)
  BY <1>1, <1>2 DEF FramesHeld, ResidentPages, Resident, Entry, Fpn
<1>3. CASE UNCHANGED <<pgtbl, fifo_pgn, swp_free, swp>>
  BY <1>1, <1>2, <1>3 DEF FifoResident, OnceEach, ResidentPages, Resident, Entry
<1>4. CASE /\ fifo_pgn[p] # << >>
           /\ fifo_pgn' = [fifo_pgn EXCEPT ![p] = Front(@)]
           /\ UNCHANGED <<pgtbl, swp_free, swp>>
  <2>1. /\ fifo_pgn'[p] = Front(fifo_pgn[p]) /\ fifo_pgn[p] \in Seq(Pages)
        /\ \A q \in Procs : q # p => fifo_pgn'[q] = fifo_pgn[q]
    BY <1>1, <1>4 DEF TypeOK
  <2>2. OnceEach(fifo_pgn'[p], ResidentPages(p))
    <3>1. OnceEach(fifo_pgn[p], ResidentPages(p))
      BY <1>1 DEF FifoResident
    <3>2. OnceEach(Front(fifo_pgn[p]), ResidentPages(p) \ {Last(fifo_pgn[p])})
      BY <1>4, <2>1, <3>1, FrontOnce
    <3> QED BY <2>1, <3>2 DEF OnceEach
  <2>3. ASSUME NEW q \in Procs PROVE OnceEach(fifo_pgn[q], ResidentPages(q))'
    <3>1. OnceEach(fifo_pgn'[q], ResidentPages(q)) /\ ResidentPages(q)' = ResidentPages(q)
      BY <1>1, <1>2, <1>4, <2>1, <2>2 DEF FifoResident
    <3> QED BY <3>1 DEF OnceEach
  <2> QED BY <1>2, <1>4, <2>3 DEF FifoResident
<1>5. CASE Evict(p, g, found)
  BY <1>5, EvictKeepsPressure
<1> QED BY <1>3, <1>4, <1>5 DEF Touch

-----------------------------------------------------------------------------
(* the invariant is inductive                                              *)

PressureKept == FramesHeld' /\ FifoResident' /\ (ram_free' # << >> => MappedBelowBrk')

LEMMA PagesUnchanged ==
  ASSUME PressureInv, UNCHANGED <<sbrk, pgtbl, fifo_pgn, ram_free>>
  PROVE  PressureKept
<1>1. FramesHeld /\ FifoResident /\ (ram_free # << >> => MappedBelowBrk)
  BY PressureParts
<1>2. FramesHeld'
  BY <1>1 DEF FramesHeld, Resident, Entry, Fpn
<1>3. FifoResident'
  BY <1>1 DEF FifoResident, OnceEach, ResidentPages, Resident, Entry
<1>4. ram_free' # << >> => MappedBelowBrk'
  BY <1>1 DEF MappedBelowBrk, Used, Entry
<1> QED BY <1>2, <1>3, <1>4 DEF PressureKept

LEMMA LimitKeepsPressure ==
  ASSUME WellBehaved, PressureInv, NEW p \in Procs, NEW size \in Sizes,
         sbrk[p] + PagesFor(size) * PageSz <= MaxPages * PageSz,
         Grow(p, size) \/ GrowOutOfMemory(p, size), swp_free' = swp_free
  PROVE  PressureKept
BY GrowKeepsPressure, OutOfMemoryKeepsPressure DEF PressureKept

LEMMA AccessKeepsPressure ==
  ASSUME WellBehaved, PressureInv, NEW p \in Procs, NEW r \in Rgids, NEW off \in Offsets,
         NEW found \in Lookup, MayAccess(p, r, off),
         Touch(p, Pgn(Address(p, r, off)), found), UNCHANGED <<sbrk, ram_free>>,
         PageHit(p, Pgn(Address(p, r, off))) => pgtbl' = pgtbl
  PROVE  PressureKept
<1>1. Pgn(Address(p, r, off)) \in Pages
  BY AccessAddress
<1>2. FramesHeld' /\ FifoResident'
  BY <1>1, TouchKeepsPressure
<1>3. ASSUME ram_free' # << >> PROVE MappedBelowBrk'
  <2>1. MappedBelowBrk /\ ram_free # << >>
    BY <1>3, PressureParts
  <2>2. sbrk' = sbrk /\ pgtbl' = pgtbl
    BY <2>1, NoFaultBeforePressure
  <2> QED BY <2>1, <2>2 DEF MappedBelowBrk, Used, Entry
<1> QED BY <1>2, <1>3 DEF PressureKept

LEMMA PressureStep ==
  ASSUME WellBehaved, PressureInv, [Next]_vars
  PROVE  PressureKept
<1>1. CASE UNCHANGED vars
  BY <1>1, PagesUnchanged DEF vars, region_vars, page_vars
<1>2. ASSUME NEW p \in Procs, Syscall(p) PROVE PressureKept
  <2>1. ASSUME NEW size \in Sizes, SyscallInc(p, size) PROVE PressureKept
    BY <2>1, LimitKeepsPressure DEF SyscallInc
  <2>2. \/ \E size \in Sizes : SyscallInc(p, size)
        \/ UNCHANGED <<region_vars, page_vars>>
    <3>1. \A first, n : ~SyscallMap(p, first, n)
      BY Behaved DEF SyscallMap
    <3> QED BY <1>2, <3>1 DEF Syscall, SyscallSwp, SyscallWrite, SyscallRead
  <2> QED BY <2>1, <2>2, PagesUnchanged DEF region_vars, page_vars
<1>3. ASSUME NEW p \in Procs, NEW r \in Rgids, Instruction(p, r) PROVE PressureKept
  <2>1. ASSUME NEW size \in Sizes, NEW found \in Lookup, AllocGrow(p, r, size, found)
        PROVE  PressureKept
    <3>1. /\ Grow(p, size) \/ GrowOutOfMemory(p, size)
          /\ sbrk[p] + PagesFor(size) * PageSz <= MaxPages * PageSz /\ swp_free' = swp_free
      BY <2>1, Behaved DEF AllocGrow
    <3> QED BY <3>1, LimitKeepsPressure
  <2>2. ASSUME NEW size, AllocReuse(p, r, size) \/ Free(p, r) PROVE PressureKept
    BY <2>2, PagesUnchanged DEF AllocReuse, Free, page_vars
  <2>3. ASSUME NEW off \in Offsets, NEW v \in Vals, NEW found \in Lookup, Write(p, r, off, v, found)
        PROVE  PressureKept
    <3>1. /\ MayAccess(p, r, off) /\ Touch(p, Pgn(Address(p, r, off)), found)
          /\ UNCHANGED <<sbrk, ram_free>>
      BY <2>3, WriteTouches DEF Write, region_vars
    <3>2. PageHit(p, Pgn(Address(p, r, off))) => pgtbl' = pgtbl
      BY <2>3 DEF Write, NoVictim, SwapFull, Evict, CanEvict
    <3> QED BY <3>1, <3>2, AccessKeepsPressure
  <2>4. ASSUME NEW off \in Offsets, NEW found \in Lookup, Read(p, r, off, found)
        PROVE  PressureKept
    <3>1. /\ MayAccess(p, r, off) /\ Touch(p, Pgn(Address(p, r, off)), found)
          /\ UNCHANGED <<sbrk, ram_free>>
      BY <2>4, ReadTouches DEF Read, region_vars
    <3>2. PageHit(p, Pgn(Address(p, r, off))) => pgtbl' = pgtbl
      BY <2>4 DEF Read, NoVictim, SwapFull, Evict, CanEvict
    <3> QED BY <3>1, <3>2, AccessKeepsPressure
  <2> QED BY <1>3, <2>1, <2>2, <2>3, <2>4 DEF Instruction
<1> QED BY <1>1, <1>2, <1>3 DEF Next

LEMMA PressureSuffices ==
  ASSUME PressureInv PROVE ResidentFramesUnique
<1>1. TypeOK /\ FramesHeld
  BY PressureParts
<1>2. \A pg \in Mapped \ SwappedOut : pg \in Procs \X Pages /\ Resident(pg[1], pg[2])
  BY DEF Mapped, SwappedOut, Resident
<1>3. ASSUME NEW pg \in Mapped \ SwappedOut, NEW qg \in Mapped \ SwappedOut,
             FrameOf(pg) = FrameOf(qg)
      PROVE  pg = qg
  <2>1. pg[1] = qg[1] /\ pg[2] = qg[2]
    BY <1>1, <1>2, <1>3 DEF FramesHeld, FrameOf
  <2> QED BY <1>2, <2>1
<1>4. DOMAIN ram_free = 1 .. Len(ram_free)
  BY <1>1 DEF TypeOK
<1>5. ASSUME NEW pg \in Mapped \ SwappedOut
      PROVE  FrameOf(pg) \in (0 .. RamFrames - 1) \ ToSet(ram_free)
  BY <1>1, <1>2, <1>4 DEF FramesHeld, FrameOf, ToSet
<1> QED BY <1>3, <1>5 DEF ResidentFramesUnique

(***************************************************************************)
(* Under memory pressure, pg_getpage never gives a page a frame that       *)
(* another resident page has, and find_victim_page never takes a page      *)
(* twice or one without a frame: whatever the number of frames and the     *)
(* order of the evictions.  So when two pages alias, as the run vmem_alias *)
(* shows they may, one of them has been evicted: it is the entry that      *)
(* stays PRESENT that is wrong, not the choice of frames.                  *)
(***************************************************************************)
THEOREM ResidentPagesOwnTheirFrames ==
  ASSUME WellBehaved
  PROVE  Spec => [](ResidentFramesUnique /\ FifoResident)
<1>1. Spec => []RegionsDisjoint
  BY Behaved, NoByteHasTwoOwners
<1> DEFINE Inv == FramesHeld /\ FifoResident /\ (ram_free # << >> => MappedBelowBrk)
<1>2. Init => Inv
  <2> SUFFICES ASSUME Init PROVE Inv
    OBVIOUS
  <2>1. \A q \in Procs, g \in Pages : ~Resident(q, g)
    BY PathType, EmptyPte DEF Init, Entry, Resident
  <2>2. FramesOwned /\ MappedBelowBrk
    BY InitResident
  <2>3. FramesHeld
    BY <2>1, <2>2 DEF FramesHeld, FramesOwned
  <2>4. \A q \in Procs : fifo_pgn[q] = << >>
    BY DEF Init
  <2>5. FifoResident
    BY <2>4 DEF FifoResident, OnceEach
  <2> QED BY <2>2, <2>3, <2>5
<1>3. TypeOK /\ RegionsDisjoint /\ Inv /\ [Next]_vars => Inv'
  BY PressureStep DEF PressureInv, PressureKept
<1>4. TypeOK /\ RegionsDisjoint /\ Inv => ResidentFramesUnique /\ FifoResident
  BY PressureSuffices DEF PressureInv
<1> QED BY <1>1, <1>2, <1>3, <1>4, VMemTypeCorrect, PTL DEF Spec
=============================================================================
