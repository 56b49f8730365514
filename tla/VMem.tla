-------------------------------- MODULE VMem --------------------------------
(***************************************************************************)
(* Paged virtual memory: the region allocator and the page access paths of *)
(* libmem.c, inc_vma_limit of mm-vm.c, the page tables of mm64.c, the      *)
(* frame lists of mm-memphy.c, and the system call 17 of sys_mem.c that    *)
(* sits between them.  One action is one ALLOC, FREE, READ, WRITE or       *)
(* SYSCALL 17 instruction of a process, as run() executes it.              *)
(*                                                                         *)
(* The five-level tree of tables is the function pgtbl[p] on paths from    *)
(* the root.  get_pte creates the tables of a path on first use, filled    *)
(* with zeroes (calloc): one that is missing and one that is all zero look *)
(* the same to every reader.                                               *)
(*                                                                         *)
(* Bound: MaxPages cuts the address space of a process (PAGING_MAX_PGN is  *)
(* 16384).  Inputs: Sizes and Offsets of the instructions; InBounds says   *)
(* whether programs keep to the regions they own and to existing frames;   *)
(* UserOps are the operations of call 17 that programs make themselves;    *)
(* Lookup is what the search for the pid in running_list may answer        *)
(* (Scheduler.tla and MemCalls.tla say when it fails).                     *)
(***************************************************************************)
EXTENDS PageTable, Sequences, FiniteSets, SequencesExt

CONSTANTS
  Procs, Rgids, Vals,
  RamFrames, SwpFrames, \* frames of RAM and of the active swap device
  MaxPages,
  Sizes, Offsets, InBounds, UserOps, Lookup,
  Garbage,              \* regions that malloc may leave in a symbol table
  None

ASSUME VMemAssumption ==
  /\ MaxPages \in Nat \ {0}
  /\ RamFrames \in Nat /\ SwpFrames \in Nat
  /\ UserOps \subseteq {"MAP", "INC", "SWP", "IO_READ", "IO_WRITE"}
  /\ Sizes \subseteq Nat \ {0} /\ Offsets \subseteq Nat
  /\ InBounds \in BOOLEAN /\ Lookup \subseteq BOOLEAN
  /\ Garbage \subseteq [start : Nat, end : Nat]

VARIABLES
  sbrk,           \* of vm area 0, the only one (vm_end moves with it)
  symrgtbl,       \* the region of each symbol
  vm_freerg_list, \* freed regions, head first
  pgtbl,          \* page table entries, by their path from the root
  fifo_pgn,       \* resident pages, the newest first
  ram_free, swp_free,   \* free_fp_list of the two devices, head first
  ram, swp,       \* their contents, frame by frame
  wild,           \* an access has gone beyond the storage of a device
  ins             \* the instruction executed last

region_vars == <<sbrk, symrgtbl, vm_freerg_list>>
page_vars == <<pgtbl, fifo_pgn, ram_free, swp_free>>
vars == <<region_vars, page_vars, ram, swp, wild, ins>>

Pages == 0 .. MaxPages - 1
Paths == {PdFromPagenum(g) : g \in Pages}
Addrs == 0 .. MaxPages * PageSz - 1
Frame == [0 .. PageSz - 1 -> Vals \cup {0}]
Region == [start : Nat, end : Nat]

TypeOK ==
  /\ sbrk \in [Procs -> Nat]
  /\ symrgtbl \in [Procs -> [Rgids -> Region]]
  /\ vm_freerg_list \in [Procs -> Seq(Region)]
  /\ pgtbl \in [Procs -> [Paths -> Pte]]
  /\ \A p \in Procs, g \in Paths :          \* an entry is zero or PRESENT
       pgtbl[p][g].present \/ pgtbl[p][g].val = 0
  /\ fifo_pgn \in [Procs -> Seq(Pages)]
  /\ ram_free \in Seq(0 .. RamFrames - 1)
  /\ swp_free \in Seq(0 .. SwpFrames - 1)
  /\ ram \in [0 .. RamFrames - 1 -> Frame]
  /\ swp \in [0 .. SwpFrames - 1 -> Frame]
  /\ wild \in BOOLEAN

EmptyRegion == [start |-> 0, end |-> 0]
ZeroFrame == [o \in 0 .. PageSz - 1 |-> 0]

\* init_memphy and MEMPHY_format: all frames free, in order, zeroed.
FormattedList(frames) == [k \in 1 .. frames |-> k - 1]

\* init_mm for every process: one empty vm area, one empty free region.  The
\* symbol table is whatever malloc returned.
Init ==
  /\ sbrk = [p \in Procs |-> 0]
  /\ symrgtbl \in [Procs -> [Rgids -> Garbage]]
  /\ vm_freerg_list = [p \in Procs |-> <<EmptyRegion>>]
  /\ pgtbl = [p \in Procs |-> [g \in Paths |-> ZeroPte]]
  /\ fifo_pgn = [p \in Procs |-> << >>]
  /\ ram_free = FormattedList(RamFrames)
  /\ swp_free = FormattedList(SwpFrames)
  /\ ram = [f \in 0 .. RamFrames - 1 |-> ZeroFrame]
  /\ swp = [f \in 0 .. SwpFrames - 1 |-> ZeroFrame]
  /\ wild = FALSE
  /\ ins = << >>
-----------------------------------------------------------------------------
(* page tables                                                             *)

\* pte_get_entry
Entry(p, g) == pgtbl[p][PdFromPagenum(g)]
-----------------------------------------------------------------------------
(* regions                                                                 *)

Size(rg) == rg.end - rg.start

Fits(rg, size) == rg.start + size <= rg.end

\* get_free_vmrg_area: the first region of the list with enough space, or 0.
FirstFit(p, size) ==
  SelectInSeq(vm_freerg_list[p], LAMBDA rg : Fits(rg, size))

\* The space taken from region k of a free list.
ShrunkNotAtAll(list, k, size) == list

Shrunk(list, k, size) ==
  IF list[k].start + size < list[k].end
  THEN [list EXCEPT ![k].start = @ + size]
  ELSE RemoveAt(list, k)

SetSymbol(p, r, start, end) ==
  symrgtbl' = [symrgtbl EXCEPT ![p][r] = [start |-> start, end |-> end]]

\* __alloc when a freed region is large enough.
AllocReuse(p, r, size) ==
  LET k == FirstFit(p, size)
      start == vm_freerg_list[p][k].start
  IN /\ k # 0
     /\ vm_freerg_list' = [vm_freerg_list EXCEPT ![p] = Shrunk(@, k, size)]
     /\ SetSymbol(p, r, start, start + size)
     /\ UNCHANGED <<sbrk, page_vars, ram, swp, wild>>

PagesForRoundedDown(size) == size \div PageSz

PagesFor(size) == (size + PageSz - 1) \div PageSz

\* vmap_page_range: the next n pages from sbrk on the first n free frames.
MapPages(p, n) ==
  LET first == sbrk[p] \div PageSz
      New == first .. first + n - 1
      PageAt(path) == CHOOSE g \in New : PdFromPagenum(g) = path
  IN /\ pgtbl' = [pgtbl EXCEPT ![p] = [path \in Paths |->
                    IF \E g \in New : PdFromPagenum(g) = path
                    THEN WithFpn(@[path], ram_free[PageAt(path) - first + 1])
                    ELSE @[path]]]
     /\ fifo_pgn' = [fifo_pgn EXCEPT ![p] =
                       [k \in 1 .. n |-> first + n - k] \o @]

\* inc_vma_limit with enough free frames.
Grow(p, size) ==
  LET n == PagesFor(size) IN
  /\ Len(ram_free) >= n
  /\ MapPages(p, n)
  /\ ram_free' = SubSeq(ram_free, n + 1, Len(ram_free))
  /\ sbrk' = [sbrk EXCEPT ![p] = @ + n * PageSz]

\* inc_vma_limit without: alloc_pages_range has taken all the frames there
\* were, nothing is mapped, and the test of vm_map_ram's result (addr_t is
\* unsigned) does not stop the commit of an unaligned sbrk.
GrowOutOfMemory(p, size) ==
  /\ Len(ram_free) < PagesFor(size)
  /\ ram_free' = << >>
  /\ sbrk' = [sbrk EXCEPT ![p] = @ + size]
  /\ UNCHANGED <<pgtbl, fifo_pgn>>

\* __alloc at the end of the area; the result of the system call is ignored.
AllocGrow(p, r, size, found) ==
  /\ FirstFit(p, size) = 0
  /\ sbrk[p] + PagesFor(size) * PageSz <= MaxPages * PageSz
  /\ IF found
     THEN Grow(p, size) \/ GrowOutOfMemory(p, size)
     ELSE UNCHANGED <<sbrk, pgtbl, fifo_pgn, ram_free>>
  /\ SetSymbol(p, r, sbrk[p], sbrk[p] + size)
  /\ UNCHANGED <<vm_freerg_list, swp_free, ram, swp, wild>>

FreeKeepsSymbol(p, r) ==
  LET rg == symrgtbl[p][r] IN
  /\ rg # EmptyRegion
  /\ vm_freerg_list' = [vm_freerg_list EXCEPT ![p] = <<rg>> \o @]
  /\ UNCHANGED <<symrgtbl, sbrk, page_vars, ram, swp, wild>>

\* __free; enlist_vm_freerg_list refuses an empty region.
Free(p, r) ==
  LET rg == symrgtbl[p][r] IN
  /\ rg # EmptyRegion
  /\ vm_freerg_list' = [vm_freerg_list EXCEPT ![p] =
                          IF rg.start >= rg.end THEN @ ELSE <<rg>> \o @]
  /\ SetSymbol(p, r, 0, 0)
  /\ UNCHANGED <<sbrk, page_vars, ram, swp, wild>>
-----------------------------------------------------------------------------
(* page access                                                             *)

\* pg_getpage for a page whose PRESENT bit is set, or that cannot be brought
\* in because there is no victim: nothing changes.
PageHit(p, g) == Entry(p, g).present

NoVictim(p, g) == ~PageHit(p, g) /\ fifo_pgn[p] = << >>

\* The victim has left the FIFO before the swap device turns out to be full.
SwapFull(p, g) == ~PageHit(p, g) /\ fifo_pgn[p] # << >> /\ swp_free = << >>

Victim(p) == Last(fifo_pgn[p])

CanEvict(p, g) == ~PageHit(p, g) /\ fifo_pgn[p] # << >> /\ swp_free # << >>

\* pte_set_swap of the victim, then pte_set_fpn of the faulting page.
ExchangeEntries(p, g, vic, swpfpn) ==
  LET swappedOut == [pgtbl[p] EXCEPT ![PdFromPagenum(vic)] = WithSwap(@, swpfpn)]
  IN pgtbl' = [pgtbl EXCEPT ![p] =
                 [swappedOut EXCEPT ![PdFromPagenum(g)] = WithFpn(@, Fpn(Entry(p, vic)))]]

EvictKeepsSwapFrame(p, g, found) ==
  /\ CanEvict(p, g)
  /\ fifo_pgn' = [fifo_pgn EXCEPT ![p] = <<g>> \o Front(@)]
  /\ ExchangeEntries(p, g, Victim(p), Head(swp_free))
  /\ UNCHANGED <<swp_free, swp>>

EvictNotEnlisted(p, g, found) ==
  /\ CanEvict(p, g)
  /\ fifo_pgn' = [fifo_pgn EXCEPT ![p] = Front(@)]
  /\ swp_free' = Tail(swp_free)
  /\ ExchangeEntries(p, g, Victim(p), Head(swp_free))
  /\ UNCHANGED swp

\* find_victim_page, SYSMEM_SWP_OP, pte_set_swap, pte_set_fpn, enlist_pgn_node:
\* the faulting page gets the victim's frame, and that frame's old bytes.
Evict(p, g, found) ==
  LET vicfpn == Fpn(Entry(p, Victim(p)))
      swpfpn == Head(swp_free)
  IN /\ CanEvict(p, g)
     /\ fifo_pgn' = [fifo_pgn EXCEPT ![p] = <<g>> \o Front(@)]
     /\ swp_free' = Tail(swp_free)
     /\ swp' = IF found /\ vicfpn < RamFrames
               THEN [swp EXCEPT ![swpfpn] = ram[vicfpn]] ELSE swp
     /\ ExchangeEntries(p, g, Victim(p), swpfpn)

\* The store of SYSMEM_IO_WRITE through the frame number the entry yields.
Store(fpn, off, v, found) ==
  /\ ram' = IF found /\ fpn < RamFrames
            THEN [ram EXCEPT ![fpn][off] = v] ELSE ram
  /\ wild' = (wild \/ (found /\ fpn >= RamFrames))

\* The addresses an instruction may name through symbol r.
Address(p, r, off) == symrgtbl[p][r].start + off

MayAccess(p, r, off) ==
  /\ Address(p, r, off) \in Addrs
  /\ InBounds => off < Size(symrgtbl[p][r])

\* libwrite -> __write -> pg_setval
Write(p, r, off, v, found) ==
  LET a == Address(p, r, off)
      g == Pgn(a)
  IN /\ MayAccess(p, r, off)
     /\ \/ /\ PageHit(p, g)
           /\ Store(Fpn(Entry(p, g)), Offst(a), v, found)
           /\ UNCHANGED <<pgtbl, fifo_pgn, swp_free, swp>>
        \/ /\ NoVictim(p, g)
           /\ UNCHANGED <<pgtbl, fifo_pgn, swp_free, swp, ram, wild>>
        \/ /\ SwapFull(p, g)
           /\ fifo_pgn' = [fifo_pgn EXCEPT ![p] = Front(@)]
           /\ UNCHANGED <<pgtbl, swp_free, swp, ram, wild>>
        \/ /\ Evict(p, g, found)
           /\ Store(Fpn(pgtbl'[p][PdFromPagenum(g)]), Offst(a), v, found)
     /\ UNCHANGED <<region_vars, ram_free>>

\* libread -> __read -> pg_getval, with krnl->mm the mm of p, as cpu_routine
\* means it to be (OS.tla: RunsOnOwnMM).
Read(p, r, off, found) ==
  LET g == Pgn(Address(p, r, off))
  IN /\ MayAccess(p, r, off)
     /\ \/ /\ PageHit(p, g)
           /\ wild' = (wild \/ (found /\ Fpn(Entry(p, g)) >= RamFrames))
           /\ UNCHANGED <<pgtbl, fifo_pgn, swp_free, swp>>
        \/ /\ NoVictim(p, g)
           /\ UNCHANGED <<pgtbl, fifo_pgn, swp_free, swp, wild>>
        \/ /\ SwapFull(p, g)
           /\ fifo_pgn' = [fifo_pgn EXCEPT ![p] = Front(@)]
           /\ UNCHANGED <<pgtbl, swp_free, swp, wild>>
        \/ /\ Evict(p, g, found)
           /\ wild' = (wild \/ (found /\ Fpn(pgtbl'[p][PdFromPagenum(g)]) >= RamFrames))
     /\ UNCHANGED <<region_vars, ram_free, ram>>
-----------------------------------------------------------------------------
(* SYSCALL 17 with arguments of the program's choice                       *)

\* SYSMEM_INC_OP on area 0: space that no symbol owns.
SyscallInc(p, size) ==
  /\ "INC" \in UserOps
  /\ sbrk[p] + PagesFor(size) * PageSz <= MaxPages * PageSz
  /\ Grow(p, size) \/ GrowOutOfMemory(p, size)
  /\ UNCHANGED <<symrgtbl, vm_freerg_list, swp_free, ram, swp, wild>>

\* SYSMEM_MAP_OP: vmap_pgd_memset zeroes the entries; the frames they named
\* are neither freed nor taken off the FIFO.
SyscallMap(p, first, pgnum) ==
  LET Cleared == {PdFromPagenum(g) : g \in first .. first + pgnum - 1}
  IN /\ "MAP" \in UserOps
     /\ pgtbl' = [pgtbl EXCEPT ![p] = [path \in Paths |->
                     IF path \in Cleared THEN ZeroPte ELSE @[path]]]
     /\ UNCHANGED <<region_vars, fifo_pgn, ram_free, swp_free, ram, swp, wild>>

\* SYSMEM_SWP_OP: a copy, without a word to the frame lists.
SyscallSwp(fpn, swpfpn) ==
  /\ "SWP" \in UserOps
  /\ swp' = IF fpn < RamFrames /\ swpfpn < SwpFrames
            THEN [swp EXCEPT ![swpfpn] = ram[fpn]] ELSE swp
  /\ wild' = (wild \/ fpn >= RamFrames \/ swpfpn >= SwpFrames)
  /\ UNCHANGED <<region_vars, page_vars, ram>>

\* SYSMEM_IO_WRITE and SYSMEM_IO_READ at a physical address.
SyscallWrite(fpn, off, v) ==
  /\ "IO_WRITE" \in UserOps
  /\ Store(fpn, off, v, TRUE)
  /\ UNCHANGED <<region_vars, page_vars, swp>>

SyscallRead(fpn) ==
  /\ "IO_READ" \in UserOps
  /\ wild' = (wild \/ fpn >= RamFrames)
  /\ UNCHANGED <<region_vars, page_vars, ram, swp>>

\* The frames of a device that programs name: one too many if they are careless.
UserFrames(count) == IF InBounds THEN 0 .. count - 1 ELSE 0 .. count

\* A call whose pid is not found changes nothing.
Syscall(p) ==
  /\ TRUE \in Lookup
  /\ ins' = <<"SYSCALL", p>>
  /\ \/ \E size \in Sizes : SyscallInc(p, size)
     \/ \E first \in Pages : \E n \in 1 .. MaxPages - first : SyscallMap(p, first, n)
     \/ \E fpn \in UserFrames(RamFrames), swpfpn \in UserFrames(SwpFrames) :
          SyscallSwp(fpn, swpfpn)
     \/ \E fpn \in UserFrames(RamFrames), off \in 0 .. PageSz - 1, v \in Vals :
          SyscallWrite(fpn, off, v)
     \/ \E fpn \in UserFrames(RamFrames) : SyscallRead(fpn)
-----------------------------------------------------------------------------
Instruction(p, r) ==
  \/ \E size \in Sizes, found \in Lookup :
       /\ ins' = <<"ALLOC", p, r, size>>
       /\ AllocReuse(p, r, size) \/ AllocGrow(p, r, size, found)
  \/ ins' = <<"FREE", p, r>> /\ Free(p, r)
  \/ \E off \in Offsets, v \in Vals, found \in Lookup :
       ins' = <<"WRITE", p, r, off, v>> /\ Write(p, r, off, v, found)
  \/ \E off \in Offsets, found \in Lookup :
       ins' = <<"READ", p, r, off>> /\ Read(p, r, off, found)

Next == \E p \in Procs : Syscall(p) \/ \E r \in Rgids : Instruction(p, r)

Spec == Init /\ [][Next]_vars
-----------------------------------------------------------------------------
(* Properties                                                              *)

Disjoint(r1, r2) ==
  r1.start < r1.end /\ r2.start < r2.end => r1.end <= r2.start \/ r2.end <= r1.start

(***************************************************************************)
(* Two symbols of a process never own the same byte: __alloc gives a       *)
(* symbol either space taken off the free list or space above the old      *)
(* sbrk, after the "Successful increase limit".                            *)
(***************************************************************************)
SymbolsDisjoint ==
  \A p \in Procs : \A r, s \in Rgids :
    r # s => Disjoint(symrgtbl[p][r], symrgtbl[p][s])

(***************************************************************************)
(* And no byte is both owned and on the free list or twice on it, and all  *)
(* regions lie below sbrk, where the next one starts: __alloc and __free   *)
(* never lose track of who owns a byte.                                    *)
(***************************************************************************)
RegionsDisjoint ==
  /\ SymbolsDisjoint
  /\ \A p \in Procs :
       LET free == vm_freerg_list[p] IN
       /\ \A r \in Rgids :
            /\ symrgtbl[p][r].start <= symrgtbl[p][r].end
            /\ symrgtbl[p][r].end <= sbrk[p]
            /\ \A k \in 1 .. Len(free) : Disjoint(symrgtbl[p][r], free[k])
       /\ \A k \in 1 .. Len(free) :
            /\ free[k].end <= sbrk[p]
            /\ \A l \in 1 .. Len(free) : k # l => Disjoint(free[k], free[l])

Mapped == {pg \in Procs \X Pages : Entry(pg[1], pg[2]).present}

FrameOf(pg) == Fpn(Entry(pg[1], pg[2]))

(***************************************************************************)
(* Two pages, of one process or of two, never translate to the same RAM    *)
(* frame: pg_getpage returns the frame of a page that "is already in RAM   *)
(* (present, not swapped)".                                                *)
(***************************************************************************)
NoAliasing == \A pg, qg \in Mapped : FrameOf(pg) = FrameOf(qg) => pg = qg

(***************************************************************************)
(* Every RAM frame is on the free list once or mapped by one page of one   *)
(* process: no frame leaks and no two pages share one.                     *)
(***************************************************************************)
FramesPartitioned ==
  /\ NoAliasing
  /\ IsInjective(ram_free)
  /\ {FrameOf(pg) : pg \in Mapped} = (0 .. RamFrames - 1) \ ToSet(ram_free)

(***************************************************************************)
(* inc_vma_limit: "installs the PTE entries so that the pages are          *)
(* immediately accessible without a fault".  So a program that stays       *)
(* within its regions makes no access that leaves the storage of a device. *)
(***************************************************************************)
AllocatedIsMapped ==
  /\ ~wild
  /\ \A p \in Procs, r \in Rgids :
       \A a \in symrgtbl[p][r].start .. symrgtbl[p][r].end - 1 :
         Entry(p, Pgn(a)).present

\* The byte that the translation of an address of a region yields.
ByteAt(p, a) ==
  LET fpn == Fpn(Entry(p, Pgn(a)))
      owned == \E r \in Rgids : a \in symrgtbl[p][r].start .. symrgtbl[p][r].end - 1
  IN IF owned /\ fpn < RamFrames THEN ram[fpn][Offst(a)] ELSE None

Mem == INSTANCE Memory WITH
         Bytes <- Vals \cup {0},
         region <- symrgtbl,
         byte <- [p \in Procs |-> [a \in Addrs |-> ByteAt(p, a)]]

(***************************************************************************)
(* Seen through the page tables, RAM is the memory the instructions        *)
(* promise: a WRITE stores its value at its address and nowhere else, an   *)
(* ALLOC affects only the bytes of the region it returns, and nothing else *)
(* changes a byte that a region owns (libmem.c, through every translation  *)
(* of mm64.c).                                                             *)
(***************************************************************************)
ImplementsMemory == Mem!MemSpec

SwappedOut == {pg \in Mapped : Entry(pg[1], pg[2]).swapped}

SwapOffsetOf(pg) == Swp(Entry(pg[1], pg[2]))

(***************************************************************************)
(* A swap frame holds at most one evicted page, and none while it is on    *)
(* the free list: an eviction never overwrites a page swapped out before.  *)
(***************************************************************************)
SwapFramesUnique ==
  /\ \A pg, qg \in SwappedOut : SwapOffsetOf(pg) = SwapOffsetOf(qg) => pg = qg
  /\ \A pg \in SwappedOut : SwapOffsetOf(pg) \notin ToSet(swp_free)
  /\ IsInjective(swp_free)

(***************************************************************************)
(* A page that owns a frame can be evicted: it is on the FIFO that         *)
(* find_victim_page takes from.  It stops being true when the swap device  *)
(* has run full, and not before: the victim has left the FIFO by then      *)
(* (libmem.c:264-270), and the device never gets a frame back.             *)
(***************************************************************************)
ResidentIsEvictable ==
  swp_free # << >> =>
    \A pg \in Mapped \ SwappedOut : pg[2] \in ToSet(fifo_pgn[pg[1]])
=============================================================================
