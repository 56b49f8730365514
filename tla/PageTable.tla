----------------------------- MODULE PageTable -----------------------------
(***************************************************************************)
(* What mm.h, mm64.h and mm64.c make of addresses and of page-table        *)
(* entries, as operators on numbers.                                       *)
(*                                                                         *)
(* An entry is the 32-bit word of mm.h cut into its PRESENT bit, its       *)
(* SWAPPED bit and the value of bits 0..25, where the frame number (bits   *)
(* 0..12) and the swap offset (bits 5..25) overlap.  No code reads the     *)
(* DIRTY bit.                                                              *)
(***************************************************************************)
EXTENDS Naturals

CONSTANTS
  PageSz,     \* PAGING_PAGESZ (256)
  PgnRange,   \* 2^14: page numbers that PAGING_PGN keeps of an address
  FpnRange,   \* 2^13: the frame number field of an entry
  SwpUnit,    \* 2^5: one unit of the swap offset field
  Entries     \* PAGING64_PGTBL_ENTRIES (512): entries of one table

ASSUME PageTableAssumption ==
  /\ PageSz \in Nat \ {0} /\ PgnRange \in Nat \ {0}
  /\ FpnRange \in Nat \ {0} /\ SwpUnit \in Nat \ {0}
  /\ Entries \in Nat \ {0}
-----------------------------------------------------------------------------
(* addresses                                                               *)

PgnOneBitShort(a) == (a \div PageSz) % (PgnRange \div 2)

\* PAGING_PGN and PAGING_OFFST: the bits of an address above PGN are dropped.
Pgn(a) == (a \div PageSz) % PgnRange

Offst(a) == a % PageSz

PdFromPagenumPtTooNarrow(pgn) ==
  [pgd |-> 0, p4d |-> 0, pud |-> 0, pmd |-> (pgn \div Entries) % Entries,
   pt |-> pgn % (Entries \div 2)]

\* get_pd_from_pagenum: the index at each of the five levels.  Shifting the
\* page number left by 12 and the fields right by 12, 21, ... cancels out.
PdFromPagenum(pgn) ==
  [pgd |-> (pgn \div (Entries * Entries * Entries * Entries)) % Entries,
   p4d |-> (pgn \div (Entries * Entries * Entries)) % Entries,
   pud |-> (pgn \div (Entries * Entries)) % Entries,
   pmd |-> (pgn \div Entries) % Entries,
   pt  |-> pgn % Entries]
-----------------------------------------------------------------------------
(* entries                                                                 *)

Pte == [present : BOOLEAN, swapped : BOOLEAN, val : Nat]

ZeroPte == [present |-> FALSE, swapped |-> FALSE, val |-> 0]

\* PAGING_FPN: bits 0..12, whatever the SWAPPED bit says.
Fpn(pte) == pte.val % FpnRange

\* PAGING_SWP
Swp(pte) == pte.val \div SwpUnit

WithFpnNotPresent(pte, fpn) == [pte EXCEPT !.val = fpn % FpnRange]

\* pte_set_fpn leaves the bits above the frame number as they were.
WithFpn(pte, fpn) ==
  [present |-> TRUE, swapped |-> FALSE,
   val |-> (pte.val - Fpn(pte)) + (fpn % FpnRange)]

\* pte_set_swap, with swap type 0.
WithSwap(pte, swpoff) ==
  [present |-> TRUE, swapped |-> TRUE, val |-> swpoff * SwpUnit]
=============================================================================
