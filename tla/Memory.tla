------------------------------- MODULE Memory -------------------------------
(***************************************************************************)
(* What the memory instructions promise a program: symbols name disjoint   *)
(* regions, and a byte of a region keeps the value last written to it.     *)
(* There are no pages here.  A new region holds arbitrary bytes.           *)
(***************************************************************************)
EXTENDS Naturals

CONSTANTS Procs, Rgids, Addrs, Sizes, Bytes, None

VARIABLES
  region,   \* the region of each symbol
  byte,     \* the contents of the addresses that some region owns, else None
  ins       \* the instruction executed last

mem_vars == <<region, byte, ins>>

Extent(rg) == rg.start .. rg.end - 1

NoRegion == [start |-> 0, end |-> 0]

OwnedByOthers(p, r) == UNION {Extent(region[p][s]) : s \in Rgids \ {r}}

MemInit ==
  /\ region = [p \in Procs |-> [r \in Rgids |-> NoRegion]]
  /\ byte = [p \in Procs |-> [a \in Addrs |-> None]]
  /\ ins = << >>

\* Symbol r gets a new region instead of the one it had, if any.
MemAlloc(p, r, size) ==
  /\ ins' = <<"ALLOC", p, r, size>>
  /\ \E start \in Addrs :
       LET New == start .. start + size - 1 IN
       /\ region' = [region EXCEPT ![p][r] = [start |-> start, end |-> start + size]]
       /\ New \subseteq Addrs \ OwnedByOthers(p, r)
       /\ \E new \in [New -> Bytes] :
            byte' = [byte EXCEPT ![p] = [a \in Addrs |->
                       CASE a \in New -> new[a]
                         [] a \in OwnedByOthers(p, r) -> @[a]
                         [] OTHER -> None]]

MemFree(p, r) ==
  /\ ins' = <<"FREE", p, r>>
  /\ region' = [region EXCEPT ![p][r] = NoRegion]
  /\ byte' = [byte EXCEPT ![p] = [a \in Addrs |->
                IF a \in OwnedByOthers(p, r) THEN @[a] ELSE None]]

\* An access names a byte of the region.
MemWrite(p, r, off, v) ==
  /\ ins' = <<"WRITE", p, r, off, v>>
  /\ byte' = [byte EXCEPT ![p][region[p][r].start + off] = v]
  /\ UNCHANGED region

MemRead(p, r, off) ==
  /\ ins' = <<"READ", p, r, off>>
  /\ UNCHANGED <<region, byte>>

\* System calls that leave a program's own bytes alone.
MemSyscall(p) ==
  /\ ins' = <<"SYSCALL", p>>
  /\ UNCHANGED <<region, byte>>

MemNext ==
  \E p \in Procs :
    \/ MemSyscall(p)
    \/ \E r \in Rgids :
         \/ \E size \in Sizes : MemAlloc(p, r, size)
         \/ MemFree(p, r)
         \/ \E off \in 0 .. region[p][r].end - region[p][r].start - 1 :
              MemRead(p, r, off) \/ \E v \in Bytes : MemWrite(p, r, off, v)

MemSpec == MemInit /\ [][MemNext]_mem_vars
=============================================================================
