------------------------------ MODULE MemHash ------------------------------
(***************************************************************************)
(* The hash in which the McTernan unwinder keeps the words a function has  *)
(* pushed while it was interpreted (MemData of unwarm.h, unwarmmem.c).     *)
(*                                                                         *)
(* A hash is a record: the cells that are used, those whose value is       *)
(* tracked, and the address and value in each cell.  The arrays have       *)
(* HashSize cells, but a probe goes on to the cell after the last one,     *)
(* Overrun: its address is the bitmap of the used cells, and its value is  *)
(* the address of cell 0.                                                  *)
(***************************************************************************)
EXTENDS Integers, FiniteSetsExt

CONSTANT HashSize   \* MEM_HASH_SIZE

ASSUME HashAssumption == HashSize \in Nat \ {0}

Overrun == HashSize
Cells == 0..Overrun

EmptyHash ==
  [used |-> {}, tracked |-> {}, a |-> [c \in Cells |-> 0], v |-> [c \in Cells |-> 0]]

(* The i-th cell looked at for an address.                                 *)
Probe(addr, i) == ((addr % HashSize) + i) % (HashSize + 1)

(* The first cell that is free or has the address; -1 when all are taken.  *)
memHashIndex(h, addr) ==
  LET stops == {i \in Cells : Probe(addr, i) \notin h.used \/ h.a[Probe(addr, i)] = addr}
  IN  IF stops = {} THEN -1 ELSE Probe(addr, Min(stops))

UnwMemHashRead(h, addr) ==
  LET i == memHashIndex(h, addr)
      found == i >= 0 /\ i \in h.used
  IN  [found |-> found, data |-> IF found THEN h.v[i] ELSE 0, tracked |-> i \in h.tracked]

Full(h, addr) == memHashIndex(h, addr) = -1

(* What a write may lead to.  The address written to Overrun becomes the   *)
(* bitmap of the used cells, which can be any, and the value becomes the   *)
(* address of cell 0.                                                      *)
UnwMemHashWrite(h, addr, val, valid) ==
  LET i == memHashIndex(h, addr)
      over == i = Overrun
      a == [h.a EXCEPT ![i] = addr]
  IN  {[used    |-> bits \cup {i},
        tracked |-> IF valid THEN h.tracked \cup {i} ELSE h.tracked \ {i},
        a       |-> IF over /\ valid THEN [a EXCEPT ![0] = val] ELSE a,
        v       |-> IF valid THEN [h.v EXCEPT ![i] = val] ELSE h.v] :
         bits \in IF over THEN SUBSET (0..(HashSize - 1)) ELSE {h.used}}

(* Mutant of UnwMemHashGC: the word at the stack pointer is freed too. *)
UnwMemHashGCAtSp(h, sp) == [h EXCEPT !.used = {t \in @ : t = Overrun \/ h.a[t] > sp}]

UnwMemHashGC(h, sp) == [h EXCEPT !.used = {t \in @ : t = Overrun \/ h.a[t] >= sp}]
=============================================================================
