----------------------------- MODULE ExidxSearch -----------------------------
(***************************************************************************)
(* get_eitp, search_EIT_table and selfrel_offset31 of the table unwinder   *)
(* (table-unwind-arm.c): which entry of an exception index table belongs   *)
(* to an address.  The tables lie in the memory of the crashed process, so *)
(* nothing is assumed of what they hold: a word may be anything, and one   *)
(* that cannot be read is all ones.                                        *)
(***************************************************************************)
EXTENDS Mappings

CONSTANTS
  Ranges,     \* bound: the lists of mappings, as get_mapinfo_list leaves them
  Back        \* 2: how far a return address is moved back into the call

None == -1

ASSUME BackAssumption == Back \in Nat
ASSUME RangeAssumption == Ranges \subseteq Seq(Mapping)

VARIABLES
  maps,          \* the list of mappings
  table,         \* for each of them, the fnoffset words of its table
  addr,          \* return_address
  mi,            \* the mapping that is searched
  left, right,   \* the bounds of the binary search
  pc,            \* what comes next
  eitp           \* the index of the entry returned, or None for NULL

vars == << maps, table, addr, mi, left, right, pc, eitp >>

(* selfrel_offset31: bit 30 of the word is its sign, bit 31 is ignored. *)
SelfRel(p, word) ==
  LET low == word % (Modulus \div 2)
      offset == IF low >= Modulus \div 4 THEN low + Modulus \div 2 ELSE low
  IN  (offset + p) % Modulus

(* The address at which the function of entry n starts. *)
Fn(n) == SelfRel(maps[mi].exidx + n * EntrySize, table[mi][n])

Entries == 0..(maps[mi].nrec - 1)

(* Mutant of LastOf: the next function's first address is included. *)
LastOfNext(n) ==
  IF n = maps[mi].nrec - 1 THEN Modulus - 1 ELSE Fn(n + 1)

(* The last address before the next entry's function, wrapping at 0. *)
LastOf(n) ==
  IF n = maps[mi].nrec - 1 THEN Modulus - 1 ELSE (Fn(n + 1) - 1) % Modulus

(* What the memory may hold in the tables of the mappings. *)
Tables(ms) == UNION {[0..(ms[k].nrec - 1) -> Word] : k \in DOMAIN ms}

Init ==
  /\ maps \in Ranges
  /\ table \in [DOMAIN maps -> Tables(maps)]
  /\ \A k \in DOMAIN maps : DOMAIN table[k] = 0..(maps[k].nrec - 1)
  /\ addr \in Word
  /\ mi = 0
  /\ left = 0
  /\ right = 0
  /\ pc = "back"
  /\ eitp = None

----------------------------------------------------------------------------
(* The address is moved back into the call instruction. *)
StepBack ==
  /\ pc = "back"
  /\ addr' = IF addr >= Back THEN addr - Back ELSE addr
  /\ pc' = "map"
  /\ UNCHANGED << maps, table, mi, left, right, eitp >>

InRange(a, m) == m.start <= a /\ a <= m.end

(* The first mapping of the list that has the address, its end included. *)
FindMap ==
  /\ pc = "map"
  /\ \E k \in DOMAIN maps :
       /\ InRange(addr, maps[k])
       /\ \A j \in 1..(k - 1) : ~InRange(addr, maps[j])
       /\ mi' = k
       /\ right' = maps[k].nrec - 1
       /\ pc' = IF maps[k].nrec = 0 THEN "done" ELSE "search"
  /\ left' = 0
  /\ UNCHANGED << maps, table, addr, eitp >>

NoMap ==
  /\ pc = "map"
  /\ \A k \in DOMAIN maps : ~InRange(addr, maps[k])
  /\ pc' = "done"
  /\ UNCHANGED << maps, table, addr, mi, left, right, eitp >>

Middle == (left + right) \div 2

(* Mutant of GiveUp: entries to the left are not looked at. *)
GiveUpEarly ==
  /\ pc = "search"
  /\ addr < Fn(Middle)
  /\ pc' = "done"
  /\ UNCHANGED << maps, table, addr, mi, left, right, eitp >>

(* The address is before the middle entry, and there is none to its left. *)
GiveUp ==
  /\ pc = "search"
  /\ addr < Fn(Middle)
  /\ Middle = left
  /\ pc' = "done"
  /\ UNCHANGED << maps, table, addr, mi, left, right, eitp >>

(* Mutant of GoLeft: the check for entries to the left is missing. *)
GoLeftAlways ==
  /\ pc = "search"
  /\ addr < Fn(Middle)
  /\ right' = Middle - 1
  /\ UNCHANGED << maps, table, addr, mi, left, pc, eitp >>

GoLeft ==
  /\ pc = "search"
  /\ addr < Fn(Middle)
  /\ Middle # left
  /\ right' = Middle - 1
  /\ UNCHANGED << maps, table, addr, mi, left, pc, eitp >>

Found ==
  /\ pc = "search"
  /\ addr >= Fn(Middle)
  /\ addr <= LastOf(Middle)
  /\ eitp' = Middle
  /\ pc' = "done"
  /\ UNCHANGED << maps, table, addr, mi, left, right >>

(* Mutant of GoRight: the middle entry is looked at again. *)
GoRightToMiddle ==
  /\ pc = "search"
  /\ addr >= Fn(Middle)
  /\ addr > LastOf(Middle)
  /\ left' = Middle
  /\ UNCHANGED << maps, table, addr, mi, right, pc, eitp >>

GoRight ==
  /\ pc = "search"
  /\ addr >= Fn(Middle)
  /\ addr > LastOf(Middle)
  /\ left' = Middle + 1
  /\ UNCHANGED << maps, table, addr, mi, right, pc, eitp >>

Next == StepBack \/ FindMap \/ NoMap \/ GiveUp \/ GoLeft \/ Found \/ GoRight

Spec == Init /\ [][Next]_vars /\ WF_vars(Next)

----------------------------------------------------------------------------
(***************************************************************************)
(* Properties.                                                             *)
(***************************************************************************)

(* Every variable has its type. *)
TypeOK ==
  /\ maps \in Ranges
  /\ addr \in Word
  /\ mi \in DOMAIN maps \cup {0}
  /\ {left, right} \subseteq Int
  /\ pc \in {"back", "map", "search", "done"}
  /\ eitp \in Nat \cup {None}

(* The search reads no entry outside the table, whatever the table holds:  *)
(* its bounds never cross and never leave it, even if it is not sorted.    *)
ReadsInTable == pc = "search" => 0 <= left /\ left <= right /\ right \in Entries

(* An entry is returned only if the address is at or after its function    *)
(* and before the next one, and none is returned only if the address is    *)
(* before the first function of the mapping's table or in no mapping.      *)
AnswerIsRight ==
  pc = "done" /\ mi # 0 =>
    IF eitp = None
    THEN maps[mi].nrec > 0 => addr < Fn(0)
    ELSE /\ eitp \in Entries
         /\ Fn(eitp) <= addr
         /\ \/ eitp = maps[mi].nrec - 1
            \/ addr < Fn(eitp + 1)
            \/ Fn(eitp + 1) = 0

(* Are the functions of the table in the order of their addresses? *)
Sorted == \A m, n \in Entries : m < n => Fn(m) < Fn(n)

(* In a sorted table the answer is the last function that does not start   *)
(* after the address: no other entry would do.                             *)
FindsTheFunction ==
  pc = "done" /\ mi # 0 /\ Sorted =>
    \A n \in Entries : Fn(n) <= addr => eitp # None /\ n <= eitp

(* Each round of the loop leaves fewer entries to look at. *)
Narrowing == pc = "search" /\ pc' = "search" => right' - left' < right - left
Narrows == [][Narrowing]_vars

(* So the loop, which has no other exit, ends for every table. *)
SearchEnds == <>(pc = "done")
=============================================================================
