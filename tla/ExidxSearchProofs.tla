-------------------------- MODULE ExidxSearchProofs --------------------------
(***************************************************************************)
(* Proofs about ExidxSearch for words of any width and for tables of any   *)
(* length that hold anything: sortedness is assumed only where a theorem   *)
(* says so.  Then proofs about MappedSearch, in which the list of mappings *)
(* is the one that is built of any lines of /proc/<pid>/maps.              *)
(***************************************************************************)
EXTENDS MappedSearch, FiniteSetTheorems, WellFoundedInduction, TLAPS

(* The tables are where the mappings say they are. *)
TableInv ==
  /\ maps \in Seq(Mapping)
  /\ mi \in DOMAIN maps \cup {0}
  /\ \A k \in DOMAIN maps : table[k] \in [0..(maps[k].nrec - 1) -> Word]
  /\ addr \in Word
  /\ pc \in {"back", "map", "search", "done"}
  /\ eitp \in Nat \cup {None}
  /\ left \in Int /\ right \in Int

(* The part of the table that was left behind is on the right side of the  *)
(* address: this is what keeps the bounds from crossing.                   *)
Bracketed ==
  pc = "search" =>
    /\ mi # 0
    /\ 0 <= left /\ left <= right /\ right < maps[mi].nrec
    /\ left > 0 => Fn(left) <= addr
    /\ right < maps[mi].nrec - 1 => addr < Fn(right + 1)

(* Before the search nothing is found, and what is returned is right. *)
Answered ==
  /\ pc # "done" => eitp = None
  /\ pc \in {"back", "map"} => mi = 0
  /\ AnswerIsRight

SearchInv == TableInv /\ Bracketed /\ Answered

(* What a mapping is, and that the function of an entry starts at a word. *)
LEMMA MappingFacts ==
  ASSUME TableInv, NEW k \in DOMAIN maps
  PROVE  maps[k].nrec \in Nat /\ maps[k].exidx \in Nat
<1>1. maps \in Seq(Mapping)
  BY DEF TableInv
<1>2. maps[k] \in Mapping
  BY <1>1
<1> QED
  BY <1>2 DEF Mapping, Word

(* The function of an entry is an address. *)
LEMMA FnInWord ==
  ASSUME TableInv, mi # 0, NEW n \in Entries
  PROVE  Fn(n) \in Word
<1>1. mi \in DOMAIN maps /\ maps[mi].nrec \in Nat /\ maps[mi].exidx \in Nat
  BY MappingFacts DEF TableInv
<1>2. table[mi][n] \in Int /\ n \in Int
  BY <1>1 DEF TableInv, Entries, Word
<1>3. \A p, w \in Int : SelfRel(p, w) \in Word
  <2> SUFFICES ASSUME NEW p \in Int, NEW w \in Int PROVE SelfRel(p, w) \in Word
    OBVIOUS
  <2>1. Modulus \in Nat \ {0} /\ Modulus \div 2 \in Nat \ {0}
    BY WordAssumption
  <2> DEFINE low == w % (Modulus \div 2)
             offset == IF low >= Modulus \div 4 THEN low + Modulus \div 2 ELSE low
  <2>2. low \in Int
    BY <2>1
  <2>3. offset \in Int
    BY <2>1, <2>2
  <2>4. SelfRel(p, w) = (offset + p) % Modulus
    BY DEF SelfRel
  <2> HIDE DEF offset
  <2> QED
    BY <2>1, <2>3, <2>4 DEF Word
<1>4. maps[mi].exidx + n * EntrySize \in Int
  BY <1>1, <1>2, WordAssumption
<1> QED
  BY <1>2, <1>3, <1>4 DEF Fn

(* The invariant holds at the start. *)
LEMMA SearchInvInit == Init => SearchInv
<1> SUFFICES ASSUME Init PROVE SearchInv
  OBVIOUS
<1>1. \A k \in DOMAIN maps : table[k] \in [0..(maps[k].nrec - 1) -> Word]
  <2> SUFFICES ASSUME NEW k \in DOMAIN maps
               PROVE  table[k] \in [0..(maps[k].nrec - 1) -> Word]
    OBVIOUS
  <2>1. table[k] \in Tables(maps) /\ DOMAIN table[k] = 0..(maps[k].nrec - 1)
    BY DEF Init
  <2>2. PICK j \in DOMAIN maps : table[k] \in [0..(maps[j].nrec - 1) -> Word]
    BY <2>1 DEF Tables
  <2>3. 0..(maps[j].nrec - 1) = 0..(maps[k].nrec - 1)
    BY <2>1, <2>2
  <2> QED
    BY <2>2, <2>3
<1>2. TableInv
  BY <1>1, RangeAssumption DEF Init, TableInv
<1> QED
  BY <1>2 DEF Init, SearchInv, Bracketed, Answered, AnswerIsRight

(* The middle of the bounds is between them, and the entries there and     *)
(* after it start at words.                                                *)
LEMMA MiddleFacts ==
  ASSUME SearchInv, pc = "search"
  PROVE  /\ Middle \in Int /\ left <= Middle /\ Middle <= right
         /\ maps[mi].nrec \in Nat /\ mi \in DOMAIN maps
         /\ Middle \in Entries /\ 0 \in Entries
         /\ Fn(Middle) \in Word /\ Fn(left) \in Word
         /\ Middle + 1 < maps[mi].nrec => Fn(Middle + 1) \in Word
<1>1. /\ left \in Int /\ right \in Int /\ 0 <= left /\ left <= right
      /\ right < maps[mi].nrec /\ mi # 0 /\ mi \in DOMAIN maps
  BY DEF SearchInv, Bracketed, TableInv
<1>2. maps[mi].nrec \in Nat
  BY <1>1, MappingFacts DEF SearchInv
<1>3. Middle \in Int /\ left <= Middle /\ Middle <= right
  BY <1>1 DEF Middle
<1>4. /\ Middle \in Entries /\ 0 \in Entries /\ left \in Entries
      /\ Middle + 1 < maps[mi].nrec => Middle + 1 \in Entries
  BY <1>1, <1>2, <1>3 DEF Entries
<1>5. \A n \in Entries : Fn(n) \in Word
  BY <1>1, FnInWord DEF SearchInv
<1> QED
  BY <1>1, <1>2, <1>3, <1>4, <1>5

(* Past the middle's function: then the next one is not after the address. *)
LEMMA LastFacts ==
  ASSUME SearchInv, pc = "search", addr > LastOf(Middle)
  PROVE  Middle < right /\ Fn(Middle + 1) <= addr
<1>1. /\ Middle \in Int /\ left <= Middle /\ Middle <= right
      /\ maps[mi].nrec \in Nat /\ right \in Int /\ right < maps[mi].nrec
      /\ addr \in Int /\ addr <= Modulus - 1 /\ Modulus \in Nat /\ Modulus >= 4
  BY MiddleFacts, WordAssumption DEF SearchInv, Bracketed, TableInv, Word
<1>2. Middle # maps[mi].nrec - 1
  BY <1>1 DEF LastOf
<1>3. Middle + 1 < maps[mi].nrec /\ Fn(Middle + 1) \in 0..(Modulus - 1)
  BY <1>1, <1>2, MiddleFacts DEF Word
<1>4. LastOf(Middle) = (Fn(Middle + 1) - 1) % Modulus
  BY <1>2 DEF LastOf
<1>5. Fn(Middle + 1) # 0
  <2>1. (0 - 1) % Modulus = Modulus - 1
    BY <1>1
  <2> QED
    BY <1>1, <1>4, <2>1
<1>6. LastOf(Middle) = Fn(Middle + 1) - 1
  BY <1>1, <1>3, <1>4, <1>5
<1>7. Fn(Middle + 1) <= addr
  BY <1>1, <1>3, <1>6
<1>8. Middle # right
  <2>1. right < maps[mi].nrec - 1 => addr < Fn(right + 1)
    BY DEF SearchInv, Bracketed
  <2> QED
    BY <1>1, <1>3, <1>7, <2>1
<1> QED
  BY <1>1, <1>7, <1>8

(* Every step keeps the invariant. *)
LEMMA SearchInvStep == SearchInv /\ [Next]_vars => SearchInv'
<1> SUFFICES ASSUME SearchInv, [Next]_vars PROVE SearchInv'
  OBVIOUS
<1>1. CASE StepBack
  <2>1. addr' \in Word
    BY <1>1, WordAssumption, BackAssumption DEF StepBack, SearchInv, TableInv, Word
  <2> QED
    BY <1>1, <2>1 DEF StepBack, SearchInv, TableInv, Bracketed, Answered, AnswerIsRight
<1>2. CASE FindMap
  <2>1. PICK k \in DOMAIN maps :
          /\ mi' = k /\ right' = maps[k].nrec - 1
          /\ pc' = IF maps[k].nrec = 0 THEN "done" ELSE "search"
    BY <1>2 DEF FindMap
  <2>2. /\ left' = 0 /\ UNCHANGED << maps, table, addr, eitp >> /\ eitp = None
        /\ maps[k].nrec \in Nat /\ k # 0
    <3>1. maps \in Seq(Mapping)
      BY DEF SearchInv, TableInv
    <3> QED
      BY <1>2, <3>1, MappingFacts DEF FindMap, SearchInv, Answered
  <2>3. TableInv'
    BY <2>1, <2>2 DEF SearchInv, TableInv
  <2> QED
    BY <2>1, <2>2, <2>3 DEF SearchInv, Bracketed, Answered, AnswerIsRight
<1>3. CASE NoMap
  BY <1>3 DEF NoMap, SearchInv, TableInv, Bracketed, Answered, AnswerIsRight
<1>4. CASE GiveUp
  <2>1. /\ pc = "search" /\ addr < Fn(Middle) /\ Middle = left /\ pc' = "done"
        /\ UNCHANGED << maps, table, addr, mi, left, right, eitp >> /\ eitp = None
    BY <1>4 DEF GiveUp, SearchInv, Answered
  <2>2. left = 0
    BY <2>1, MiddleFacts DEF SearchInv, Bracketed, TableInv, Word
  <2>3. addr' < Fn(0)' /\ eitp' = None
    BY <2>1, <2>2 DEF Fn
  <2> QED
    BY <2>1, <2>3 DEF SearchInv, TableInv, Bracketed, Answered, AnswerIsRight
<1>5. CASE GoLeft
  <2>1. /\ pc = "search" /\ addr < Fn(Middle) /\ Middle # left /\ right' = Middle - 1
        /\ UNCHANGED << maps, table, addr, mi, left, pc, eitp >>
    BY <1>5 DEF GoLeft
  <2>2. /\ left <= right' /\ right' < maps[mi].nrec /\ right' \in Int
        /\ right' + 1 = Middle
    BY <2>1, MiddleFacts DEF SearchInv, Bracketed, TableInv
  <2>3. \A n : Fn(n)' = Fn(n)
    BY <2>1 DEF Fn
  <2>4. Bracketed'
    BY <2>1, <2>2, <2>3 DEF SearchInv, Bracketed
  <2> QED
    BY <2>1, <2>2, <2>4 DEF SearchInv, TableInv, Answered, AnswerIsRight
<1>6. CASE Found
  <2>1. /\ pc = "search" /\ addr >= Fn(Middle) /\ addr <= LastOf(Middle)
        /\ eitp' = Middle /\ pc' = "done"
        /\ UNCHANGED << maps, table, addr, mi, left, right >>
    BY <1>6 DEF Found
  <2>2. /\ Middle \in Entries /\ Middle \in Nat /\ Fn(Middle) <= addr
        /\ \/ Middle = maps[mi].nrec - 1
           \/ addr < Fn(Middle + 1)
           \/ Fn(Middle + 1) = 0
    <3>1. /\ Middle \in Int /\ Middle \in Entries /\ maps[mi].nrec \in Nat
          /\ Fn(Middle) \in Word /\ addr \in Word
          /\ Modulus \in Nat /\ Modulus >= 4
      BY <2>1, MiddleFacts, WordAssumption DEF SearchInv, TableInv
    <3>2. CASE Middle # maps[mi].nrec - 1 /\ Fn(Middle + 1) # 0
      <4>1. Middle + 1 < maps[mi].nrec
        BY <3>1, <3>2 DEF Entries
      <4>2. Fn(Middle + 1) \in 1..(Modulus - 1)
        BY <2>1, <3>2, <4>1, MiddleFacts DEF Word
      <4>3. LastOf(Middle) = Fn(Middle + 1) - 1
        BY <3>1, <3>2, <4>2 DEF LastOf
      <4> QED
        BY <2>1, <3>1, <4>2, <4>3 DEF Entries, Word
    <3> QED
      BY <2>1, <3>1, <3>2 DEF Entries, Word
  <2>3. /\ \A n : Fn(n)' = Fn(n)
        /\ Entries' = Entries
    BY <2>1 DEF Fn, Entries
  <2>4. AnswerIsRight'
    BY <2>1, <2>2, <2>3 DEF AnswerIsRight, None
  <2> QED
    BY <2>1, <2>2, <2>4 DEF SearchInv, TableInv, Bracketed, Answered
<1>7. CASE GoRight
  <2>1. /\ pc = "search" /\ addr > LastOf(Middle) /\ left' = Middle + 1
        /\ UNCHANGED << maps, table, addr, mi, right, pc, eitp >>
    BY <1>7 DEF GoRight
  <2>2. Middle < right /\ Fn(Middle + 1) <= addr
    BY <2>1, LastFacts
  <2>3. 0 <= left' /\ left' <= right /\ left' \in Int
    BY <2>1, <2>2, MiddleFacts DEF SearchInv, Bracketed, TableInv
  <2>4. \A n : Fn(n)' = Fn(n)
    BY <2>1 DEF Fn
  <2>5. Bracketed'
    BY <2>1, <2>2, <2>3, <2>4 DEF SearchInv, Bracketed
  <2> QED
    BY <2>1, <2>3, <2>5 DEF SearchInv, TableInv, Answered, AnswerIsRight
<1>8. CASE UNCHANGED vars
  BY <1>8 DEF vars, SearchInv, TableInv, Bracketed, Answered, AnswerIsRight, Entries, Fn
<1> QED
  BY <1>1, <1>2, <1>3, <1>4, <1>5, <1>6, <1>7, <1>8 DEF Next

(* The invariant, always. *)
LEMMA SearchInvAlways == Spec => []SearchInv
BY SearchInvInit, SearchInvStep, PTL DEF Spec

(* The bounds are in the table. *)
LEMMA BoundsInTable == SearchInv => ReadsInTable
BY MiddleFacts DEF SearchInv, Bracketed, TableInv, ReadsInTable, Entries

(* What is returned is right. *)
LEMMA AnswerRight == SearchInv => AnswerIsRight
BY DEF SearchInv, Answered

(* Then a sorted table's answer is the function that contains the address. *)
LEMMA FunctionFound == SearchInv => FindsTheFunction
<1>1. ASSUME SearchInv PROVE FindsTheFunction
  <2> SUFFICES ASSUME pc = "done", mi # 0, Sorted,
                      NEW n \in Entries, Fn(n) <= addr
               PROVE  eitp # None /\ n <= eitp
    BY DEF FindsTheFunction
  <2>1. /\ mi \in DOMAIN maps /\ maps[mi].nrec \in Nat /\ addr \in Int
        /\ n \in Int /\ 0 <= n /\ n < maps[mi].nrec
    BY <1>1, MappingFacts DEF SearchInv, TableInv, Entries, Word
  <2>2. \A m \in Entries : Fn(m) \in Int /\ Fn(m) >= 0
    BY <1>1, FnInWord, WordAssumption DEF SearchInv, Word
  <2>3. eitp # None
    <3> SUFFICES ASSUME eitp = None PROVE FALSE
      OBVIOUS
    <3>1. addr < Fn(0) /\ 0 \in Entries
      BY <1>1, <2>1 DEF SearchInv, Answered, AnswerIsRight, Entries
    <3>2. n = 0 \/ Fn(0) < Fn(n)
      BY <2>1, <3>1 DEF Sorted
    <3> QED
      BY <2>1, <2>2, <3>1, <3>2
  <2>4. n <= eitp
    <3> SUFFICES ASSUME ~(n <= eitp) PROVE FALSE
      OBVIOUS
    <3>1. /\ eitp \in Entries /\ eitp \in Int /\ Fn(eitp) <= addr
          /\ \/ eitp = maps[mi].nrec - 1
             \/ addr < Fn(eitp + 1)
             \/ Fn(eitp + 1) = 0
      BY <1>1, <2>1, <2>3 DEF SearchInv, Answered, AnswerIsRight, Entries
    <3>2. eitp < n /\ eitp + 1 <= n /\ eitp + 1 \in Entries
      BY <2>1, <3>1 DEF Entries
    <3>3. Fn(eitp) < Fn(eitp + 1) /\ (eitp + 1 = n \/ Fn(eitp + 1) < Fn(n))
      BY <2>1, <3>1, <3>2 DEF Sorted
    <3> QED
      BY <2>1, <2>2, <3>1, <3>2, <3>3
  <2> QED
    BY <2>3, <2>4
<1> QED
  BY <1>1

(* A step of the search narrows what is left. *)
LEMMA RoundNarrows == SearchInv /\ [Next]_vars => [Narrowing]_vars
<1>1. ASSUME SearchInv, [Next]_vars PROVE [Narrowing]_vars
  <2> SUFFICES ASSUME pc = "search", pc' = "search", Next
               PROVE  right' - left' < right - left
    BY <1>1 DEF Narrowing
  <2>1. left \in Int /\ right \in Int /\ Middle \in Int
        /\ left <= Middle /\ Middle <= right
    BY <1>1, MiddleFacts DEF SearchInv, TableInv
  <2>2. CASE GoLeft
    BY <2>1, <2>2 DEF GoLeft
  <2>3. CASE GoRight
    BY <2>1, <2>3 DEF GoRight
  <2> QED
    BY <2>2, <2>3 DEF Next, StepBack, FindMap, NoMap, GiveUp, Found
<1> QED
  BY <1>1

(* The search reads no entry outside the table and its bounds never cross, *)
(* whether the table is sorted or not.                                     *)
THEOREM StaysInTable == Spec => []ReadsInTable
BY BoundsInTable, SearchInvAlways, PTL

(* Whatever the table holds, the entry that is returned covers the address *)
(* and NULL means that the address is before the first function.           *)
THEOREM AnswersAreRight == Spec => []AnswerIsRight
BY AnswerRight, SearchInvAlways, PTL

(* In a sorted table the answer is the function that contains the address: *)
(* no later entry starts at or before it.                                  *)
THEOREM FindsFunctions == Spec => []FindsTheFunction
BY FunctionFound, SearchInvAlways, PTL

(* The interval that is searched shrinks in every round, for every table:  *)
(* the loop ends after at most as many rounds as the table has entries.    *)
THEOREM RoundsAreBounded == Spec => Narrows
BY RoundNarrows, SearchInvAlways, PTL DEF Spec, Narrows

----------------------------------------------------------------------------
(***************************************************************************)
(* The list of mappings (MapInfo).                                         *)
(***************************************************************************)

(* The lines before line n that go into the list, and where each comes.    *)
LinesBefore(f, n) == {j \in WantedLines(f) : j < n}
Place(f, n, j) == Cardinality({k \in LinesBefore(f, n) : k >= j})

(* What comes next tells how far the lines and the list were read. *)
PhaseInv ==
  /\ step = "lines" => at = 1 /\ hdr = 1
  /\ step # "lines" => line = Len(file) + 1
  /\ step \in {"ready", "called"} => at = Len(milist) + 1

(* The list holds the wanted lines that were read, the last one first;     *)
(* those before at have their tables.                                      *)
ElementInv ==
  /\ Len(milist) = Cardinality(LinesBefore(file, line))
  /\ \A n \in DOMAIN milist : \E j \in LinesBefore(file, line) :
       /\ Place(file, line, j) = n
       /\ milist[n] = IF n < at THEN ReadMapping(file[j]) ELSE Fresh(file[j])

(* No header that was passed over is of a table. *)
HeaderInv ==
  Scanning => \A k \in 1..(hdr - 1) : k \in DOMAIN Reads /\ ~Reads[k].exidx

(* The stack is that of the lines that were read. *)
StackMapInv ==
  \A j \in DOMAIN file : j < line /\ file[j].name = StackName =>
    stackMap = [start |-> file[j].start, end |-> file[j].end]

BuildInv == MapsTypeOK /\ PhaseInv /\ ElementInv /\ HeaderInv /\ StackMapInv

(* What a file is. *)
LEMMA FileFacts ==
  ASSUME NEW f \in Files
  PROVE  /\ f \in Seq(MapsLine) /\ Len(f) \in Nat /\ DOMAIN f = 1..Len(f)
         /\ Ascending(f) /\ OneStack(f)
         /\ \A j \in DOMAIN f : f[j] \in MapsLine
BY FileAssumption

(* What a line is. *)
LEMMA LineFacts ==
  ASSUME NEW l \in MapsLine
  PROVE  /\ l.start \in Word /\ l.end \in Word /\ l.image \in Image
         /\ l.image.reads \in Seq(ProgramHeader) /\ l.image.elf \in BOOLEAN
         /\ Fresh(l) \in Mapping
<1>1. l.start \in Word /\ l.end \in Word /\ l.image \in Image
  BY DEF MapsLine
<1>2. l.image.reads \in Seq(ProgramHeader) /\ l.image.elf \in BOOLEAN
  BY <1>1 DEF Image
<1>3. 0 \in Word
  BY WordAssumption DEF Word
<1> QED
  BY <1>1, <1>2, <1>3 DEF Fresh, Mapping

(* A set of numbers that is not empty has a least one, which is its Min. *)
LEMMA LeastOf ==
  ASSUME NEW I \in SUBSET Nat, I # {}
  PROVE  Min(I) \in I /\ \A m \in I : Min(I) <= m
<1>1. PICK n \in I : \A m \in I : ~(<< m, n >> \in OpToRel(<, Nat))
  BY NatLessThanWellFounded, WFMin
<1>2. \A m \in I : n <= m
  <2> SUFFICES ASSUME NEW m \in I PROVE n <= m
    OBVIOUS
  <2>1. n \in Nat /\ m \in Nat
    OBVIOUS
  <2>2. ~(m < n)
    BY <1>1, <2>1 DEF OpToRel
  <2> QED
    BY <2>1, <2>2
<1> QED
  BY <1>2 DEF Min

(* The first header of a table, or none. *)
LEMMA FirstTableFacts ==
  ASSUME NEW h \in Seq(ProgramHeader)
  PROVE  \/ FirstTable(h) = 0 /\ \A k \in DOMAIN h : ~h[k].exidx
         \/ /\ FirstTable(h) \in DOMAIN h /\ FirstTable(h) \in Nat \ {0}
            /\ h[FirstTable(h)].exidx
            /\ \A k \in DOMAIN h : h[k].exidx => FirstTable(h) <= k
<1> DEFINE I == {k \in 1..Len(h) : h[k].exidx}
<1>1. FirstTable(h) = IF I # {} THEN Min(I) ELSE 0
  BY DEF FirstTable, SelectInSeq
<1>2. I \subseteq Nat
  OBVIOUS
<1>3. CASE I = {}
  BY <1>1, <1>3
<1>4. CASE I # {}
  <2> HIDE DEF I
  <2>1. Min(I) \in I /\ \A m \in I : Min(I) <= m
    BY <1>2, <1>4, LeastOf
  <2>2. FirstTable(h) \in I /\ \A m \in I : FirstTable(h) <= m
    BY <1>1, <1>4, <2>1
  <2> QED
    BY <2>2 DEF I
<1> QED
  BY <1>3, <1>4

(* A header of a table that none comes before is the first.               *)
LEMMA FirstTableIs ==
  ASSUME NEW h \in Seq(ProgramHeader), NEW i \in DOMAIN h, h[i].exidx,
         \A k \in 1..(i - 1) : ~h[k].exidx
  PROVE  FirstTable(h) = i
<1> DEFINE f == FirstTable(h)
<1>1. f \in DOMAIN h /\ h[f].exidx /\ f <= i
  BY FirstTableFacts
<1>2. DOMAIN h = 1..Len(h) /\ Len(h) \in Nat
  OBVIOUS
<1> HIDE DEF f
<1>3. f \in Nat \ {0} /\ i \in Nat \ {0} /\ f \notin 1..(i - 1)
  BY <1>1, <1>2
<1>4. f = i
  BY <1>1, <1>3
<1> QED
  BY <1>4 DEF f

(* What is read of a line is a mapping where the line has it. *)
LEMMA ReadFacts ==
  ASSUME NEW l \in MapsLine
  PROVE  /\ ReadMapping(l) \in Mapping
         /\ ReadMapping(l).start = l.start /\ ReadMapping(l).end = l.end
<1> DEFINE h == l.image.reads
           k == FirstTable(h)
           declares == l.image.elf /\ k # 0
           x == IF declares THEN (l.start + h[k].offset) % Modulus ELSE 0
           n == IF declares THEN h[k].filesz \div EntrySize ELSE 0
<1>1. l.start \in Word /\ l.end \in Word /\ h \in Seq(ProgramHeader)
  BY LineFacts
<1>2. ReadMapping(l) = [start |-> l.start, end |-> l.end, exidx |-> x, nrec |-> n]
  BY DEF ReadMapping, WithTable
<1>3. x \in Word /\ n \in Nat
  <2>1. CASE declares
    <3>1. h[k] \in ProgramHeader
      BY <1>1, <2>1, FirstTableFacts
    <3>2. h[k].offset \in Nat /\ h[k].filesz \in Nat /\ l.start \in Nat
      BY <1>1, <3>1, WordAssumption DEF ProgramHeader, Word
    <3>3. \A m \in Nat : m % Modulus \in Word /\ m \div EntrySize \in Nat
      BY WordAssumption DEF Word
    <3> QED
      BY <2>1, <3>2, <3>3
  <2>2. CASE ~declares
    BY <2>2, WordAssumption DEF Word
  <2> QED
    BY <2>1, <2>2
<1> HIDE DEF x, n
<1> QED
  BY <1>1, <1>2, <1>3 DEF Mapping

(* No two lines start at one address: what is read there is the line's.    *)
LEMMA ImageOfLine ==
  ASSUME file \in Files, NEW j \in DOMAIN file
  PROVE  ImageAt(file[j].start) = file[j].image
<1>1. /\ DOMAIN file = 1..Len(file) /\ Len(file) \in Nat /\ Ascending(file)
      /\ \A k \in DOMAIN file : file[k].start \in Nat /\ file[k].end \in Nat
  BY FileFacts, LineFacts, WordAssumption DEF Word
<1>2. \A k \in DOMAIN file : file[k].start = file[j].start => k = j
  <2> SUFFICES ASSUME NEW k \in DOMAIN file, file[k].start = file[j].start, k # j
               PROVE  FALSE
    OBVIOUS
  <2>1. k < j \/ j < k
    BY <1>1
  <2> QED
    BY <1>1, <2>1 DEF Ascending
<1>3. ToSet(file) = {file[k] : k \in DOMAIN file}
  BY DEF ToSet
<1>4. \A l \in ToSet(file) : l.start = file[j].start => l = file[j]
  BY <1>2, <1>3
<1> QED
  BY <1>3, <1>4 DEF ImageAt

(* The lines before a line are finite in number. *)
LEMMA LinesFinite ==
  ASSUME NEW f \in Files, NEW n
  PROVE  /\ IsFiniteSet(LinesBefore(f, n)) /\ Cardinality(LinesBefore(f, n)) \in Nat
         /\ \A j : IsFiniteSet({k \in LinesBefore(f, n) : k >= j})
<1>1. Len(f) \in Nat /\ DOMAIN f = 1..Len(f)
  BY FileFacts
<1>2. LinesBefore(f, n) \in SUBSET (1..Len(f)) /\ IsFiniteSet(1..Len(f))
  BY <1>1, FS_Interval DEF LinesBefore, WantedLines
<1>3. IsFiniteSet(LinesBefore(f, n))
  BY <1>2, FS_Subset
<1>4. \A j : {k \in LinesBefore(f, n) : k >= j} \in SUBSET LinesBefore(f, n)
  OBVIOUS
<1> QED
  BY <1>3, <1>4, FS_Subset, FS_CardinalityType

(* A later line comes earlier in the list. *)
LEMMA PlacesDescend ==
  ASSUME NEW f \in Files, NEW n, NEW j \in LinesBefore(f, n), NEW k \in LinesBefore(f, n), j < k
  PROVE  /\ Place(f, n, j) \in Nat /\ Place(f, n, k) \in Nat /\ Place(f, n, k) < Place(f, n, j)
<1> DEFINE J == {m \in LinesBefore(f, n) : m >= j}
           K == {m \in LinesBefore(f, n) : m >= k}
<1>1. LinesBefore(f, n) \subseteq Nat
  BY FileFacts DEF LinesBefore, WantedLines
<1>2. K \in SUBSET J /\ j \in J /\ j \notin K
  BY <1>1
<1>3. IsFiniteSet(J) /\ IsFiniteSet(K)
  BY LinesFinite
<1>4. Cardinality(K) <= Cardinality(J) /\ Cardinality(K) # Cardinality(J)
  BY <1>2, <1>3, FS_Subset
<1>5. Cardinality(K) \in Nat /\ Cardinality(J) \in Nat
  BY <1>3, FS_CardinalityType
<1> QED
  BY <1>4, <1>5 DEF Place

(* So a line's place is its own. *)
LEMMA PlaceIsOwn ==
  ASSUME NEW f \in Files, NEW n, NEW j \in LinesBefore(f, n), NEW k \in LinesBefore(f, n),
         Place(f, n, j) = Place(f, n, k)
  PROVE  j = k
<1>1. j \in Nat /\ k \in Nat
  BY FileFacts DEF LinesBefore, WantedLines
<1>2. ~(j < k) /\ ~(k < j)
  BY PlacesDescend
<1> QED
  BY <1>1, <1>2

(* What one more line brings. *)
LEMMA NextLine ==
  ASSUME NEW f \in Files, NEW n \in DOMAIN f
  PROVE  /\ ~Wanted(f[n]) =>
              /\ LinesBefore(f, n + 1) = LinesBefore(f, n)
              /\ \A j \in LinesBefore(f, n) : Place(f, n + 1, j) = Place(f, n, j)
         /\ Wanted(f[n]) =>
              /\ LinesBefore(f, n + 1) = LinesBefore(f, n) \cup {n}
              /\ Cardinality(LinesBefore(f, n + 1)) = Cardinality(LinesBefore(f, n)) + 1
              /\ \A j \in LinesBefore(f, n) : Place(f, n + 1, j) = Place(f, n, j) + 1
              /\ Place(f, n + 1, n) = 1
<1>1. WantedLines(f) \subseteq Nat /\ n \in Nat
  BY FileFacts DEF WantedLines
<1>2. /\ \A j \in LinesBefore(f, n) : j \in Nat /\ j < n
      /\ n \notin LinesBefore(f, n)
      /\ LinesBefore(f, n) \subseteq LinesBefore(f, n + 1)
      /\ LinesBefore(f, n + 1) \subseteq LinesBefore(f, n) \cup {n}
      /\ n \in LinesBefore(f, n + 1) <=> Wanted(f[n])
  BY <1>1 DEF LinesBefore, WantedLines
<1>3. ASSUME ~Wanted(f[n])
      PROVE  LinesBefore(f, n + 1) = LinesBefore(f, n)
  BY <1>2, <1>3
<1>4. ASSUME Wanted(f[n])
      PROVE  LinesBefore(f, n + 1) = LinesBefore(f, n) \cup {n}
  BY <1>2, <1>4
<1>5. ASSUME Wanted(f[n])
      PROVE  Cardinality(LinesBefore(f, n + 1)) = Cardinality(LinesBefore(f, n)) + 1
  BY <1>2, <1>4, <1>5, LinesFinite, FS_AddElement
<1>6. ASSUME Wanted(f[n]), NEW j \in LinesBefore(f, n)
      PROVE  Place(f, n + 1, j) = Place(f, n, j) + 1
  <2> DEFINE K == {k \in LinesBefore(f, n) : k >= j}
  <2>1. IsFiniteSet(K) /\ n \notin K
    BY <1>2, LinesFinite
  <2>2. {k \in LinesBefore(f, n + 1) : k >= j} = K \cup {n}
    <3>1. n >= j
      BY <1>1, <1>2
    <3> QED
      BY <1>4, <1>6, <3>1
  <2>3. Cardinality(K \cup {n}) = Cardinality(K) + 1
    BY <2>1, FS_AddElement
  <2> QED
    BY <2>2, <2>3 DEF Place
<1>7. ASSUME Wanted(f[n]) PROVE Place(f, n + 1, n) = 1
  <2>1. {k \in LinesBefore(f, n + 1) : k >= n} = {n}
    BY <1>1, <1>2, <1>4, <1>7
  <2>2. Cardinality({n}) = 1
    BY FS_Singleton
  <2> QED
    BY <2>1, <2>2 DEF Place
<1> QED
  BY <1>3, <1>4, <1>5, <1>6, <1>7 DEF Place

(* Each place of the list is that of a wanted line: there are as many of   *)
(* the ones as of the others.                                              *)
LEMMA LineOfPlace ==
  ASSUME NEW f \in Files, NEW n \in 1..Cardinality(WantedLines(f))
  PROVE  \E j \in WantedLines(f) : FromLast(f, j) = n
<1> DEFINE W == WantedLines(f)
           N == Cardinality(W)
           m == Len(f) + 1
           P == [j \in W |-> FromLast(f, j)]
<1>1. m \in Nat /\ DOMAIN f = 1..Len(f) /\ Len(f) \in Nat
  BY FileFacts
<1>2. W = LinesBefore(f, m) /\ \A j \in W : FromLast(f, j) = Place(f, m, j)
  <2>1. W = LinesBefore(f, m)
    BY <1>1 DEF LinesBefore, WantedLines
  <2> QED
    BY <2>1 DEF FromLast, Place
<1>3. IsFiniteSet(W) /\ N \in Nat
  BY <1>2, LinesFinite
<1>4. ASSUME NEW j \in W PROVE FromLast(f, j) \in 1..N
  <2> DEFINE K == {k \in W : k >= j}
  <2>1. K \in SUBSET W /\ j \in K
    BY <1>1 DEF WantedLines
  <2>2. IsFiniteSet(K) /\ Cardinality(K) <= N
    BY <1>3, <2>1, FS_Subset
  <2>3. Cardinality(K) \in Nat /\ Cardinality(K) # 0
    BY <2>1, <2>2, FS_CardinalityType, FS_EmptySet
  <2>4. FromLast(f, j) = Cardinality(K)
    BY DEF FromLast
  <2> QED
    BY <1>3, <2>2, <2>3, <2>4
<1>5. P \in [W -> 1..N]
  BY <1>4
<1>6. \A j, k \in W : P[j] = P[k] => j = k
  BY <1>2, PlaceIsOwn
<1>7. P \in Injection(W, 1..N)
  BY <1>5, <1>6 DEF Injection, IsInjective
<1>8. IsFiniteSet(1..N) /\ Cardinality(1..N) = N
  BY <1>3, FS_Interval
<1>9. P \in Surjection(W, 1..N)
  BY <1>7, <1>8, FS_Injection
<1>10. \E j \in W : P[j] = n
  BY <1>9 DEF Surjection
<1> QED
  BY <1>10

(* The invariant holds at the start. *)
LEMMA BuildInvInit == MapsInit => BuildInv
<1> SUFFICES ASSUME MapsInit PROVE BuildInv
  OBVIOUS
<1>1. file \in Files /\ Len(file) \in Nat /\ DOMAIN file = 1..Len(file)
  BY FileFacts DEF MapsInit
<1>2. 0 \in Word
  BY WordAssumption DEF Word
<1>3. MapsTypeOK
  BY <1>1, <1>2 DEF MapsInit, MapsTypeOK
<1>4. LinesBefore(file, line) = {}
  BY <1>1 DEF MapsInit, LinesBefore, WantedLines
<1>5. ElementInv
  <2>1. milist = <<>> /\ Len(milist) = 0 /\ DOMAIN milist = {}
    BY DEF MapsInit
  <2> QED
    BY <1>4, <2>1, FS_EmptySet DEF ElementInv
<1>6. PhaseInv /\ HeaderInv /\ StackMapInv
  BY <1>1 DEF MapsInit, PhaseInv, HeaderInv, Scanning, StackMapInv
<1> QED
  BY <1>3, <1>5, <1>6 DEF BuildInv

(* A line that does not go into the list leaves it as it is. *)
LEMMA LinePassed ==
  ASSUME BuildInv, Reading, ~Wanted(Current),
         line' = line + 1, UNCHANGED << file, milist, at, hdr, step >>
  PROVE  /\ line \in DOMAIN file /\ line' \in 1..(Len(file) + 1) /\ Len(milist) < line'
         /\ PhaseInv' /\ ElementInv' /\ HeaderInv'
<1>1. /\ file \in Files /\ Len(file) \in Nat /\ DOMAIN file = 1..Len(file)
      /\ line \in 1..(Len(file) + 1) /\ Len(milist) < line /\ Len(milist) \in Nat
      /\ step = "lines"
  BY FileFacts DEF BuildInv, MapsTypeOK, Reading
<1>2. line \in DOMAIN file /\ line' \in 1..(Len(file) + 1) /\ Len(milist) < line'
  BY <1>1 DEF Reading
<1>3. /\ LinesBefore(file, line + 1) = LinesBefore(file, line)
      /\ \A j \in LinesBefore(file, line) : Place(file, line + 1, j) = Place(file, line, j)
  BY <1>1, <1>2, NextLine DEF Current
<1>4. ElementInv'
  BY <1>3 DEF BuildInv, ElementInv
<1>5. PhaseInv' /\ HeaderInv'
  BY <1>1 DEF BuildInv, PhaseInv, HeaderInv, Scanning
<1> QED
  BY <1>2, <1>4, <1>5

(* A wanted line becomes the head of the list, and the others move on. *)
LEMMA LineTaken ==
  ASSUME BuildInv, TakeMapping
  PROVE  BuildInv'
<1>1. /\ file \in Files /\ Len(file) \in Nat /\ DOMAIN file = 1..Len(file)
      /\ line \in 1..(Len(file) + 1) /\ milist \in Seq(Mapping) /\ Len(milist) \in Nat
      /\ Len(milist) < line /\ step = "lines" /\ at = 1 /\ hdr = 1
  BY FileFacts DEF BuildInv, MapsTypeOK, PhaseInv, TakeMapping, Reading
<1>2. /\ line \in DOMAIN file /\ line' = line + 1 /\ line' \in 1..(Len(file) + 1)
      /\ Wanted(file[line]) /\ milist' = << Fresh(file[line]) >> \o milist
      /\ UNCHANGED << file, stackMap, at, hdr, step >>
  BY <1>1 DEF TakeMapping, Reading, Current
<1>3. Fresh(file[line]) \in Mapping
  BY <1>1, <1>2, FileFacts, LineFacts
<1>4. /\ milist' \in Seq(Mapping) /\ Len(milist') = Len(milist) + 1
      /\ DOMAIN milist' = 1..(Len(milist) + 1)
      /\ milist'[1] = Fresh(file[line])
      /\ \A n \in 2..(Len(milist) + 1) : milist'[n] = milist[n - 1] /\ n - 1 \in DOMAIN milist
  BY <1>1, <1>2, <1>3
<1>5. /\ LinesBefore(file, line + 1) = LinesBefore(file, line) \cup {line}
      /\ Cardinality(LinesBefore(file, line + 1)) = Cardinality(LinesBefore(file, line)) + 1
      /\ \A j \in LinesBefore(file, line) : Place(file, line + 1, j) = Place(file, line, j) + 1
      /\ Place(file, line + 1, line) = 1
  BY <1>1, <1>2, NextLine
<1>6. MapsTypeOK'
  BY <1>1, <1>2, <1>4 DEF BuildInv, MapsTypeOK
<1>7. ElementInv'
  <2>1. Len(milist') = Cardinality(LinesBefore(file, line + 1))
    BY <1>4, <1>5 DEF BuildInv, ElementInv
  <2>2. ASSUME NEW n \in DOMAIN milist'
        PROVE  \E j \in LinesBefore(file, line + 1) :
                 Place(file, line + 1, j) = n /\ milist'[n] = Fresh(file[j])
    <3>1. CASE n = 1
      BY <1>4, <1>5, <3>1
    <3>2. CASE n # 1
      <4>1. n \in 2..(Len(milist) + 1) /\ n - 1 \in DOMAIN milist /\ milist'[n] = milist[n - 1]
        BY <1>1, <1>4, <2>2, <3>2
      <4>2. PICK j \in LinesBefore(file, line) :
              /\ Place(file, line, j) = n - 1
              /\ milist[n - 1] = IF n - 1 < at THEN ReadMapping(file[j]) ELSE Fresh(file[j])
        BY <4>1 DEF BuildInv, ElementInv
      <4>3. ~(n - 1 < at) /\ (n - 1) + 1 = n
        BY <1>1, <4>1
      <4> QED
        BY <1>5, <4>1, <4>2, <4>3
    <3> QED
      BY <3>1, <3>2
  <2>3. \A n \in DOMAIN milist' : ~(n < at)
    BY <1>1, <1>4
  <2> QED
    BY <1>2, <2>1, <2>2, <2>3 DEF ElementInv
<1>8. PhaseInv' /\ HeaderInv'
  BY <1>1, <1>2 DEF PhaseInv, HeaderInv, Scanning
<1>9. StackMapInv'
  <2>1. file[line].name # StackName
    BY <1>2 DEF Wanted
  <2>2. \A j \in DOMAIN file : j < line + 1 => j < line \/ j = line
    BY <1>1
  <2> QED
    BY <1>2, <2>1, <2>2 DEF BuildInv, StackMapInv
<1> QED
  BY <1>6, <1>7, <1>8, <1>9 DEF BuildInv

(* The mapping whose headers are read is that of a line, and the headers   *)
(* are those of its file.                                                  *)
LEMMA LineOfMapping ==
  ASSUME BuildInv, Scanning
  PROVE  /\ at \in DOMAIN milist
         /\ \E j \in LinesBefore(file, line) :
              /\ j \in DOMAIN file /\ file[j] \in MapsLine
              /\ Place(file, line, j) = at /\ milist[at] = Fresh(file[j])
              /\ ImageAt(milist[at].start) = file[j].image
              /\ Reads = file[j].image.reads
<1>1. file \in Files /\ milist \in Seq(Mapping) /\ at \in DOMAIN milist /\ at \in Nat
  BY DEF BuildInv, MapsTypeOK, Scanning
<1>2. PICK j \in LinesBefore(file, line) :
        Place(file, line, j) = at /\ milist[at] = Fresh(file[j])
  BY <1>1 DEF BuildInv, ElementInv
<1>3. j \in DOMAIN file /\ file[j] \in MapsLine
  BY <1>1, FileFacts DEF LinesBefore, WantedLines
<1>4. milist[at].start = file[j].start
  BY <1>2 DEF Fresh
<1> QED
  BY <1>1, <1>2, <1>3, <1>4, ImageOfLine DEF Reads

(* The mapping at hand gets what its file declares. *)
LEMMA MappingDone ==
  ASSUME BuildInv, Scanning, NEW j \in LinesBefore(file, line), file[j] \in MapsLine,
         Place(file, line, j) = at,
         milist' = [milist EXCEPT ![at] = ReadMapping(file[j])],
         NextMapping, UNCHANGED << file, line, stackMap, step >>
  PROVE  BuildInv'
<1>1. /\ milist \in Seq(Mapping) /\ Len(milist) \in Nat /\ at \in DOMAIN milist /\ at \in Nat
      /\ step = "exidx"
  BY DEF BuildInv, MapsTypeOK, Scanning
<1>2. /\ milist' \in Seq(Mapping) /\ Len(milist') = Len(milist) /\ DOMAIN milist' = DOMAIN milist
      /\ \A n \in DOMAIN milist :
           milist'[n] = IF n = at THEN ReadMapping(file[j]) ELSE milist[n]
  BY <1>1, ReadFacts
<1>3. at' = at + 1 /\ hdr' = 1 /\ at' \in 1..(Len(milist) + 1)
  BY <1>1 DEF NextMapping
<1>4. MapsTypeOK'
  BY <1>2, <1>3 DEF BuildInv, MapsTypeOK
<1>5. ElementInv'
  <2>1. ASSUME NEW n \in DOMAIN milist
        PROVE  \E k \in LinesBefore(file, line) :
                 /\ Place(file, line, k) = n
                 /\ milist'[n] = IF n < at + 1 THEN ReadMapping(file[k]) ELSE Fresh(file[k])
    <3>1. CASE n = at
      <4>1. n < at + 1
        BY <1>1, <3>1
      <4> QED
        BY <1>2, <3>1, <4>1
    <3>2. CASE n # at
      <4>1. PICK k \in LinesBefore(file, line) :
              /\ Place(file, line, k) = n
              /\ milist[n] = IF n < at THEN ReadMapping(file[k]) ELSE Fresh(file[k])
        BY DEF BuildInv, ElementInv
      <4>2. (n < at) <=> (n < at + 1)
        BY <1>1, <3>2
      <4> QED
        BY <1>2, <3>2, <4>1, <4>2
    <3> QED
      BY <3>1, <3>2
  <2> QED
    BY <1>2, <1>3, <2>1 DEF BuildInv, ElementInv
<1>6. PhaseInv' /\ StackMapInv'
  BY <1>1, <1>3 DEF BuildInv, PhaseInv, StackMapInv
<1>7. HeaderInv'
  BY <1>3 DEF HeaderInv
<1> QED
  BY <1>4, <1>5, <1>6, <1>7 DEF BuildInv

(* Every step of the building keeps the invariant. *)
LEMMA BuildInvStep ==
  ASSUME BuildInv, MapsNext
  PROVE  BuildInv'
<1>1. /\ file \in Files /\ Len(file) \in Nat /\ DOMAIN file = 1..Len(file)
      /\ line \in 1..(Len(file) + 1) /\ milist \in Seq(Mapping) /\ Len(milist) \in Nat
      /\ at \in 1..(Len(milist) + 1) /\ hdr \in Nat \ {0} /\ Len(milist) < line
  BY FileFacts DEF BuildInv, MapsTypeOK
<1>2. CASE SkipLine
  <2>1. /\ Reading /\ ~Wanted(Current) /\ Current.name # StackName /\ line' = line + 1
        /\ UNCHANGED << file, milist, stackMap, at, hdr, step >>
    BY <1>2 DEF SkipLine
  <2>2. StackMapInv'
    <3>1. \A j \in DOMAIN file : j < line + 1 => j < line \/ j = line
      BY <1>1
    <3> QED
      BY <2>1, <3>1 DEF BuildInv, StackMapInv, Current
  <2>3. MapsTypeOK'
    BY <1>1, <2>1, LinePassed DEF BuildInv, MapsTypeOK
  <2> QED
    BY <2>1, <2>2, <2>3, LinePassed DEF BuildInv
<1>3. CASE TakeStack
  <2>1. /\ Reading /\ ~Wanted(Current) /\ Current.name = StackName /\ line' = line + 1
        /\ stackMap' = [start |-> Current.start, end |-> Current.end]
        /\ UNCHANGED << file, milist, at, hdr, step >>
    BY <1>3 DEF TakeStack, Wanted
  <2>2. line \in DOMAIN file
    BY <1>1, <2>1 DEF Reading
  <2>3. StackMapInv'
    <3>1. \A j \in DOMAIN file : file[j].name = StackName => j = line
      BY <1>1, <2>1, <2>2, FileFacts DEF OneStack, Current
    <3> QED
      BY <2>1, <3>1 DEF StackMapInv, Current
  <2>4. stackMap' \in [start : Word, end : Word]
    BY <1>1, <2>1, <2>2, FileFacts, LineFacts DEF Current
  <2>5. MapsTypeOK'
    BY <1>1, <2>1, <2>4, LinePassed DEF BuildInv, MapsTypeOK
  <2> QED
    BY <2>1, <2>3, <2>5, LinePassed DEF BuildInv
<1>4. CASE TakeMapping
  BY <1>4, LineTaken
<1>5. CASE EndOfFile
  <2>1. /\ step = "lines" /\ line = Len(file) + 1 /\ step' = "exidx" /\ hdr = 1
        /\ UNCHANGED << file, line, milist, stackMap, at, hdr >>
    BY <1>1, <1>5 DEF EndOfFile, BuildInv, PhaseInv
  <2>2. MapsTypeOK' /\ PhaseInv'
    BY <2>1 DEF BuildInv, MapsTypeOK, PhaseInv
  <2>3. ElementInv' /\ StackMapInv' /\ HeaderInv'
    BY <2>1 DEF BuildInv, ElementInv, StackMapInv, HeaderInv
  <2> QED
    BY <2>2, <2>3 DEF BuildInv
<1>6. CASE NoTable
  <2>1. /\ Scanning /\ NextMapping /\ UNCHANGED << file, line, milist, stackMap, step >>
        /\ ~ImageAt(milist[at].start).elf \/ hdr > Len(Reads)
    BY <1>6 DEF NoTable
  <2>2. PICK j \in LinesBefore(file, line) :
          /\ j \in DOMAIN file /\ file[j] \in MapsLine
          /\ Place(file, line, j) = at /\ milist[at] = Fresh(file[j])
          /\ ImageAt(milist[at].start) = file[j].image
          /\ Reads = file[j].image.reads
    BY <2>1, LineOfMapping
  <2> DEFINE h == file[j].image.reads
  <2>3. h \in Seq(ProgramHeader) /\ Len(h) \in Nat /\ DOMAIN h = 1..Len(h)
    BY <2>2, LineFacts
  <2>4. ~file[j].image.elf \/ FirstTable(h) = 0
    <3>1. ASSUME hdr > Len(h) PROVE \A k \in DOMAIN h : ~h[k].exidx
      <4>1. \A k \in DOMAIN h : k \in 1..(hdr - 1)
        BY <1>1, <2>3, <3>1
      <4> QED
        BY <2>1, <2>2, <4>1 DEF BuildInv, HeaderInv
    <3>2. hdr > Len(h) => FirstTable(h) = 0
      BY <2>3, <3>1, FirstTableFacts
    <3> QED
      BY <2>1, <2>2, <3>2
  <2>5. ReadMapping(file[j]) = Fresh(file[j])
    BY <2>4 DEF ReadMapping, WithTable, Fresh
  <2>6. milist' = [milist EXCEPT ![at] = ReadMapping(file[j])]
    BY <1>1, <2>1, <2>2, <2>5
  <2> QED
    BY <2>1, <2>2, <2>6, MappingDone
<1>7. CASE SkipHeader
  <2>1. /\ Scanning /\ hdr <= Len(Reads) /\ ~Reads[hdr].exidx /\ hdr' = hdr + 1
        /\ UNCHANGED << file, line, milist, stackMap, at, step >>
    BY <1>7 DEF SkipHeader
  <2>2. Reads \in Seq(ProgramHeader)
    BY <2>1, LineOfMapping, LineFacts
  <2>3. Reads' = Reads
    BY <2>1 DEF Reads, ImageAt
  <2>4. \A k \in 1..(hdr' - 1) : k \in DOMAIN Reads /\ ~Reads[k].exidx
    <3>1. \A k \in 1..(hdr' - 1) : k = hdr \/ k \in 1..(hdr - 1)
      BY <1>1, <2>1
    <3>2. hdr \in DOMAIN Reads
      BY <1>1, <2>1, <2>2
    <3> QED
      BY <2>1, <3>1, <3>2 DEF BuildInv, HeaderInv
  <2>5. HeaderInv'
    BY <2>3, <2>4 DEF HeaderInv
  <2>6. MapsTypeOK' /\ PhaseInv' /\ ElementInv' /\ StackMapInv'
    <3>1. step = "exidx" /\ hdr' \in Nat \ {0}
      BY <1>1, <2>1 DEF Scanning
    <3> QED
      BY <2>1, <3>1 DEF BuildInv, MapsTypeOK, PhaseInv, ElementInv, StackMapInv
  <2> QED
    BY <2>5, <2>6 DEF BuildInv
<1>8. CASE TakeTable
  <2>1. /\ Scanning /\ NextMapping /\ UNCHANGED << file, line, stackMap, step >>
        /\ ImageAt(milist[at].start).elf /\ hdr <= Len(Reads) /\ Reads[hdr].exidx
        /\ milist' = [milist EXCEPT
                        ![at].exidx = (milist[at].start + Reads[hdr].offset) % Modulus,
                        ![at].nrec = Reads[hdr].filesz \div EntrySize]
    BY <1>8 DEF TakeTable
  <2>2. PICK j \in LinesBefore(file, line) :
          /\ j \in DOMAIN file /\ file[j] \in MapsLine
          /\ Place(file, line, j) = at /\ milist[at] = Fresh(file[j])
          /\ ImageAt(milist[at].start) = file[j].image
          /\ Reads = file[j].image.reads
    BY <2>1, LineOfMapping
  <2> DEFINE h == file[j].image.reads
  <2>3. h \in Seq(ProgramHeader) /\ hdr \in DOMAIN h /\ h[hdr].exidx
    BY <1>1, <2>1, <2>2, LineFacts
  <2>4. FirstTable(h) = hdr
    <3>1. \A k \in 1..(hdr - 1) : ~h[k].exidx
      BY <2>1, <2>2 DEF BuildInv, HeaderInv
    <3> QED
      BY <2>3, <3>1, FirstTableIs
  <2>5. ReadMapping(file[j]) =
          [start |-> file[j].start, end |-> file[j].end,
           exidx |-> (file[j].start + h[hdr].offset) % Modulus,
           nrec  |-> h[hdr].filesz \div EntrySize]
    BY <1>1, <2>1, <2>2, <2>4 DEF ReadMapping, WithTable
  <2>6. milist' = [milist EXCEPT ![at] = ReadMapping(file[j])]
    <3> DEFINE x == (milist[at].start + Reads[hdr].offset) % Modulus
               n == Reads[hdr].filesz \div EntrySize
    <3>1. milist' = [milist EXCEPT ![at].exidx = x, ![at].nrec = n]
      BY <2>1
    <3>2. ReadMapping(file[j]) =
            [start |-> file[j].start, end |-> file[j].end, exidx |-> x, nrec |-> n]
      BY <2>2, <2>5 DEF Fresh
    <3>3. milist[at] = [start |-> file[j].start, end |-> file[j].end, exidx |-> 0, nrec |-> 0]
      BY <2>2 DEF Fresh
    <3> DEFINE a == file[j].start
               b == file[j].end
               r == milist[at]
               d == ReadMapping(file[j])
    <3> HIDE DEF x, n, a, b, r, d
    <3>6. d = [start |-> a, end |-> b, exidx |-> x, nrec |-> n]
      BY <3>2 DEF a, b, d
    <3>7. r = [start |-> a, end |-> b, exidx |-> 0, nrec |-> 0]
      BY <3>3 DEF a, b, r
    <3> DEFINE s == [[r EXCEPT !.exidx = x] EXCEPT !.nrec = n]
    <3>9. s \in [start : {a}, end : {b}, exidx : {x}, nrec : {n}]
      BY <3>7
    <3> HIDE DEF s
    <3>10. s = d
      BY <3>6, <3>9
    <3>8. [[r EXCEPT !.exidx = x] EXCEPT !.nrec = n] = d
      BY <3>10 DEF s
    <3>4. [[milist[at] EXCEPT !.exidx = x] EXCEPT !.nrec = n] = ReadMapping(file[j])
      BY <3>8 DEF r, d
    <3>5. at \in DOMAIN milist /\ milist = [k \in DOMAIN milist |-> milist[k]]
      BY <1>1, <2>1 DEF Scanning
    <3> QED
      BY <3>1, <3>4, <3>5
  <2> QED
    BY <2>1, <2>2, <2>6, MappingDone
<1>9. CASE ListReady
  <2>1. /\ step = "exidx" /\ at = Len(milist) + 1 /\ step' = "ready"
        /\ UNCHANGED << file, line, milist, stackMap, at, hdr >>
    BY <1>1, <1>9 DEF ListReady
  <2> QED
    BY <2>1 DEF BuildInv, MapsTypeOK, PhaseInv, ElementInv, HeaderInv, Scanning, StackMapInv
<1> QED
  BY <1>2, <1>3, <1>4, <1>5, <1>6, <1>7, <1>8, <1>9 DEF MapsNext

(* The list that is ready is the one that is declared. *)
LEMMA ListIsAsRead ==
  ASSUME BuildInv, step \in {"ready", "called"}
  PROVE  milist = AsRead(file)
<1>1. /\ file \in Files /\ Len(file) \in Nat /\ DOMAIN file = 1..Len(file)
      /\ milist \in Seq(Mapping) /\ DOMAIN milist = 1..Len(milist)
      /\ line = Len(file) + 1 /\ at = Len(milist) + 1 /\ Len(milist) \in Nat
  BY FileFacts DEF BuildInv, MapsTypeOK, PhaseInv
<1>2. LinesBefore(file, line) = WantedLines(file)
  BY <1>1 DEF LinesBefore, WantedLines
<1>3. Len(milist) = Cardinality(WantedLines(file))
  BY <1>2 DEF BuildInv, ElementInv
<1>4. ASSUME NEW n \in DOMAIN milist
      PROVE  milist[n] =
               ReadMapping(file[CHOOSE j \in WantedLines(file) : FromLast(file, j) = n])
  <2>1. PICK j \in WantedLines(file) :
          Place(file, line, j) = n /\ milist[n] = ReadMapping(file[j])
    <3>1. n < at
      BY <1>1
    <3> QED
      BY <1>2, <3>1 DEF BuildInv, ElementInv
  <2>2. \A k \in WantedLines(file) : FromLast(file, k) = Place(file, line, k)
    BY <1>2 DEF FromLast, Place
  <2>3. \A k \in WantedLines(file) : FromLast(file, k) = n => k = j
    BY <1>1, <1>2, <2>1, <2>2, PlaceIsOwn
  <2> QED
    BY <2>1, <2>2, <2>3
<1> DEFINE G(n) ==
             ReadMapping(file[CHOOSE j \in WantedLines(file) : FromLast(file, j) = n])
<1>5. AsRead(file) = [n \in 1..Cardinality(WantedLines(file)) |-> G(n)]
  BY DEF AsRead, LineAt
<1>6. \A n \in DOMAIN milist : milist[n] = G(n)
  BY <1>4
<1> HIDE DEF G
<1>7. milist = [n \in 1..Len(milist) |-> milist[n]]
  BY <1>1
<1> QED
  BY <1>1, <1>3, <1>5, <1>6, <1>7

(* Of two mappings of the list the one that comes first is the upper one.  *)
LEMMA ListDescends ==
  ASSUME BuildInv, step = "called"
  PROVE  /\ \A n \in DOMAIN milist : /\ milist[n].start \in Nat /\ milist[n].end \in Nat
                                     /\ milist[n].start < milist[n].end
         /\ \A m, n \in DOMAIN milist : m < n => milist[n].end <= milist[m].start
<1>1. /\ file \in Files /\ Len(file) \in Nat /\ DOMAIN file = 1..Len(file) /\ Ascending(file)
      /\ milist \in Seq(Mapping) /\ DOMAIN milist = 1..Len(milist) /\ at = Len(milist) + 1
      /\ Len(milist) \in Nat
  BY FileFacts DEF BuildInv, MapsTypeOK, PhaseInv
<1>2. ASSUME NEW n \in DOMAIN milist
      PROVE  \E j \in LinesBefore(file, line) :
               /\ j \in DOMAIN file /\ Place(file, line, j) = n
               /\ milist[n].start = file[j].start /\ milist[n].end = file[j].end
               /\ file[j].start \in Nat /\ file[j].end \in Nat
  <2>1. n < at
    BY <1>1
  <2>2. PICK j \in LinesBefore(file, line) :
          Place(file, line, j) = n /\ milist[n] = ReadMapping(file[j])
    BY <2>1 DEF BuildInv, ElementInv
  <2>3. j \in DOMAIN file /\ file[j] \in MapsLine
    BY <1>1, FileFacts DEF LinesBefore, WantedLines
  <2>4. file[j].start \in Nat /\ file[j].end \in Nat
    BY <2>3, LineFacts, WordAssumption DEF Word
  <2> QED
    BY <2>2, <2>3, <2>4, ReadFacts
<1>3. ASSUME NEW n \in DOMAIN milist
      PROVE  milist[n].start \in Nat /\ milist[n].end \in Nat /\ milist[n].start < milist[n].end
  BY <1>1, <1>2 DEF Ascending
<1>4. ASSUME NEW m \in DOMAIN milist, NEW n \in DOMAIN milist, m < n
      PROVE  milist[n].end <= milist[m].start
  <2>1. PICK j \in LinesBefore(file, line) :
          j \in DOMAIN file /\ Place(file, line, j) = m /\ milist[m].start = file[j].start
    BY <1>2
  <2>2. PICK k \in LinesBefore(file, line) :
          k \in DOMAIN file /\ Place(file, line, k) = n /\ milist[n].end = file[k].end
    BY <1>2
  <2>3. ~(j < k) /\ j # k
    <3>1. m \in Nat /\ n \in Nat
      BY <1>1
    <3>2. j < k => Place(file, line, k) < Place(file, line, j)
      BY <1>1, PlacesDescend
    <3> QED
      BY <1>4, <2>1, <2>2, <3>1, <3>2
  <2>4. k < j
    BY <1>1, <2>1, <2>2, <2>3
  <2> QED
    BY <1>1, <2>1, <2>2, <2>4 DEF Ascending
<1> QED
  BY <1>3, <1>4

----------------------------------------------------------------------------
(***************************************************************************)
(* The search in the list that was built (MappedSearch).                   *)
(***************************************************************************)

(* The search waits for the list and is then in it, the tables are those   *)
(* that the list declares, and the mapping found is the first that has the *)
(* address.                                                                *)
CallInv ==
  /\ step # "called" => maps = <<>> /\ pc = "back" /\ mi = 0
  /\ step = "called" => maps = milist
  /\ \A k \in DOMAIN AsRead(file) : table[k] \in [0..(AsRead(file)[k].nrec - 1) -> Word]
  /\ pc \in {"back", "map"} => mi = 0
  /\ mi # 0 => /\ InRange(addr, maps[mi])
               /\ \A j \in 1..(mi - 1) : ~InRange(addr, maps[j])

MappedInv == BuildInv /\ SearchInv /\ CallInv

(* The invariant holds at the start. *)
LEMMA MappedInvInit == MappedInit => MappedInv
<1> SUFFICES ASSUME MappedInit PROVE MappedInv
  OBVIOUS
<1>1. BuildInv /\ step = "lines"
  BY BuildInvInit DEF MappedInit, MapsInit
<1>2. \A k \in DOMAIN AsRead(file) : table[k] \in [0..(AsRead(file)[k].nrec - 1) -> Word]
  <2> SUFFICES ASSUME NEW k \in DOMAIN AsRead(file)
               PROVE  table[k] \in [0..(AsRead(file)[k].nrec - 1) -> Word]
    OBVIOUS
  <2> DEFINE ms == AsRead(file)
  <2>1. /\ table \in [DOMAIN ms -> Tables(ms)]
        /\ \A n \in DOMAIN table : DOMAIN table[n] = 0..(ms[n].nrec - 1)
    BY DEF MappedInit
  <2> HIDE DEF ms
  <2>2. k \in DOMAIN ms
    BY DEF ms
  <2>3. table[k] \in Tables(ms) /\ DOMAIN table[k] = 0..(ms[k].nrec - 1)
    BY <2>1, <2>2
  <2>4. PICK j \in DOMAIN ms : table[k] \in [0..(ms[j].nrec - 1) -> Word]
    BY <2>3 DEF Tables
  <2>5. table[k] \in [0..(ms[k].nrec - 1) -> Word]
    BY <2>3, <2>4
  <2> QED
    BY <2>5 DEF ms
<1>3. maps = <<>> /\ DOMAIN maps = {} /\ maps \in Seq(Mapping)
  BY DEF MappedInit
<1>4. SearchInv
  BY <1>3 DEF MappedInit, SearchInv, TableInv, Bracketed, Answered, AnswerIsRight
<1>5. CallInv
  BY <1>1, <1>2, <1>3 DEF MappedInit, CallInv
<1> QED
  BY <1>1, <1>4, <1>5 DEF MappedInv

(* A step of the search finds the first mapping that has the address and   *)
(* keeps to it.                                                            *)
LEMMA OwnStep ==
  ASSUME SearchInv, CallInv, Next
  PROVE  /\ pc' \in {"back", "map"} => mi' = 0
         /\ mi' # 0 => /\ InRange(addr', maps'[mi'])
                       /\ \A j \in 1..(mi' - 1) : ~InRange(addr', maps'[j])
<1>1. CASE StepBack
  BY <1>1 DEF StepBack, CallInv
<1>2. CASE FindMap
  BY <1>2 DEF FindMap
<1>3. CASE NoMap
  BY <1>3 DEF NoMap, CallInv
<1>4. CASE GiveUp \/ GoLeft \/ Found \/ GoRight
  <2>1. UNCHANGED << maps, addr, mi >> /\ pc = "search" /\ pc' \in {"search", "done"}
    BY <1>4 DEF GiveUp, GoLeft, Found, GoRight
  <2> QED
    BY <2>1 DEF CallInv
<1> QED
  BY <1>1, <1>2, <1>3, <1>4 DEF Next

(* Every step keeps the invariant. *)
LEMMA MappedInvStep == MappedInv /\ [MappedNext]_allVars => MappedInv'
<1> SUFFICES ASSUME MappedInv, [MappedNext]_allVars PROVE MappedInv'
  OBVIOUS
<1>1. CASE BuildList
  <2>1. MapsNext /\ UNCHANGED vars /\ BuildInv'
    BY <1>1, BuildInvStep DEF BuildList, MappedInv
  <2>2. SearchInv'
    BY <2>1, SearchInvStep DEF MappedInv
  <2>3. step # "called" /\ step' # "called" /\ file' = file
    BY <2>1 DEF MapsNext, SkipLine, TakeStack, TakeMapping, EndOfFile, NoTable, SkipHeader,
                TakeTable, ListReady, Reading, Scanning
  <2>4. CallInv'
    BY <2>1, <2>3 DEF MappedInv, CallInv, vars
  <2> QED
    BY <2>1, <2>2, <2>4 DEF MappedInv
<1>2. CASE CallGetEitp
  <2>1. /\ step = "ready" /\ step' = "called" /\ maps' = milist
        /\ UNCHANGED << file, line, milist, stackMap, at, hdr >>
        /\ UNCHANGED << table, addr, mi, left, right, pc, eitp >>
    BY <1>2 DEF CallGetEitp
  <2>2. /\ BuildInv /\ maps = <<>> /\ pc = "back" /\ mi = 0 /\ milist \in Seq(Mapping)
        /\ milist = AsRead(file)
    BY <2>1, ListIsAsRead DEF MappedInv, CallInv, BuildInv, MapsTypeOK
  <2>3. BuildInv'
    BY <2>1, <2>2 DEF BuildInv, MapsTypeOK, PhaseInv, ElementInv, HeaderInv, StackMapInv, Scanning
  <2>4. SearchInv'
    BY <2>1, <2>2 DEF MappedInv, CallInv, SearchInv, TableInv, Bracketed, Answered, AnswerIsRight
  <2>5. CallInv'
    BY <2>1, <2>2 DEF MappedInv, CallInv
  <2> QED
    BY <2>3, <2>4, <2>5 DEF MappedInv
<1>3. CASE SearchList
  <2>1. step = "called" /\ Next /\ UNCHANGED mapVars
    BY <1>3 DEF SearchList
  <2>2. BuildInv'
    BY <2>1 DEF MappedInv, mapVars, BuildInv, MapsTypeOK, PhaseInv, ElementInv, HeaderInv,
                StackMapInv, Scanning, Reads, ImageAt
  <2>3. SearchInv'
    BY <2>1, SearchInvStep DEF MappedInv
  <2>4. maps' = maps /\ table' = table
    BY <2>1 DEF Next, StepBack, FindMap, NoMap, GiveUp, GoLeft, Found, GoRight
  <2>5. CallInv'
    BY <2>1, <2>4, OwnStep DEF MappedInv, CallInv, mapVars
  <2> QED
    BY <2>2, <2>3, <2>5 DEF MappedInv
<1>4. CASE UNCHANGED allVars
  BY <1>4 DEF allVars, mapVars, vars, MappedInv, BuildInv, MapsTypeOK, PhaseInv, ElementInv,
              HeaderInv, StackMapInv, Scanning, Reads, ImageAt, SearchInv, TableInv,
              Bracketed, Answered, AnswerIsRight, Entries, Fn, CallInv
<1> QED
  BY <1>1, <1>2, <1>3, <1>4 DEF MappedNext

(* The invariant, always. *)
LEMMA MappedInvAlways == MappedSpec => []MappedInv
BY MappedInvInit, MappedInvStep, PTL DEF MappedSpec

(* Where the reads find the table of a file, what they make of its line is *)
(* what the file declares.                                                 *)
LEMMA ReadIsDeclared ==
  ASSUME NEW l \in MapsLine, TableIsRead(l)
  PROVE  ReadMapping(l) = DeclaredMapping(l)
<1> DEFINE h == l.image.headers
           r == l.image.reads
<1>1. h \in Seq(ProgramHeader) /\ r \in Seq(ProgramHeader) /\ (h # <<>> => r[1] = h[1])
      /\ Len(r) = Len(h)
  BY LineFacts DEF Image
<1>2. CASE ~l.image.elf
  BY <1>2 DEF ReadMapping, DeclaredMapping, WithTable
<1>3. CASE FirstTable(h) = 0 /\ FirstTable(r) = 0
  BY <1>3 DEF ReadMapping, DeclaredMapping, WithTable
<1>4. CASE l.image.elf /\ h # <<>> /\ h[1].exidx
  <2>1. 1 \in DOMAIN h /\ 1 \in DOMAIN r /\ r[1].exidx
    BY <1>1, <1>4
  <2>2. FirstTable(h) = 1 /\ FirstTable(r) = 1
    <3>1. \A k \in 1..(1 - 1) : ~h[k].exidx /\ ~r[k].exidx
      OBVIOUS
    <3> QED
      BY <1>1, <1>4, <2>1, <3>1, FirstTableIs
  <2>3. WithTable(l, h) = WithTable(l, r)
    BY <1>1, <1>4, <2>2 DEF WithTable
  <2> QED
    BY <2>3 DEF ReadMapping, DeclaredMapping
<1> QED
  BY <1>2, <1>3, <1>4 DEF TableIsRead

(* The lines of the list are lines of the file. *)
LEMMA LinesOfList ==
  ASSUME BuildInv, step \in {"ready", "called"}, NEW n \in DOMAIN milist
  PROVE  /\ LineAt(file, n) \in MapsLine /\ milist[n] = ReadMapping(LineAt(file, n))
         /\ \E j \in WantedLines(file) : LineAt(file, n) = file[j]
<1>1. /\ file \in Files /\ Len(file) \in Nat /\ DOMAIN file = 1..Len(file)
      /\ line = Len(file) + 1 /\ at = Len(milist) + 1 /\ Len(milist) \in Nat
      /\ DOMAIN milist = 1..Len(milist)
  BY FileFacts DEF BuildInv, MapsTypeOK, PhaseInv
<1>2. LinesBefore(file, line) = WantedLines(file)
  BY <1>1 DEF LinesBefore, WantedLines
<1>3. PICK j \in WantedLines(file) :
        Place(file, line, j) = n /\ milist[n] = ReadMapping(file[j])
  <2>1. n < at
    BY <1>1
  <2> QED
    BY <1>2, <2>1 DEF BuildInv, ElementInv
<1>4. \A k \in WantedLines(file) : FromLast(file, k) = Place(file, line, k)
  BY <1>2 DEF FromLast, Place
<1>5. \A k \in WantedLines(file) : FromLast(file, k) = n => k = j
  BY <1>1, <1>2, <1>3, <1>4, PlaceIsOwn
<1>6. LineAt(file, n) = file[j]
  BY <1>3, <1>4, <1>5 DEF LineAt
<1>7. file[j] \in MapsLine
  BY <1>1, FileFacts DEF WantedLines
<1> QED
  BY <1>3, <1>6, <1>7

(* If the reads find the tables of all files, the list is what the files   *)
(* declare.                                                                *)
LEMMA ListIsDeclared ==
  ASSUME BuildInv, step \in {"ready", "called"}, TablesAreRead(file)
  PROVE  milist = Declared(file)
<1>1. milist = AsRead(file)
  BY ListIsAsRead
<1>2. DOMAIN milist = 1..Cardinality(WantedLines(file))
  BY <1>1 DEF AsRead
<1>3. \A n \in DOMAIN milist : milist[n] = DeclaredMapping(LineAt(file, n))
  BY LinesOfList, ReadIsDeclared DEF TablesAreRead
<1>4. milist = [n \in 1..Cardinality(WantedLines(file)) |-> milist[n]]
  BY <1>1 DEF AsRead
<1>5. Declared(file) =
        [n \in 1..Cardinality(WantedLines(file)) |-> DeclaredMapping(LineAt(file, n))]
  BY DEF Declared
<1> QED
  BY <1>2, <1>3, <1>4, <1>5

(* Whatever the lines and headers are, the list that get_eitp is called    *)
(* with has the process's executable mappings, the upper one first, each   *)
(* with the table its own file declares if the reads find that, and the    *)
(* stack is the process's.                                                 *)
THEOREM ListsAreOfProcess == MappedSpec => []ListIsOfProcess
<1>1. ASSUME MappedInv PROVE ListIsOfProcess
  <2> SUFFICES ASSUME step \in {"ready", "called"}
               PROVE  /\ Len(milist) = Cardinality(WantedLines(file))
                      /\ \A n \in DOMAIN milist :
                           /\ milist[n].start = LineAt(file, n).start
                           /\ milist[n].end = LineAt(file, n).end
                           /\ TableIsRead(LineAt(file, n)) =>
                                milist[n] = DeclaredMapping(LineAt(file, n))
                      /\ \A l \in ToSet(file) :
                           l.name = StackName => stackMap = [start |-> l.start, end |-> l.end]
    BY DEF ListIsOfProcess
  <2>1. /\ Len(file) \in Nat /\ DOMAIN file = 1..Len(file) /\ line = Len(file) + 1
        /\ ToSet(file) = {file[j] : j \in DOMAIN file}
    BY <1>1, FileFacts DEF MappedInv, BuildInv, MapsTypeOK, PhaseInv, ToSet
  <2>2. Len(milist) = Cardinality(WantedLines(file))
    <3>1. LinesBefore(file, line) = WantedLines(file)
      BY <2>1 DEF LinesBefore, WantedLines
    <3> QED
      BY <1>1, <3>1 DEF MappedInv, BuildInv, ElementInv
  <2>3. ASSUME NEW n \in DOMAIN milist
        PROVE  /\ milist[n].start = LineAt(file, n).start
               /\ milist[n].end = LineAt(file, n).end
               /\ TableIsRead(LineAt(file, n)) => milist[n] = DeclaredMapping(LineAt(file, n))
    BY <1>1, LinesOfList, ReadFacts, ReadIsDeclared DEF MappedInv
  <2>4. \A j \in DOMAIN file : j < line
    BY <2>1
  <2>5. \A l \in ToSet(file) :
          l.name = StackName => stackMap = [start |-> l.start, end |-> l.end]
    BY <1>1, <2>1, <2>4 DEF MappedInv, BuildInv, StackMapInv
  <2> QED
    BY <2>2, <2>3, <2>5
<1> QED
  BY <1>1, MappedInvAlways, PTL

(* get_eitp, which takes the end of a mapping for a part of it, searches   *)
(* the mapping that pc_to_mapinfo finds for the address.                   *)
THEOREM OwnMappingSearched == MappedSpec => []SearchesOwnMapping
<1>1. ASSUME MappedInv PROVE SearchesOwnMapping
  <2> SUFFICES ASSUME mi # 0
               PROVE  /\ PcToMapinfo(maps, addr) \in {0, mi}
                      /\ PcToMapinfo(maps, addr) = 0 => addr = maps[mi].end
    BY DEF SearchesOwnMapping
  <2>1. /\ step = "called" /\ maps = milist /\ maps \in Seq(Mapping) /\ mi \in DOMAIN maps
        /\ DOMAIN maps = 1..Len(maps) /\ Len(maps) \in Nat /\ mi \in Nat /\ addr \in Nat
    BY <1>1, WordAssumption DEF MappedInv, CallInv, SearchInv, TableInv, Word
  <2>2. /\ InRange(addr, maps[mi])
        /\ \A j \in 1..(mi - 1) : ~InRange(addr, maps[j])
    BY <1>1 DEF MappedInv, CallInv
  <2>3. /\ \A n \in DOMAIN maps : maps[n].start \in Nat /\ maps[n].end \in Nat
        /\ \A m, n \in DOMAIN maps : m < n => maps[n].end <= maps[m].start
    BY <1>1, <2>1, ListDescends DEF MappedInv
  <2> DEFINE I == {k \in 1..Len(maps) : maps[k].start <= addr /\ addr < maps[k].end}
  <2>4. PcToMapinfo(maps, addr) = IF I # {} THEN Min(I) ELSE 0
    BY DEF PcToMapinfo, SelectInSeq
  <2>5. ASSUME NEW k \in I PROVE k = mi
    <3>1. k \in DOMAIN maps /\ k \in Nat /\ maps[k].start <= addr /\ addr < maps[k].end
      BY <2>1
    <3>2. ~(k < mi)
      <4>1. InRange(addr, maps[k])
        BY <2>1, <2>3, <3>1 DEF InRange
      <4> QED
        BY <2>1, <2>2, <3>1, <4>1
    <3>3. ~(mi < k)
      BY <2>1, <2>2, <2>3, <3>1 DEF InRange
    <3> QED
      BY <2>1, <3>1, <3>2, <3>3
  <2>6. mi \notin I => addr = maps[mi].end
    BY <2>1, <2>2, <2>3 DEF InRange
  <2>7. I \in SUBSET Nat
    BY <2>1
  <2> HIDE DEF I
  <2>8. I # {} => Min(I) = mi
    BY <2>5, <2>7, LeastOf
  <2>9. mi # 0
    OBVIOUS
  <2> QED
    BY <2>4, <2>6, <2>8, <2>9
<1> QED
  BY <1>1, MappedInvAlways, PTL

(* The building of the list does not show in the search, if the reads find *)
(* the tables: it is one in the process's own mappings and tables.         *)
THEOREM SearchImplemented == MappedSpec => ImplementsSearch
<1> DEFINE SearchStep == TablesAreRead(file) => Search!Next
<1>1. ASSUME MappedInit, TablesAreRead(file) PROVE Search!Init
  <2> DEFINE ms == Declared(file)
  <2>1. file \in Files
    BY <1>1 DEF MappedInit, MapsInit
  <2>2. AsRead(file) = ms
    <3>1. \A n \in 1..Cardinality(WantedLines(file)) :
            ReadMapping(LineAt(file, n)) = DeclaredMapping(LineAt(file, n))
      <4> SUFFICES ASSUME NEW n \in 1..Cardinality(WantedLines(file))
                   PROVE  ReadMapping(LineAt(file, n)) = DeclaredMapping(LineAt(file, n))
        OBVIOUS
      <4>1. PICK j \in WantedLines(file) : FromLast(file, j) = n
        BY <2>1, LineOfPlace
      <4>2. \E k \in WantedLines(file) : LineAt(file, n) = file[k]
        BY <4>1 DEF LineAt
      <4> QED
        BY <1>1, <2>1, <4>2, FileFacts, ReadIsDeclared DEF TablesAreRead, WantedLines
    <3> QED
      BY <3>1 DEF AsRead, Declared
  <2>3. /\ table \in [DOMAIN ms -> Tables(ms)]
        /\ \A k \in DOMAIN table : DOMAIN table[k] = 0..(ms[k].nrec - 1)
        /\ addr \in Word /\ mi = 0 /\ left = 0 /\ right = 0 /\ pc = "back" /\ eitp = None
    BY <1>1, <2>2 DEF MappedInit
  <2>4. Search!Tables(ms) = Tables(ms) /\ Search!None = None /\ Search!Word = Word
    BY DEF Search!Tables, Tables, Search!None, None, Search!Word, Word
  <2>5. DOMAIN table = DOMAIN ms /\ ms \in {Declared(f) : f \in Files}
    BY <2>1, <2>3
  <2> QED
    BY <2>3, <2>4, <2>5 DEF Search!Init
<1>2. ASSUME MappedInv, [MappedNext]_allVars PROVE [SearchStep]_(Search!vars)
  <2>1. CASE BuildList
    <3>1. UNCHANGED vars /\ file' = file
      BY <2>1 DEF BuildList, MapsNext, SkipLine, TakeStack, TakeMapping, EndOfFile, NoTable,
                  SkipHeader, TakeTable, ListReady
    <3> QED
      BY <3>1 DEF Search!vars, vars
  <2>2. CASE CallGetEitp
    BY <2>2 DEF CallGetEitp, Search!vars
  <2>3. CASE SearchList
    <3> SUFFICES ASSUME TablesAreRead(file) PROVE Search!Next
      OBVIOUS
    <3>1. Next /\ file' = file /\ maps = Declared(file)
      BY <1>2, <2>3, ListIsDeclared DEF SearchList, mapVars, MappedInv, CallInv
    <3>2. Declared(file)' = Declared(file)
      BY <3>1
    <3> QED
      BY <3>1, <3>2 DEF Next, StepBack, FindMap, NoMap, GiveUp, GoLeft, Found, GoRight, Search!Next,
         Search!StepBack, Search!FindMap, Search!NoMap, Search!GiveUp, Search!GoLeft,
         Search!Found, Search!GoRight, Middle, Search!Middle, Fn, Search!Fn, LastOf,
         Search!LastOf, InRange, Search!InRange, SelfRel, Search!SelfRel
  <2>4. CASE UNCHANGED allVars
    BY <2>4 DEF allVars, mapVars, vars, Search!vars
  <2> QED
    BY <1>2, <2>1, <2>2, <2>3, <2>4 DEF MappedNext
<1>3. MappedInit => (TablesAreRead(file) => Search!Init)
  BY <1>1
<1> QED
  BY <1>2, <1>3, MappedInvAlways, PTL DEF MappedSpec, ImplementsSearch

(* The search in the list that was built keeps to its table, answers       *)
(* rightly, finds the function and narrows, as it does in any list.        *)
THEOREM MappedSearchIsSafe ==
  MappedSpec => []ReadsInTable /\ []AnswerIsRight /\ []FindsTheFunction /\ Narrows
<1>1. MappedInv => ReadsInTable /\ AnswerIsRight /\ FindsTheFunction
  BY BoundsInTable, AnswerRight, FunctionFound DEF MappedInv
<1>2. MappedInv /\ [MappedNext]_allVars => [Narrowing]_vars
  <2>1. CallGetEitp /\ MappedInv => pc # "search"
    BY DEF CallGetEitp, MappedInv, CallInv
  <2>2. [MappedNext]_allVars => [Next]_vars \/ CallGetEitp
    BY DEF MappedNext, BuildList, SearchList, allVars
  <2> QED
    BY <2>1, <2>2, RoundNarrows DEF MappedInv, Narrowing
<1> QED
  BY <1>1, <1>2, MappedInvAlways, PTL DEF MappedSpec, Narrows
=============================================================================
