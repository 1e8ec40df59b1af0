-------------------------- MODULE UnwindFrameProofs --------------------------
(***************************************************************************)
(* Proofs about UnwindFrame for every address space, every entry, whatever *)
(* its instructions are, and every content of registers and stack: that it *)
(* reads only the words the header declares (FrameInv), and that it undoes *)
(* the prologue that the entry describes (CallerInv).                      *)
(***************************************************************************)
EXTENDS UnwindFrame, FiniteSetTheorems, TLAPS

(* Where the interpreter is among the words of its instructions. *)
WordsInv ==
  /\ pc = "entry" => next = 0
  /\ pc \in {"op", "mask", "low", "uleb"} => next > 0
  /\ ReadsDeclaredWords

FrameInv == TypeOK /\ WordsInv

----------------------------------------------------------------------------
(* A function on 1..n is a sequence of length n. *)
LEMMA SegmentIsSequence ==
  ASSUME NEW n \in Nat, NEW S, NEW w \in [1..n -> S]
  PROVE  w \in Seq(S) /\ Len(w) = n
OBVIOUS

(* The counters are natural numbers, and bytes are left of one word. *)
LEMMA CursorFacts ==
  ASSUME TypeOK
  PROVE  /\ machine \in Machine
         /\ wordsLeft \in Nat /\ next \in Nat
         /\ bytes \in Seq(Byte) /\ Len(bytes) <= 3
BY DEF TypeOK

(* A word of the table is four bytes, and what it declares is a number. *)
LEMMA WordFacts ==
  ASSUME machine \in Machine
  PROVE  /\ \A k \in Int : WordAt(k) \in [1..4 -> Byte]
         /\ Header \in [1..4 -> Byte]
         /\ Declared \in Nat
<1>1. Words \in Seq([1..4 -> Byte])
  BY DEF Words, Machine, Entry
<1>2. ASSUME NEW k \in Int PROVE WordAt(k) \in [1..4 -> Byte]
  <2>1. Unreadable \in [1..4 -> Byte]
    BY DEF Unreadable, Byte
  <2> QED
    BY <1>1, <2>1 DEF WordAt
<1>3. Header \in [1..4 -> Byte]
  BY <1>2 DEF Header
<1>4. Declared \in Nat
  BY <1>3 DEF Declared, Byte
<1> QED
  BY <1>2, <1>3, <1>4

(* The tail of a word, from its second or third byte on. *)
LEMMA RestOfWord ==
  ASSUME NEW w \in [1..4 -> Byte], NEW k \in {2, 3}
  PROVE  SubSeq(w, k, 4) \in Seq(Byte) /\ Len(SubSeq(w, k, 4)) <= 3
<1>1. w \in Seq(Byte) /\ Len(w) = 4
  BY SegmentIsSequence
<1> QED
  BY <1>1

(* The next byte is one, and taking it keeps count of the words. *)
LEMMA TakeByteFacts ==
  ASSUME TypeOK, WordsInv, pc # "entry", TakeByte
  PROVE  /\ bytes' \in Seq(Byte) /\ Len(bytes') <= 3
         /\ wordsLeft' \in Nat /\ next' \in Nat
         /\ next > 0 => next' > 0
         /\ next' + wordsLeft' = next + wordsLeft
<1>1. CASE bytes = <<>> /\ wordsLeft > 0
  <2>1. WordAt(next) \in [1..4 -> Byte]
    BY WordFacts, CursorFacts
  <2>2. bytes' \in Seq(Byte) /\ Len(bytes') <= 3
    BY <1>1, <2>1, RestOfWord DEF TakeByte
  <2> QED
    BY <1>1, <2>2, CursorFacts DEF TakeByte
<1>2. CASE ~(bytes = <<>> /\ wordsLeft > 0)
  <2>1. bytes' = IF bytes = <<>> THEN bytes ELSE Tail(bytes)
    BY <1>2 DEF TakeByte
  <2>2. bytes' \in Seq(Byte) /\ Len(bytes') <= 3
    BY <2>1, CursorFacts
  <2> QED
    BY <1>2, <2>2, CursorFacts DEF TakeByte
<1> QED
  BY <1>1, <1>2

(* The next instruction is a byte. *)
LEMMA NextByteIsByte ==
  ASSUME TypeOK
  PROVE  NextByte \in Byte
<1>1. WordAt(next) \in [1..4 -> Byte]
  BY WordFacts, CursorFacts
<1>2. CASE bytes # <<>>
  <2>1. bytes \in Seq(Byte)
    BY DEF TypeOK
  <2>2. Head(bytes) \in Byte
    BY <1>2, <2>1
  <2> QED
    BY <1>2, <2>2 DEF NextByte
<1> QED
  BY <1>1, <1>2 DEF NextByte, CodeFinish, Byte

(* What an opcode finds: the cursor moves within the same words. *)
LEMMA OpcodeFacts ==
  ASSUME FrameInv, pc \in {"op", "mask", "low", "uleb"}, TakeByte, UNCHANGED machine,
         pc' # "entry"
  PROVE  /\ bytes' \in Seq(Byte) /\ Len(bytes') <= 3
         /\ {wordsLeft', next'} \subseteq Nat
         /\ WordsInv'
<1>1. /\ bytes' \in Seq(Byte) /\ Len(bytes') <= 3
      /\ wordsLeft' \in Nat /\ next' \in Nat
      /\ next > 0 => next' > 0
      /\ next' + wordsLeft' = next + wordsLeft
  BY TakeByteFacts DEF FrameInv
<1>2. Declared' = Declared
  BY DEF Declared, Header, Routine, WordAt, Words
<1>3. next > 0 /\ next + wordsLeft = Declared + 2
  BY DEF FrameInv, WordsInv, ReadsDeclaredWords
<1>4. WordsInv'
  BY <1>1, <1>2, <1>3 DEF WordsInv, ReadsDeclaredWords
<1> QED
  BY <1>1, <1>4

----------------------------------------------------------------------------
(* Addresses wrap. *)
LEMMA Wraps ==
  ASSUME NEW n \in Int
  PROVE  n % Modulus \in Value
BY UnwindAssumption DEF Value

(* Registers hold words. *)
LEMMA RegisterFacts ==
  ASSUME TypeOK
  PROVE  /\ machine \in Machine /\ machine.stack \in [Value -> Value]
         /\ r \in [Regs -> Value] /\ SP \in Regs /\ \A j \in Regs : r[j] \in Int
<1>1. machine \in Machine /\ r \in [Regs -> Value]
  BY DEF TypeOK
<1>2. machine.stack \in [Value -> Value]
  BY <1>1, ZenonT(20) DEF Machine
<1>3. SP \in Regs /\ \A j \in Regs : r[j] \in Int
  BY <1>1 DEF Regs, SP, Value
<1> QED
  BY <1>1, <1>2, <1>3

(* Popping registers leaves addresses in the registers. *)
LEMMA PoppedType ==
  ASSUME TypeOK, NEW mask \in SUBSET (0..19)
  PROVE  Popped(mask) \in [Regs -> Value]
<1>1. \A s \in SUBSET (0..19) : Cardinality(s) \in Nat
  <2>1. \A n \in Nat : IsFiniteSet(0..n)
    BY FS_Interval
  <2> QED
    BY <2>1, FS_Subset, FS_CardinalityType
<1>2. \A s \in SUBSET (0..19) : (r[SP] + Cardinality(s)) % Modulus \in Value
  BY <1>1, RegisterFacts, Wraps
<1> DEFINE at(j) == (r[SP] + Cardinality({k \in mask : k < j})) % Modulus
<1>3. \A j \in Regs : at(j) \in Value
  <2> SUFFICES ASSUME NEW j \in Regs PROVE at(j) \in Value
    OBVIOUS
  <2>1. {k \in mask : k < j} \in SUBSET (0..19)
    OBVIOUS
  <2> QED
    BY <1>2, <2>1
<1>4. Popped(mask) = [j \in Regs |->
         IF j \in mask THEN machine.stack[at(j)]
         ELSE IF j = SP THEN (r[SP] + Cardinality(mask)) % Modulus
         ELSE r[j]]
  BY DEF Popped
<1> HIDE DEF at
<1> QED
  BY <1>2, <1>3, <1>4, RegisterFacts

(* A mask names registers 0 to 15. *)
LEMMA BitsBelow == ASSUME NEW b PROVE Bits(b) \in SUBSET (0..15)
BY DEF Bits

----------------------------------------------------------------------------
(* The invariant holds at the start. *)
LEMMA FrameInvInit == Init => FrameInv
<1> SUFFICES ASSUME Init PROVE FrameInv
  OBVIOUS
<1>1. machine \in Machine /\ r \in [Regs -> Value]
  BY UnwindAssumption DEF Init, Machine
<1>2. 0 \in Value /\ 0 \in Byte
  BY UnwindAssumption DEF Value, Byte
<1>3. bytes \in Seq(Byte) /\ Len(bytes) = 0 /\ wordsLeft = 0 /\ next = 0
  BY DEF Init
<1>4. setPc = FALSE /\ op = 0 /\ weight = 0 /\ pc = "entry" /\ result = "none"
  BY DEF Init
<1>5. Len(bytes) <= 3 /\ {wordsLeft, next} \subseteq Nat
  BY <1>3
<1>6. setPc \in BOOLEAN /\ op \in Byte /\ weight \in Value
  BY <1>2, <1>4
<1>7. TypeOK
  BY <1>1, <1>3, <1>4, <1>5, <1>6 DEF TypeOK
<1> QED
  BY <1>3, <1>4, <1>7 DEF FrameInv, WordsInv, ReadsDeclaredWords

(* What every step but StartRoutine does to the variables the lemmas       *)
(* above are not about.                                                    *)
LEMMA KeepsType ==
  ASSUME TypeOK, UNCHANGED machine, r' \in [Regs -> Value],
         bytes' \in Seq(Byte), Len(bytes') <= 3, {wordsLeft', next'} \subseteq Nat,
         setPc' \in BOOLEAN, op' \in Byte, weight' \in Value,
         pc' \in {"entry", "op", "mask", "low", "uleb", "done"},
         result' \in {"none", "continue", "failure", "end of stack"}
  PROVE  TypeOK'
BY DEF TypeOK

(* A step that executes a part of the instructions. *)
LEMMA OpcodeKeeps ==
  ASSUME FrameInv, pc \in {"op", "mask", "low", "uleb"}, TakeByte, UNCHANGED machine,
         r' \in [Regs -> Value], setPc' \in BOOLEAN, op' \in Byte, weight' \in Value,
         pc' \in {"op", "mask", "low", "uleb", "done"},
         result' \in {"none", "continue", "failure", "end of stack"}
  PROVE  FrameInv'
<1>1. /\ bytes' \in Seq(Byte) /\ Len(bytes') <= 3
      /\ {wordsLeft', next'} \subseteq Nat
      /\ WordsInv'
  BY OpcodeFacts
<1>2. TypeOK
  BY DEF FrameInv
<1>3. TypeOK'
  BY <1>1, <1>2, KeepsType
<1> QED
  BY <1>1, <1>3 DEF FrameInv

(* Every step keeps the invariant. *)
LEMMA FrameInvStep == FrameInv /\ [Next]_vars => FrameInv'
<1> SUFFICES ASSUME FrameInv, [Next]_vars PROVE FrameInv'
  OBVIOUS
<1> DEFINE running == {"op", "mask", "low", "uleb"}
<1>1. TypeOK /\ r \in [Regs -> Value] /\ setPc \in BOOLEAN /\ op \in Byte
      /\ weight \in Value /\ NextByte \in Byte
  BY NextByteIsByte DEF FrameInv, TypeOK
<1>2. result \in {"none", "continue", "failure", "end of stack"}
  BY DEF FrameInv, TypeOK
<1>3. CASE NoEntry \/ CantUnwind \/ ForeignRoutine
  <2>1. UNCHANGED << machine, r, bytes, wordsLeft, next, setPc, op, weight >>
        /\ pc = "entry" /\ pc' = "done"
        /\ result' \in {"failure", "end of stack"}
    BY <1>3 DEF NoEntry, CantUnwind, ForeignRoutine, Ends, memory, uws
  <2>2. TypeOK'
    BY <1>1, <2>1 DEF TypeOK
  <2>3. next' = 0 /\ pc' = "done"
    BY <2>1 DEF FrameInv, WordsInv
  <2>4. WordsInv'
    BY <2>3 DEF WordsInv, ReadsDeclaredWords
  <2> QED
    BY <2>2, <2>4 DEF FrameInv
<1>4. CASE StartRoutine
  <2>1. machine \in Machine /\ machine' = machine
    BY <1>1, <1>4, CursorFacts DEF StartRoutine, memory
  <2>2. Header \in [1..4 -> Byte] /\ Declared \in Nat
    BY <2>1, WordFacts
  <2>3. r' \in [Regs -> Value]
    BY <1>1, <1>4, UnwindAssumption DEF StartRoutine
  <2>4. bytes' \in Seq(Byte) /\ Len(bytes') <= 3
    BY <1>4, <2>2, RestOfWord DEF StartRoutine
  <2>5. wordsLeft' = Declared /\ next' = 2 /\ pc' \in {"op", "done"}
    BY <1>4 DEF StartRoutine, Ends
  <2>6. UNCHANGED << setPc, op, weight >> /\ result' \in {result, "failure"}
    BY <1>4 DEF StartRoutine, Ends
  <2>7. TypeOK'
    <3>1. {wordsLeft', next'} \subseteq Nat
      BY <2>2, <2>5
    <3> QED
      BY <1>1, <1>2, <2>1, <2>3, <2>4, <2>5, <2>6, <3>1, KeepsType
  <2>8. Declared' = Declared
    BY <2>1 DEF Declared, Header, Routine, WordAt, Words
  <2>9. WordsInv'
    BY <2>2, <2>5, <2>8 DEF WordsInv, ReadsDeclaredWords
  <2> QED
    BY <2>7, <2>9 DEF FrameInv
<1>5. CASE Finish
  <2>1. r' \in [Regs -> Value]
    BY <1>1, <1>5, RegisterFacts DEF Finish, Regs, LR, PC
  <2> QED
    BY <1>1, <1>5, <2>1, OpcodeKeeps DEF Finish, Opcode, Ends, memory
<1>6. CASE MoveSP
  <2>1. r' \in [Regs -> Value]
    <3>1. NextByte % 64 \in Int /\ r[SP] \in Int
      BY <1>1, RegisterFacts DEF Byte
    <3>2. /\ (r[SP] + ((NextByte % 64) + 1)) % Modulus \in Value
          /\ (r[SP] - ((NextByte % 64) + 1)) % Modulus \in Value
      BY <3>1, Wraps
    <3>3. r' = [r EXCEPT ![SP] = (IF NextByte < 64 THEN r[SP] + ((NextByte % 64) + 1)
                                  ELSE r[SP] - ((NextByte % 64) + 1)) % Modulus]
      BY <1>6 DEF MoveSP
    <3> QED
      BY <1>1, <3>2, <3>3
  <2> QED
    BY <1>1, <1>2, <1>6, <2>1, OpcodeKeeps DEF MoveSP, Opcode, memory
<1>7. CASE LoadSP
  <2>1. NextByte \in 144..159
    BY <1>7 DEF LoadSP, Opcode
  <2>2. r' \in [Regs -> Value]
    <3>1. NextByte - 144 \in Regs
      BY <2>1 DEF Regs
    <3>2. r[NextByte - 144] \in Value
      BY <1>1, <3>1
    <3> QED
      BY <1>1, <1>7, <3>2 DEF LoadSP
  <2> QED
    BY <1>1, <1>2, <1>7, <2>2, OpcodeKeeps DEF LoadSP, Opcode, Ends, memory
<1>8. CASE PopRange
  <2>1. NextByte % 8 \in 0..7
    BY <1>1 DEF Byte
  <2>2. (4..(4 + (NextByte % 8)) \cup (IF NextByte >= 168 THEN {LR} ELSE {})) \in SUBSET (0..19)
    BY <2>1 DEF LR
  <2>3. r' \in [Regs -> Value]
    <3>1. r' = Popped(4..(4 + (NextByte % 8)) \cup (IF NextByte >= 168 THEN {LR} ELSE {}))
      BY <1>8 DEF PopRange
    <3> QED
      BY <1>1, <2>2, <3>1, PoppedType
  <2> QED
    BY <1>1, <1>2, <1>8, <2>3, OpcodeKeeps DEF PopRange, Opcode, memory
<1>9. CASE TakeOpcode
  <2>1. weight' \in Value
    BY <1>9, UnwindAssumption DEF TakeOpcode, Value
  <2> QED
    BY <1>1, <1>2, <1>9, <2>1, OpcodeKeeps DEF TakeOpcode, Opcode, memory
<1>10. CASE Unhandled
  BY <1>1, <1>10, OpcodeKeeps DEF Unhandled, Opcode, Ends, memory
<1>11. CASE PopMask
  <2> DEFINE mask == {j + 4 : j \in Bits((op % 16) * 256 + NextByte)}
  <2>1. mask \in SUBSET (0..19)
    BY BitsBelow
  <2>2. Popped(mask) \in [Regs -> Value]
    BY <1>1, <2>1, PoppedType
  <2>3. r' \in [Regs -> Value] /\ setPc' \in BOOLEAN
    BY ZenonT(30), <1>1, <1>11, <2>2 DEF PopMask
  <2>4. /\ pc \in running /\ TakeByte /\ UNCHANGED << machine, op, weight >>
        /\ pc' \in {"op", "done"} /\ result' \in {result, "failure"}
    BY <1>11 DEF PopMask, Ends, memory
  <2> QED
    BY <1>1, <1>2, <2>3, <2>4, OpcodeKeeps
<1>12. CASE PopLow
  <2>1. Popped(Bits(NextByte)) \in [Regs -> Value]
    <3>1. Bits(NextByte) \in SUBSET (0..19)
      BY BitsBelow
    <3> QED
      BY <1>1, <3>1, PoppedType
  <2>2. r' \in [Regs -> Value]
    BY <1>1, <1>12, <2>1 DEF PopLow
  <2>3. /\ pc \in running /\ TakeByte /\ UNCHANGED << machine, setPc, op, weight >>
        /\ pc' \in {"op", "done"} /\ result' \in {result, "failure"}
    BY <1>12 DEF PopLow, Ends, memory
  <2> QED
    BY <1>1, <1>2, <2>2, <2>3, OpcodeKeeps
<1>13. CASE AddUleb
  <2>1. weight \in Int /\ NextByte % 128 \in Int /\ r[SP] \in Int
    BY <1>1, RegisterFacts DEF Value, Byte
  <2>2. weight' \in Value
    BY <1>13, <2>1, Wraps DEF AddUleb
  <2>3. r' \in [Regs -> Value]
    <3> DEFINE sum == r[SP] + (NextByte % 128) * weight + (IF NextByte < 128 THEN 129 ELSE 0)
    <3>1. (NextByte % 128) * weight \in Int
      BY <2>1
    <3>2. sum \in Int
      BY <2>1, <3>1
    <3>3. sum % Modulus \in Value
      BY <3>2, Wraps
    <3>4. r' = [r EXCEPT ![SP] = sum % Modulus]
      BY <1>13 DEF AddUleb
    <3> HIDE DEF sum
    <3> QED
      BY <1>1, <3>3, <3>4
  <2> QED
    BY <1>1, <1>2, <1>13, <2>2, <2>3, OpcodeKeeps DEF AddUleb, memory
<1>14. CASE UNCHANGED vars
  <2>1. TypeOK' /\ WordsInv'
    BY <1>14 DEF FrameInv, TypeOK, WordsInv, ReadsDeclaredWords, vars, Declared, Header,
                 Routine, WordAt, Words
  <2> QED
    BY <2>1 DEF FrameInv
<1> QED
  BY <1>3, <1>4, <1>5, <1>6, <1>7, <1>8, <1>9, <1>10, <1>11, <1>12, <1>13, <1>14 DEF Next

(* The invariant, always. *)
LEMMA FrameInvAlways == Spec => []FrameInv
BY FrameInvInit, FrameInvStep, PTL DEF Spec

(* Whatever an entry's instructions are, the registers stay addresses and  *)
(* no more than three bytes are left of a word.                            *)
THEOREM FrameTypes == Spec => []TypeOK
<1>1. FrameInv => TypeOK
  BY DEF FrameInv
<1> QED
  BY <1>1, FrameInvAlways, PTL

(* The interpreter takes from memory exactly the words its header counts,  *)
(* whatever the instructions are and wherever their operands are cut off.  *)
THEOREM ReadsOnlyDeclared == Spec => []ReadsDeclaredWords
<1>1. FrameInv => ReadsDeclaredWords
  BY DEF FrameInv, WordsInv
<1> QED
  BY <1>1, FrameInvAlways, PTL

----------------------------------------------------------------------------
(***************************************************************************)
(* The caller's registers.  An entry that describes a prologue is followed *)
(* from the body of the function back to the call, one step of the         *)
(* prologue at a time.                                                     *)
(***************************************************************************)

(* Division with remainder. *)
LEMMA Division ==
  ASSUME NEW M \in Nat \ {0}, NEW a \in Int
  PROVE  a % M \in 0..(M - 1) /\ \E q \in Int : a = (M * q) + (a % M)
<1>1. a \div M \in Int /\ a = (M * (a \div M)) + (a % M)
  OBVIOUS
<1>2. a % M \in 0..(M - 1)
  OBVIOUS
<1> DEFINE d == a \div M
           x == a % M
<1> HIDE DEF d, x
<1>3. d \in Int /\ a = (M * d) + x
  BY <1>1 DEF d, x
<1>4. \E q \in Int : a = (M * q) + x
  BY <1>3
<1> QED
  BY <1>2, <1>4 DEF x

(* The remainder of a number that is written as a multiple and a rest is   *)
(* the rest.                                                               *)
LEMMA Remainder ==
  ASSUME NEW M \in Nat \ {0}, NEW a \in Int, NEW q \in Int, NEW x \in 0..(M - 1),
         a = (M * q) + x
  PROVE  a % M = x
OBVIOUS

(* A multiple of the modulus makes no difference. *)
LEMMA Multiple ==
  ASSUME NEW M \in Nat \ {0}, NEW a \in Int, NEW k \in Int
  PROVE  (a + (M * k)) % M = a % M
<1>1. PICK q \in Int : a = (M * q) + (a % M)
  BY Division
<1> DEFINE x == a % M
           m == M * k
<1>2. x \in 0..(M - 1) /\ m \in Int
  BY Division
<1>3. a + m = (M * (q + k)) + x
  BY <1>1, <1>2
<1> HIDE DEF x, m
<1>4. a + m \in Int /\ q + k \in Int
  BY <1>2
<1>5. (a + m) % M = x
  BY <1>2, <1>3, <1>4, Remainder
<1> QED
  BY <1>5 DEF x, m

(* A summand may be cut to an address before.                              *)
LEMMA CutSummand ==
  ASSUME NEW a \in Int, NEW b \in Int
  PROVE  ((a % Modulus) + b) % Modulus = (a + b) % Modulus
<1> DEFINE M == Modulus
<1>1. M \in Nat \ {0}
  BY UnwindAssumption
<1> HIDE DEF M
<1>2. ((a % M) + b) % M = (a + b) % M
  <2>1. PICK q \in Int : a = (M * q) + (a % M)
    BY <1>1, Division
  <2> DEFINE x == a % M
  <2>2. x \in Int
    BY <1>1
  <2> HIDE DEF x
  <2>3. a = (M * q) + x
    BY <2>1 DEF x
  <2>4. ((x + b) + (M * q)) % M = (x + b) % M
    <3>1. x + b \in Int
      BY <2>2
    <3> QED
      BY <1>1, <3>1, Multiple
  <2> DEFINE m == M * q
  <2>5. m \in Int /\ a = m + x
    BY <1>1, <2>3
  <2> HIDE DEF m
  <2>6. a + b = (x + b) + m
    BY <2>2, <2>5
  <2>7. (a + b) % M = (x + b) % M
    BY <2>4, <2>6 DEF m
  <2> QED
    BY <2>7 DEF x
<1> QED
  BY <1>2 DEF M

(* A factor of a summand may be cut to an address before.                  *)
LEMMA CutFactor ==
  ASSUME NEW a \in Int, NEW b \in Int, NEW c \in Int
  PROVE  (a + (c * (b % Modulus))) % Modulus = (a + (c * b)) % Modulus
<1> DEFINE M == Modulus
<1>1. M \in Nat \ {0}
  BY UnwindAssumption
<1> HIDE DEF M
<1>2. (a + (c * (b % M))) % M = (a + (c * b)) % M
  <2>1. PICK q \in Int : b = (M * q) + (b % M)
    BY <1>1, Division
  <2> DEFINE x == b % M
  <2>2. x \in Int
    BY <1>1
  <2> HIDE DEF x
  <2>3. b = (M * q) + x
    BY <2>1 DEF x
  <2>4. c * b = (c * x) + (M * (c * q))
    BY <1>1, <2>2, <2>3
  <2> DEFINE y == c * x
             k == c * q
             z == c * b
  <2>5. y \in Int /\ k \in Int /\ z \in Int
    BY <2>2
  <2>6. z = y + (M * k)
    BY <2>4
  <2> HIDE DEF y, k, z
  <2>7. a + y \in Int /\ a + z = (a + y) + (M * k)
    BY <1>1, <2>5, <2>6
  <2>8. ((a + y) + (M * k)) % M = (a + y) % M
    <3> QED
      BY <1>1, <2>5, <2>7, Multiple
  <2>9. (a + z) % M = (a + y) % M
    BY <2>7, <2>8
  <2> QED
    BY <2>9 DEF x, y, z
<1> QED
  BY <1>2 DEF M

(* An address is what it is cut to. *)
LEMMA AddressStays ==
  ASSUME NEW a \in Value
  PROVE  a % Modulus = a /\ a \in Int
<1>1. Modulus \in Nat \ {0} /\ a \in 0..(Modulus - 1)
  BY UnwindAssumption DEF Value
<1>2. a \in Int /\ a = (Modulus * 0) + a
  BY <1>1
<1> QED
  BY <1>1, <1>2, Remainder

(* What was reserved on the stack is given back. *)
LEMMA MovesBack ==
  ASSUME NEW a \in Value, NEW n \in Nat
  PROVE  (((a - n) % Modulus) + n) % Modulus = a
<1>1. a % Modulus = a /\ a - n \in Int /\ (a - n) + n = a
  BY AddressStays
<1> QED
  BY <1>1, CutSummand

----------------------------------------------------------------------------
(* The number of the byte that the interpreter reads next. *)
Here == 4 * next - 3 - Len(bytes)

(* What is left of a word is what the entry has from there on. *)
Running == {"op", "mask", "low", "uleb"}
Stream == pc \in Running => \A b \in 1..Len(bytes) : bytes[b] = CodeAt(Here + b - 1)

(* The bytes of a word that the header declares. *)
LEMMA CodeOfWord ==
  ASSUME machine \in Machine, NEW w \in Nat, w > 0, w <= Declared + 1, NEW b \in 1..4
  PROVE  CodeAt(4 * w - 4 + b) = WordAt(w)[b]
<1>1. Declared \in Nat
  BY WordFacts
<1> DEFINE a == 4 * w - 4 + b
<1>2. a \in Int /\ a <= 4 * (Declared + 1) /\ ((a - 1) \div 4) + 1 = w /\ ((a - 1) % 4) + 1 = b
  BY <1>1
<1> HIDE DEF a
<1>3. ~(a > LastByte)
  BY <1>1, <1>2 DEF LastByte
<1>4. CodeAt(a) = WordAt(((a - 1) \div 4) + 1)[((a - 1) % 4) + 1]
  BY <1>3 DEF CodeAt
<1> QED
  BY <1>2, <1>4 DEF a

(* The next byte is the one the entry has there. *)
LEMMA StreamByte ==
  ASSUME FrameInv, Stream, pc \in Running
  PROVE  NextByte = CodeAt(Here)
<1>1. /\ machine \in Machine /\ wordsLeft \in Nat /\ next \in Nat /\ next > 0
      /\ bytes \in Seq(Byte) /\ next + wordsLeft = Declared + 2 /\ Declared \in Nat
  BY WordFacts, CursorFacts DEF FrameInv, WordsInv, ReadsDeclaredWords, Running
<1>2. CASE bytes # <<>>
  <2>1. 1 \in 1..Len(bytes) /\ Head(bytes) = bytes[1] /\ Len(bytes) \in Nat
    BY <1>1, <1>2
  <2>2. Here + 1 - 1 = Here
    BY <1>1, <2>1 DEF Here
  <2>3. bytes[1] = CodeAt(Here)
    BY <2>1, <2>2 DEF Stream, Running
  <2> QED
    BY <1>2, <2>1, <2>3 DEF NextByte
<1>3. CASE bytes = <<>> /\ wordsLeft = 0
  <2>1. Here > LastByte
    BY <1>1, <1>3 DEF Here, LastByte
  <2> QED
    BY <1>3, <2>1 DEF NextByte, CodeAt
<1>4. CASE bytes = <<>> /\ wordsLeft # 0
  <2>1. Here = 4 * next - 4 + 1 /\ next <= Declared + 1
    BY <1>1, <1>4 DEF Here
  <2>2. CodeAt(4 * next - 4 + 1) = WordAt(next)[1]
    BY <1>1, <2>1, CodeOfWord
  <2> QED
    BY <1>4, <2>1, <2>2 DEF NextByte
<1> QED
  BY <1>2, <1>3, <1>4

(* The code stays where it is. *)
LEMMA CodeStays ==
  ASSUME machine' = machine
  PROVE  \A b : CodeAt(Here + b - 1)' = CodeAt(Here' + b - 1)
BY DEF CodeAt, LastByte, Declared, Header, Routine, WordAt, Words

(* Taking a byte leads to the next one. *)
LEMMA StreamTaken ==
  ASSUME FrameInv, Stream, pc \in Running, TakeByte, machine' = machine
  PROVE  /\ Stream'
         /\ Here <= LastByte => Here' = Here + 1
<1>1. /\ machine \in Machine /\ wordsLeft \in Nat /\ next \in Nat /\ next > 0
      /\ bytes \in Seq(Byte) /\ next + wordsLeft = Declared + 2 /\ Declared \in Nat
      /\ Len(bytes) \in Nat
  BY WordFacts, CursorFacts DEF FrameInv, WordsInv, ReadsDeclaredWords, Running
<1>2. \A b : CodeAt(Here + b - 1)' = CodeAt(Here' + b - 1)
  BY CodeStays
<1>3. CASE bytes = <<>> /\ wordsLeft > 0
  <2> DEFINE w == WordAt(next)
  <2>1. w \in Seq(Byte) /\ Len(w) = 4
    <3>1. w \in [1..4 -> Byte]
      BY <1>1, WordFacts
    <3> QED
      BY <3>1, SegmentIsSequence
  <2>2. bytes' = SubSeq(w, 2, 4) /\ next' = next + 1
    BY <1>3 DEF TakeByte
  <2> HIDE DEF w
  <2>3. Len(bytes') = 3 /\ \A b \in 1..3 : bytes'[b] = w[b + 1]
    BY <2>1, <2>2
  <2>4. Here = 4 * next - 3 /\ Here' = Here + 1
    BY <1>1, <1>3, <2>2, <2>3 DEF Here
  <2>5. ASSUME NEW b \in 1..3 PROVE bytes'[b] = CodeAt(Here' + b - 1)
    <3>1. b + 1 \in 1..4 /\ next <= Declared + 1
      BY <1>1, <1>3
    <3>2. CodeAt(4 * next - 4 + (b + 1)) = w[b + 1]
      BY <1>1, <3>1, CodeOfWord DEF w
    <3>3. Here' + b - 1 = 4 * next - 4 + (b + 1)
      BY <1>1, <2>4
    <3> QED
      BY <2>3, <3>2, <3>3
  <2> QED
    BY <1>2, <2>3, <2>4, <2>5 DEF Stream
<1>4. CASE bytes # <<>>
  <2>1. bytes' = Tail(bytes) /\ next' = next
    BY <1>4 DEF TakeByte
  <2>2. /\ next' = next /\ Len(bytes') = Len(bytes) - 1
        /\ \A b \in 1..Len(bytes') : bytes'[b] = bytes[b + 1]
    BY <1>1, <1>4, <2>1
  <2>3. Here' = Here + 1 /\ Here \in Int
    <3>1. next \in Int /\ next' = next /\ Len(bytes) \in Int /\ Len(bytes') = Len(bytes) - 1
      BY <1>1, <2>2
    <3> QED
      BY <3>1 DEF Here
  <2>4. ASSUME NEW b \in 1..Len(bytes') PROVE bytes'[b] = CodeAt(Here' + b - 1)
    <3>1. b + 1 \in 1..Len(bytes)
      BY <1>1, <2>2
    <3>2. bytes[b + 1] = CodeAt(Here + (b + 1) - 1)
      BY <3>1 DEF Stream, Running
    <3>3. Here + (b + 1) - 1 = Here' + b - 1
      BY <2>3
    <3> QED
      BY <2>2, <3>2, <3>3
  <2> QED
    BY <1>2, <2>3, <2>4 DEF Stream
<1>5. CASE bytes = <<>> /\ ~(wordsLeft > 0)
  <2>1. bytes' = <<>> /\ next' = next
    BY <1>5 DEF TakeByte
  <2>2. Here > LastByte
    BY <1>1, <1>5 DEF Here, LastByte
  <2>3. Here \in Int /\ LastByte \in Int
    BY <1>1 DEF Here, LastByte
  <2> QED
    BY <2>1, <2>2, <2>3 DEF Stream
<1> QED
  BY <1>3, <1>4, <1>5

----------------------------------------------------------------------------
(* The steps of the prologue, and the point before the first of them or    *)
(* after one of them.                                                      *)
Steps == Len(machine.prologue.steps)
Point(k) == machine.prologue.states[k + 1]
Instr(k) == machine.prologue.steps[k].instr
Undone(k) == machine.prologue.steps[k].undo

(* The registers that count are those of a point. *)
Agree(k) == \A j \in Point(k).known : r[j] = Point(k).regs[j]

(* Where the interpreter is in an entry that describes a prologue: at a    *)
(* point, after the first byte of the instructions for the step before it, *)
(* or after the second byte of the three for a large area of the stack.    *)
AtPoint(k) == pc = "op" /\ Here = Point(k).at /\ Agree(k)

OneByteIn(k) ==
  /\ k > 0 /\ Here = Point(k).at + 1 /\ Agree(k) /\ Len(Undone(k)) > 1
  /\ \/ pc = "mask" /\ Undone(k)[1] = op /\ op \in 128..143
     \/ pc = "low" /\ Undone(k)[1] = 177
     \/ pc = "uleb" /\ Undone(k)[1] = 178 /\ weight = 1

TwoBytesIn(k) ==
  /\ k > 0 /\ Here = Point(k).at + 2 /\ pc = "uleb"
  /\ Len(Undone(k)) = 3 /\ Undone(k)[1] = 178 /\ weight = 128 % Modulus
  /\ \A j \in Point(k).known :
       r[j] = IF j = SP THEN (Point(k).regs[SP] + (Undone(k)[2] - 128)) % Modulus
              ELSE Point(k).regs[j]

Back(k) == AtPoint(k) \/ OneByteIn(k) \/ TwoBytesIn(k)

(* The invariant: at some point, and nothing has gone wrong. *)
Restoring ==
  Described =>
    /\ pc = "entry" => r = machine.regs
    /\ pc # "done" => setPc = FALSE /\ result = "none"
    /\ pc \in Running => \E k \in 0..Steps : Back(k)
    /\ RestoresCaller

CallerInv == FrameInv /\ Stream /\ Restoring

(* What the points and the steps of a prologue consist of. *)
LEMMA PrologueTypes ==
  ASSUME machine \in Machine, Described
  PROVE  /\ Steps \in Nat
         /\ \A k \in 0..Steps : /\ Point(k).regs \in [Regs -> Value]
                                /\ Point(k).known \in SUBSET Regs
                                /\ Point(k).at \in Nat
         /\ \A k \in 1..Steps : Instr(k) \in Instruction /\ Undone(k) \in Seq(Byte)
<1> DEFINE steps == machine.prologue.steps
           states == machine.prologue.states
           Step == [instr : Instruction, undo : Seq(Byte)]
           State == [regs : [Regs -> Value], known : SUBSET Regs, at : Nat]
<1>1. machine.prologue \in Prologue
  BY ZenonT(20) DEF Machine
<1>2. steps \in Seq(Step) /\ states \in Seq(State)
  BY <1>1 DEF Prologue
<1>3. Len(states) = Len(steps) + 1
  BY DEF Described
<1> HIDE DEF steps, states, Step, State
<1>4. Len(steps) \in Nat
  BY <1>2
<1>5. ASSUME NEW k \in 0..Len(steps) PROVE states[k + 1] \in State
  BY <1>2, <1>3, <1>4
<1>6. ASSUME NEW k \in 1..Len(steps) PROVE steps[k] \in Step
  BY <1>2, <1>4
<1>7. ASSUME NEW k \in 0..Len(steps)
      PROVE  /\ states[k + 1].regs \in [Regs -> Value]
             /\ states[k + 1].known \in SUBSET Regs
             /\ states[k + 1].at \in Nat
  BY <1>5 DEF State
<1>8. ASSUME NEW k \in 1..Len(steps)
      PROVE  steps[k].instr \in Instruction /\ steps[k].undo \in Seq(Byte)
  BY <1>6 DEF Step
<1> QED
  BY <1>4, <1>7, <1>8 DEF Steps, Point, Instr, Undone, steps, states

(* A step of the prologue, and how it is undone. *)
LEMMA StepFacts ==
  ASSUME machine \in Machine, Described, NEW k \in 1..Steps
  PROVE  /\ k - 1 \in 0..Steps /\ k \in 0..Steps /\ k > 0
         /\ Point(k).regs = After(Point(k - 1).regs, Instr(k))
         /\ Point(k - 1).known = Recovered(Point(k).known, Instr(k))
         /\ Point(k - 1).at = Point(k).at + Len(Undone(k))
         /\ Undoes(Undone(k), Instr(k))
         /\ \A b \in 1..Len(Undone(k)) :
              /\ Point(k).at + b - 1 <= LastByte
              /\ CodeAt(Point(k).at + b - 1) = Undone(k)[b]
              /\ Undone(k)[b] \in Byte
         /\ Instr(k).do = "mov" => Instr(k).fp \in Point(k).known
         /\ Instr(k).do = "push" => SP \in Point(k).known /\ Saved(Point(k - 1).regs, Instr(k))
<1>1. Steps \in Nat /\ Undone(k) \in Seq(Byte)
  BY PrologueTypes
<1>2. k - 1 \in 0..Steps /\ k \in 0..Steps /\ k > 0 /\ (k - 1) + 1 = k
  BY <1>1
<1>3. DescribedStep(k)
  BY DEF Described, Steps
<1>4. \A b \in 1..Len(Undone(k)) : Undone(k)[b] \in Byte
  BY <1>1
<1> QED
  BY <1>2, <1>3, <1>4 DEF DescribedStep, Point, Instr, Undone

(* The three instructions of a prologue. *)
LEMMA InstructionKinds ==
  ASSUME NEW i \in Instruction
  PROVE  \/ i.do = "push" /\ i.mask \in SUBSET (Regs \ {SP, PC})
         \/ i.do = "sub" /\ i.n \in Nat
         \/ i.do = "mov" /\ i.fp \in Regs \ {SP, PC}
BY DEF Instruction

(* Popping what was pushed. *)
LEMMA PushIsUndone ==
  ASSUME TypeOK, Described, NEW k \in 1..Steps, Agree(k), Instr(k).do = "push",
         r' = Popped(Instr(k).mask)
  PROVE  \A j \in Point(k - 1).known : r'[j] = Point(k - 1).regs[j]
<1> DEFINE before == Point(k - 1).regs
           after == Point(k).regs
           mask == Instr(k).mask
           below(j) == Cardinality({m \in mask : m < j})
           size == Cardinality(mask)
<1>1. machine \in Machine
  BY CursorFacts
<1>2. Instr(k) \in Instruction /\ k - 1 \in 0..Steps /\ k \in 0..Steps
  BY <1>1, PrologueTypes, StepFacts
<1>3. mask \in SUBSET (Regs \ {SP, PC})
  BY <1>2, InstructionKinds
<1>4. /\ before \in [Regs -> Value] /\ Point(k - 1).known \in SUBSET Regs
      /\ Point(k - 1).known = Point(k).known \cup mask
      /\ SP \in Point(k).known /\ Saved(before, Instr(k))
  BY <1>1, <1>2, PrologueTypes, StepFacts DEF Recovered
<1>5. after = [before EXCEPT ![SP] = (before[SP] - size) % Modulus]
  BY <1>1, StepFacts DEF After
<1>6. After(before, Instr(k)) = after
  BY <1>1, StepFacts
<1>7. r[SP] = after[SP] /\ SP \in Regs
  BY <1>4 DEF Agree, Regs, SP
<1>8. \A j \in mask : machine.stack[(r[SP] + below(j)) % Modulus] = before[j]
  BY <1>4, <1>6, <1>7 DEF Saved
<1>9. r' = [j \in Regs |->
              IF j \in mask THEN machine.stack[(r[SP] + below(j)) % Modulus]
              ELSE IF j = SP THEN (r[SP] + size) % Modulus
              ELSE r[j]]
  BY DEF Popped
<1>10. size \in Nat
  <2>1. IsFiniteSet(0..15)
    <3>1. \A n \in Nat : IsFiniteSet(0..n)
      BY FS_Interval
    <3> QED
      BY <3>1
  <2>2. mask \subseteq 0..15
    BY <1>3 DEF Regs
  <2> HIDE DEF mask
  <2>3. IsFiniteSet(mask)
    BY <2>1, <2>2, FS_Subset
  <2> QED
    BY <2>3, FS_CardinalityType
<1>11. (r[SP] + size) % Modulus = before[SP]
  <2>1. before[SP] \in Value
    BY <1>4, <1>7
  <2>2. r[SP] = (before[SP] - size) % Modulus
    BY <1>4, <1>5, <1>7
  <2> QED
    BY <1>10, <2>1, <2>2, MovesBack
<1> HIDE DEF before, after, mask, below, size
<1> SUFFICES ASSUME NEW j \in Point(k - 1).known PROVE r'[j] = before[j]
  BY DEF before
<1>12. j \in Regs
  BY <1>4
<1>13. CASE j \in mask
  BY <1>8, <1>9, <1>12, <1>13
<1>14. CASE j = SP
  <2>1. j \notin mask
    BY <1>3, <1>14
  <2> QED
    BY <1>9, <1>11, <1>12, <1>14, <2>1
<1>15. CASE j \notin mask /\ j # SP
  <2>1. j \in Point(k).known
    BY <1>4, <1>15
  <2>2. r[j] = after[j]
    BY <2>1 DEF Agree, after
  <2>3. after[j] = before[j]
    BY <1>4, <1>5, <1>12, <1>15
  <2> QED
    BY <1>9, <1>12, <1>15, <2>2, <2>3
<1> QED
  BY <1>13, <1>14, <1>15

(* Giving back what was reserved. *)
LEMMA SubIsUndone ==
  ASSUME TypeOK, Described, NEW k \in 1..Steps, Instr(k).do = "sub", NEW x,
         \A j \in Point(k).known \ {SP} : r[j] = Point(k).regs[j],
         SP \in Point(k).known => x = (Point(k).regs[SP] + Instr(k).n) % Modulus,
         r' = [r EXCEPT ![SP] = x]
  PROVE  \A j \in Point(k - 1).known : r'[j] = Point(k - 1).regs[j]
<1> DEFINE before == Point(k - 1).regs
           after == Point(k).regs
           n == Instr(k).n
<1>1. machine \in Machine /\ r \in [Regs -> Value]
  BY RegisterFacts
<1>2. Instr(k) \in Instruction /\ k - 1 \in 0..Steps
  BY <1>1, PrologueTypes, StepFacts
<1>3. n \in Nat
  BY <1>2, InstructionKinds
<1>4. /\ before \in [Regs -> Value] /\ Point(k - 1).known \in SUBSET Regs
      /\ Point(k - 1).known = Point(k).known
  BY <1>1, <1>2, PrologueTypes, StepFacts DEF Recovered
<1>5. after = [before EXCEPT ![SP] = (before[SP] - n) % Modulus]
  BY <1>1, StepFacts DEF After
<1> HIDE DEF before, after, n
<1> SUFFICES ASSUME NEW j \in Point(k - 1).known PROVE r'[j] = before[j]
  BY DEF before
<1>6. j \in Regs /\ j \in Point(k).known
  BY <1>4
<1>7. CASE j = SP
  <2>1. before[SP] \in Value /\ after[SP] = (before[SP] - n) % Modulus
    BY <1>4, <1>5, <1>6, <1>7
  <2>2. r'[SP] = (after[SP] + n) % Modulus
    BY <1>1, <1>6, <1>7 DEF after, n
  <2> QED
    BY <1>3, <1>7, <2>1, <2>2, MovesBack
<1>8. CASE j # SP
  <2>1. r[j] = after[j] /\ after[j] = before[j]
    BY <1>4, <1>5, <1>6, <1>8 DEF after
  <2> QED
    BY <1>1, <1>6, <1>8, <2>1
<1> QED
  BY <1>7, <1>8

(* Setting the stack pointer from the frame pointer. *)
LEMMA MovIsUndone ==
  ASSUME TypeOK, Described, NEW k \in 1..Steps, Agree(k), Instr(k).do = "mov",
         r' = [r EXCEPT ![SP] = r[Instr(k).fp]]
  PROVE  \A j \in Point(k - 1).known : r'[j] = Point(k - 1).regs[j]
<1> DEFINE before == Point(k - 1).regs
           after == Point(k).regs
           fp == Instr(k).fp
<1>1. machine \in Machine /\ r \in [Regs -> Value] /\ SP \in Regs
  BY RegisterFacts
<1>2. Instr(k) \in Instruction /\ k - 1 \in 0..Steps
  BY <1>1, PrologueTypes, StepFacts
<1>3. fp \in Regs /\ fp # SP
  BY <1>2, InstructionKinds
<1>4. /\ before \in [Regs -> Value] /\ Point(k - 1).known \in SUBSET Regs
      /\ Point(k - 1).known = (Point(k).known \ {fp}) \cup {SP}
      /\ fp \in Point(k).known
  BY <1>1, <1>2, PrologueTypes, StepFacts DEF Recovered
<1>5. after = [before EXCEPT ![fp] = before[SP]]
  BY <1>1, StepFacts DEF After
<1>6. r[fp] = after[fp]
  BY <1>4 DEF Agree
<1> HIDE DEF before, after, fp
<1> SUFFICES ASSUME NEW j \in Point(k - 1).known PROVE r'[j] = before[j]
  BY DEF before
<1>7. CASE j = SP
  <2>1. r'[SP] = r[fp]
    BY <1>1 DEF fp
  <2>2. after[fp] = before[SP]
    BY <1>3, <1>4, <1>5
  <2> QED
    BY <1>6, <1>7, <2>1, <2>2
<1>8. CASE j # SP
  <2>1. j \in Point(k).known /\ j # fp /\ j \in Regs
    BY <1>4, <1>8
  <2>2. r[j] = after[j]
    BY <2>1 DEF Agree, after
  <2>3. after[j] = before[j]
    BY <1>4, <1>5, <2>1
  <2>4. r'[j] = r[j]
    BY <1>1, <1>8, <2>1
  <2> QED
    BY <2>2, <2>3, <2>4
<1> QED
  BY <1>7, <1>8

----------------------------------------------------------------------------
(* The entry and its prologue stay as they are. *)
LEMMA EntryStays ==
  ASSUME machine' = machine
  PROVE  /\ Described' = Described /\ Steps' = Steps /\ RestoresCaller' =
              (pc' = "done" /\ Described =>
                 /\ result' = "continue"
                 /\ r'[SP] = machine.caller[SP] /\ r'[PC] = machine.caller[PC]
                 /\ \A j \in CalleeSaved : r'[j] = machine.caller[j])
         /\ \A k \in Int : Point(k)' = Point(k) /\ Undone(k)' = Undone(k)
<1>1. Described' = Described
  BY DEF Described, DescribedStep, Saved, CodeAt, LastByte, Declared, Header, Routine, Kind,
         WordAt, Words
<1>2. Steps' = Steps /\ \A k \in Int : Point(k)' = Point(k) /\ Undone(k)' = Undone(k)
  BY DEF Steps, Point, Undone
<1> QED
  BY <1>1, <1>2 DEF RestoresCaller

(* A step of the prologue has been undone. *)
LEMMA StepUndone ==
  ASSUME TypeOK, machine' = machine, Described, NEW k \in 1..Steps,
         Here' = Point(k).at + Len(Undone(k)),
         \A j \in Point(k - 1).known : r'[j] = Point(k - 1).regs[j],
         pc' = "op", setPc' = FALSE, result' = "none"
  PROVE  Restoring'
<1>1. machine \in Machine
  BY CursorFacts
<1>2. k - 1 \in 0..Steps /\ k - 1 \in Int /\ Point(k - 1).at = Point(k).at + Len(Undone(k))
  BY <1>1, StepFacts
<1>3. Steps' = Steps /\ Point(k - 1)' = Point(k - 1)
  BY <1>2, EntryStays
<1>4. AtPoint(k - 1)'
  BY <1>2, <1>3 DEF AtPoint, Agree
<1>5. Back(k - 1)'
  BY <1>4 DEF Back
<1>6. \E m \in 0..Steps' : Back(m)'
  BY <1>2, <1>3, <1>5
<1> QED
  BY <1>6 DEF Restoring, RestoresCaller

(* A part of the instructions that undo a step has been read. *)
LEMMA StepBegun ==
  ASSUME TypeOK, machine' = machine, Described, NEW k \in 1..Steps,
         OneByteIn(k)' \/ TwoBytesIn(k)', pc' \in {"mask", "low", "uleb"},
         setPc' = FALSE, result' = "none"
  PROVE  Restoring'
<1>1. machine \in Machine
  BY CursorFacts
<1>2. k \in 0..Steps /\ Steps' = Steps
  BY <1>1, StepFacts, EntryStays
<1>3. \E m \in 0..Steps' : Back(m)'
  BY <1>2 DEF Back
<1> QED
  BY <1>3 DEF Restoring, RestoresCaller

(* The next byte, when the bytes before it that undo a step have been read. *)
LEMMA ByteOfStep ==
  ASSUME CallerInv, Described, pc \in Running, TakeByte, machine' = machine,
         NEW k \in 1..Steps, NEW b \in 1..Len(Undone(k)), Here = Point(k).at + b - 1
  PROVE  NextByte = Undone(k)[b] /\ Here' = Point(k).at + b
<1>1. machine \in Machine
  BY CursorFacts DEF CallerInv, FrameInv
<1>2. Point(k).at \in Nat /\ Undone(k) \in Seq(Byte)
  BY <1>1, PrologueTypes, StepFacts
<1>3. Here <= LastByte /\ CodeAt(Here) = Undone(k)[b]
  BY <1>1, StepFacts
<1>4. NextByte = CodeAt(Here) /\ Here' = Here + 1
  BY <1>3, StreamByte, StreamTaken DEF CallerInv
<1>5. b \in Int
  BY <1>2
<1> QED
  BY <1>2, <1>3, <1>4, <1>5

(* How many bytes undo a step. *)
LEMMA UndoneLength ==
  ASSUME machine \in Machine, Described, NEW k \in 1..Steps
  PROVE  Len(Undone(k)) \in 1..3
<1>1. Undoes(Undone(k), Instr(k)) /\ Instr(k) \in Instruction
  BY PrologueTypes, StepFacts
<1>2. CASE Instr(k).do = "push"
  BY <1>1, <1>2 DEF Undoes
<1>3. CASE Instr(k).do = "sub"
  BY <1>1, <1>3 DEF Undoes
<1>4. CASE Instr(k).do = "mov"
  BY <1>1, <1>4 DEF Undoes
<1> QED
  BY <1>1, <1>2, <1>3, <1>4, InstructionKinds

(* Where a new instruction begins: at the call, or with the first byte     *)
(* that undoes a step.                                                     *)
LEMMA NewInstruction ==
  ASSUME CallerInv, Described, pc = "op", TakeByte, machine' = machine
  PROVE  \/ AtPoint(0) /\ NextByte = CodeFinish
         \/ \E k \in 1..Steps : /\ AtPoint(k)
                                /\ NextByte = Undone(k)[1]
                                /\ Here' = Point(k).at + 1
<1>1. machine \in Machine
  BY CursorFacts DEF CallerInv, FrameInv
<1>2. PICK k \in 0..Steps : Back(k)
  BY DEF CallerInv, Restoring, Running
<1>3. AtPoint(k) /\ Here = Point(k).at
  BY <1>2 DEF Back, AtPoint, OneByteIn, TwoBytesIn
<1>4. CASE k = 0
  <2>1. CodeAt(Point(0).at) = CodeFinish
    BY DEF Described, Point
  <2>2. NextByte = CodeAt(Here)
    BY StreamByte DEF CallerInv, Running
  <2> QED
    BY <1>3, <1>4, <2>1, <2>2
<1>5. CASE k # 0
  <2>1. k \in 1..Steps
    BY <1>1, <1>5, PrologueTypes
  <2>2. 1 \in 1..Len(Undone(k)) /\ Point(k).at \in Nat
    <3>1. Point(k).at \in Nat
      BY <1>1, PrologueTypes
    <3> DEFINE n == Len(Undone(k))
    <3>2. n \in 1..3
      BY <1>1, <2>1, UndoneLength
    <3> HIDE DEF n
    <3>3. 1 \in 1..n
      BY <3>2
    <3> QED
      BY <3>1, <3>3 DEF n
  <2>3. Here = Point(k).at + 1 - 1
    BY <1>3, <2>2
  <2>4. NextByte = Undone(k)[1] /\ Here' = Point(k).at + 1
    BY <2>1, <2>2, <2>3, ByteOfStep DEF Running
  <2> QED
    BY <1>3, <2>1, <2>4
<1> QED
  BY <1>4, <1>5

(* Where an operand is read: the second byte that undoes a step, or the    *)
(* third.                                                                  *)
LEMMA NewOperand ==
  ASSUME CallerInv, Described, pc \in {"mask", "low", "uleb"}, TakeByte, machine' = machine
  PROVE  \E k \in 1..Steps :
           \/ /\ OneByteIn(k) /\ NextByte = Undone(k)[2] /\ Here' = Point(k).at + 2
           \/ /\ TwoBytesIn(k) /\ NextByte = Undone(k)[3] /\ Here' = Point(k).at + 3
<1>1. machine \in Machine
  BY CursorFacts DEF CallerInv, FrameInv
<1>2. PICK k \in 0..Steps : Back(k)
  BY DEF CallerInv, Restoring, Running
<1>3. OneByteIn(k) \/ TwoBytesIn(k)
  BY <1>2 DEF Back, AtPoint
<1>4. k \in 1..Steps
  BY <1>1, <1>3, PrologueTypes DEF OneByteIn, TwoBytesIn
<1>5. Len(Undone(k)) \in 1..3 /\ Point(k).at \in Nat
  BY <1>1, <1>2, <1>4, UndoneLength, PrologueTypes
<1>6. pc \in Running
  BY DEF Running
<1>7. CASE OneByteIn(k)
  <2>1. 2 \in 1..Len(Undone(k)) /\ Here = Point(k).at + 2 - 1
    BY <1>5, <1>7 DEF OneByteIn
  <2>2. NextByte = Undone(k)[2] /\ Here' = Point(k).at + 2
    BY <1>4, <1>6, <2>1, ByteOfStep
  <2> QED
    BY <1>4, <1>7, <2>2
<1>8. CASE TwoBytesIn(k)
  <2>1. 3 \in 1..Len(Undone(k)) /\ Here = Point(k).at + 3 - 1
    BY <1>5, <1>8 DEF TwoBytesIn
  <2>2. NextByte = Undone(k)[3] /\ Here' = Point(k).at + 3
    BY <1>4, <1>6, <2>1, ByteOfStep
  <2> QED
    BY <1>4, <1>8, <2>2
<1> QED
  BY <1>3, <1>7, <1>8

----------------------------------------------------------------------------
(* Every step keeps the invariant, in an entry that describes a prologue.  *)

(* What the invariant says before an instruction or an operand. *)
LEMMA WhileRunning ==
  ASSUME CallerInv, Described, pc \in Running
  PROVE  TypeOK /\ machine \in Machine /\ setPc = FALSE /\ result = "none"
BY CursorFacts DEF CallerInv, FrameInv, Restoring, Running

(* One byte undoes the setting of the frame pointer. *)
LEMMA MovByte ==
  ASSUME NEW i \in Instruction, i.do = "mov", NEW u, Undoes(u, i)
  PROVE  Len(u) = 1 /\ \E b \in 144..159 : u[1] = b
<1>1. i.fp \in 0..15
  BY InstructionKinds DEF Regs
<1>2. Len(u) = 1 /\ u[1] = 144 + i.fp
  BY DEF Undoes
<1>3. 144 + i.fp \in 144..159
  BY <1>1
<1> QED
  BY <1>2, <1>3

(* What the instructions begin with that give back a part of the stack. *)
LEMMA SubByte ==
  ASSUME NEW i, i.do = "sub", NEW u, Undoes(u, i)
  PROVE  \/ Len(u) = 1 /\ u[1] < 64
         \/ Len(u) = 2 /\ u[1] = 178
         \/ Len(u) = 3 /\ u[1] = 178
BY DEF Undoes

(* The end of the instructions, at the call. *)
LEMMA FinishRestores ==
  ASSUME CallerInv, Described, Finish
  PROVE  Restoring'
<1>1. pc = "op" /\ NextByte = CodeFinish /\ TakeByte /\ machine' = machine /\ pc' = "done"
      /\ result' = "continue" /\ r' = (IF setPc THEN r ELSE [r EXCEPT ![PC] = r[LR]])
  BY DEF Finish, Opcode, Ends, memory
<1>2. TypeOK /\ machine \in Machine /\ setPc = FALSE
  BY <1>1, WhileRunning DEF Running
<1>3. AtPoint(0)
  <2> SUFFICES ASSUME NEW k \in 1..Steps, NextByte = Undone(k)[1] PROVE FALSE
    BY <1>1, NewInstruction
  <2>1. Undoes(Undone(k), Instr(k)) /\ Instr(k) \in Instruction
    BY <1>2, PrologueTypes, StepFacts
  <2>2. Undone(k)[1] = 176
    BY <1>1 DEF CodeFinish
  <2>3. CASE Instr(k).do = "push"
    BY <2>1, <2>2, <2>3 DEF Undoes
  <2>4. CASE Instr(k).do = "sub"
    BY <2>1, <2>2, <2>4 DEF Undoes
  <2>5. CASE Instr(k).do = "mov"
    BY <2>1, <2>2, <2>5, InstructionKinds DEF Undoes, Regs
  <2> QED
    BY <2>1, <2>3, <2>4, <2>5, InstructionKinds
<1>4. /\ CalleeSaved \cup {SP, LR} \subseteq Point(0).known
      /\ Point(0).regs = machine.caller /\ machine.caller[LR] = machine.caller[PC]
  BY DEF Described, Point
<1>5. \A j \in CalleeSaved \cup {SP, LR} : r[j] = machine.caller[j]
  BY <1>3, <1>4 DEF AtPoint, Agree
<1>6. r \in [Regs -> Value] /\ r' = [r EXCEPT ![PC] = r[LR]]
  BY <1>1, <1>2, RegisterFacts
<1>7. /\ CalleeSaved \subseteq Regs /\ SP \in Regs /\ PC \in Regs
      /\ PC \notin CalleeSaved /\ SP # PC
  BY DEF CalleeSaved, Regs, SP, PC
<1>8. r'[PC] = r[LR] /\ \A j \in CalleeSaved \cup {SP} : r'[j] = r[j]
  BY <1>6, <1>7
<1>9. RestoresCaller'
  BY <1>1, <1>4, <1>5, <1>8, EntryStays
<1> QED
  BY <1>1, <1>9 DEF Restoring, Running

(* The stack pointer is moved back over up to 64 words. *)
LEMMA MoveSPRestores ==
  ASSUME CallerInv, Described, MoveSP
  PROVE  Restoring'
<1>1. pc = "op" /\ NextByte \in 0..127 /\ TakeByte /\ machine' = machine /\ pc' = pc
      /\ result' = result /\ setPc' = setPc
  BY DEF MoveSP, Opcode, memory
<1>2. TypeOK /\ machine \in Machine /\ setPc = FALSE /\ result = "none"
  BY <1>1, WhileRunning DEF Running
<1>3. PICK k \in 1..Steps : AtPoint(k) /\ NextByte = Undone(k)[1] /\ Here' = Point(k).at + 1
  BY <1>1, NewInstruction DEF CodeFinish
<1>4. Undoes(Undone(k), Instr(k)) /\ Instr(k) \in Instruction
  BY <1>2, PrologueTypes, StepFacts
<1>5. /\ Instr(k).do = "sub" /\ Len(Undone(k)) = 1 /\ NextByte < 64
      /\ Instr(k).n = NextByte + 1
  <2>1. CASE Instr(k).do = "push"
    BY <1>1, <1>3, <1>4, <2>1 DEF Undoes
  <2>2. CASE Instr(k).do = "sub"
    BY <1>1, <1>3, <1>4, <2>2 DEF Undoes
  <2>3. CASE Instr(k).do = "mov"
    BY <1>1, <1>3, <1>4, <2>3, InstructionKinds DEF Undoes, Regs
  <2> QED
    BY <1>4, <2>1, <2>2, <2>3, InstructionKinds
<1> DEFINE x == (r[SP] + ((NextByte % 64) + 1)) % Modulus
<1>6. r' = [r EXCEPT ![SP] = x]
  BY <1>5 DEF MoveSP
<1>7. NextByte % 64 = NextByte
  BY <1>1, <1>5
<1>8. Agree(k)
  BY <1>3 DEF AtPoint
<1>9. SP \in Point(k).known => x = (Point(k).regs[SP] + Instr(k).n) % Modulus
  BY <1>5, <1>7, <1>8 DEF Agree
<1> HIDE DEF x
<1>10. \A j \in Point(k - 1).known : r'[j] = Point(k - 1).regs[j]
  BY <1>2, <1>5, <1>6, <1>8, <1>9, SubIsUndone DEF Agree
<1> QED
  BY <1>1, <1>2, <1>3, <1>5, <1>10, StepUndone

(* The stack pointer is set from the frame pointer. *)
LEMMA LoadSPRestores ==
  ASSUME CallerInv, Described, LoadSP
  PROVE  Restoring'
<1>1. pc = "op" /\ NextByte \in 144..159 /\ TakeByte /\ machine' = machine /\ setPc' = setPc
  BY DEF LoadSP, Opcode, memory
<1>2. TypeOK /\ machine \in Machine /\ setPc = FALSE /\ result = "none"
  BY <1>1, WhileRunning DEF Running
<1>3. PICK k \in 1..Steps : AtPoint(k) /\ NextByte = Undone(k)[1] /\ Here' = Point(k).at + 1
  BY <1>1, NewInstruction DEF CodeFinish
<1>4. Undoes(Undone(k), Instr(k)) /\ Instr(k) \in Instruction
  BY <1>2, PrologueTypes, StepFacts
<1>5. /\ Instr(k).do = "mov" /\ Len(Undone(k)) = 1
      /\ NextByte = 144 + Instr(k).fp
  <2>1. CASE Instr(k).do = "push"
    BY <1>1, <1>3, <1>4, <2>1 DEF Undoes
  <2>2. CASE Instr(k).do = "sub"
    BY <1>1, <1>3, <1>4, <2>2 DEF Undoes
  <2>3. CASE Instr(k).do = "mov"
    BY <1>3, <1>4, <2>3 DEF Undoes
  <2> QED
    BY <1>4, <2>1, <2>2, <2>3, InstructionKinds
<1>6. Instr(k).fp \in Regs \ {SP, PC}
  BY <1>4, <1>5, InstructionKinds
<1>7. NextByte \notin {157, 159} /\ NextByte - 144 = Instr(k).fp
  BY <1>5, <1>6 DEF Regs, SP, PC
<1>8. r' = [r EXCEPT ![SP] = r[Instr(k).fp]] /\ pc' = pc /\ result' = result
  BY <1>7 DEF LoadSP
<1>9. Agree(k)
  BY <1>3 DEF AtPoint
<1>10. \A j \in Point(k - 1).known : r'[j] = Point(k - 1).regs[j]
  BY <1>2, <1>5, <1>8, <1>9, MovIsUndone
<1> QED
  BY <1>1, <1>2, <1>3, <1>5, <1>8, <1>10, StepUndone

(* A range of registers, and perhaps lr, is popped. *)
LEMMA PopRangeRestores ==
  ASSUME CallerInv, Described, PopRange
  PROVE  Restoring'
<1>1. pc = "op" /\ NextByte \in 160..175 /\ TakeByte /\ machine' = machine /\ pc' = pc
      /\ result' = result /\ setPc' = setPc
  BY DEF PopRange, Opcode, memory
<1>2. TypeOK /\ machine \in Machine /\ setPc = FALSE /\ result = "none"
  BY <1>1, WhileRunning DEF Running
<1>3. PICK k \in 1..Steps : AtPoint(k) /\ NextByte = Undone(k)[1] /\ Here' = Point(k).at + 1
  BY <1>1, NewInstruction DEF CodeFinish
<1>4. Undoes(Undone(k), Instr(k)) /\ Instr(k) \in Instruction
  BY <1>2, PrologueTypes, StepFacts
<1> DEFINE mask == 4..(4 + (NextByte % 8)) \cup (IF NextByte >= 168 THEN {LR} ELSE {})
<1>5. Instr(k).do = "push" /\ Len(Undone(k)) = 1 /\ Instr(k).mask = mask
  <2>1. CASE Instr(k).do = "push"
    BY <1>1, <1>3, <1>4, <2>1 DEF Undoes
  <2>2. CASE Instr(k).do = "sub"
    BY <1>1, <1>3, <1>4, <2>2 DEF Undoes
  <2>3. CASE Instr(k).do = "mov"
    BY <1>1, <1>3, <1>4, <2>3, InstructionKinds DEF Undoes, Regs
  <2> QED
    BY <1>4, <2>1, <2>2, <2>3, InstructionKinds
<1>6. r' = Popped(mask)
  BY DEF PopRange
<1> HIDE DEF mask
<1>7. Agree(k)
  BY <1>3 DEF AtPoint
<1>8. \A j \in Point(k - 1).known : r'[j] = Point(k - 1).regs[j]
  BY <1>2, <1>5, <1>6, <1>7, PushIsUndone
<1> QED
  BY <1>1, <1>2, <1>3, <1>5, <1>8, StepUndone

(* The first byte of instructions with an operand. *)
LEMMA TakeOpcodeRestores ==
  ASSUME CallerInv, Described, TakeOpcode
  PROVE  Restoring'
<1>1. /\ pc = "op" /\ NextByte \in 128..143 \cup {177, 178} /\ TakeByte /\ machine' = machine
      /\ result' = result /\ setPc' = setPc /\ r' = r /\ op' = NextByte /\ weight' = 1
      /\ pc' = IF NextByte < 144 THEN "mask" ELSE IF NextByte = 177 THEN "low" ELSE "uleb"
  BY DEF TakeOpcode, Opcode, memory
<1>2. TypeOK /\ machine \in Machine /\ setPc = FALSE /\ result = "none"
  BY <1>1, WhileRunning DEF Running
<1>3. PICK k \in 1..Steps : AtPoint(k) /\ NextByte = Undone(k)[1] /\ Here' = Point(k).at + 1
  BY <1>1, NewInstruction DEF CodeFinish
<1>4. Undoes(Undone(k), Instr(k)) /\ Instr(k) \in Instruction
  BY <1>2, PrologueTypes, StepFacts
<1>5. Len(Undone(k)) > 1
  <2> DEFINE b == Undone(k)[1]
             n == Len(Undone(k))
  <2>1. b \in 128..143 \cup {177, 178}
    BY <1>1, <1>3
  <2>2. CASE Instr(k).do = "push"
    <3>1. b \in 160..175 \/ n = 2
      BY <1>4, <2>2, Zenon DEF Undoes
    <3> HIDE DEF b, n
    <3> QED
      BY <2>1, <3>1 DEF n
  <2>3. CASE Instr(k).do = "sub"
    <3>1. (n = 1 /\ b < 64) \/ n = 2 \/ n = 3
      BY <1>4, <2>3, SubByte
    <3> HIDE DEF b, n
    <3>2. n > 1
      BY <2>1, <3>1
    <3> QED
      BY <3>2 DEF n
  <2>4. CASE Instr(k).do = "mov"
    <3>1. PICK c \in 144..159 : b = c
      BY <1>4, <2>4, MovByte
    <3>2. c \notin 128..143 \cup {177, 178}
      OBVIOUS
    <3> QED
      BY <2>1, <3>1, <3>2
  <2> QED
    BY <1>4, <2>2, <2>3, <2>4, InstructionKinds
<1>6. k \in Int /\ k > 0 /\ Point(k)' = Point(k) /\ Undone(k)' = Undone(k)
  BY <1>1, EntryStays
<1>7. Agree(k)'
  BY <1>1, <1>3, <1>6 DEF AtPoint, Agree
<1>8. \/ pc' = "mask" /\ Undone(k)[1] = op' /\ op' \in 128..143
      \/ pc' = "low" /\ Undone(k)[1] = 177
      \/ pc' = "uleb" /\ Undone(k)[1] = 178 /\ weight' = 1
  BY <1>1, <1>3
<1>9. OneByteIn(k)'
  BY <1>3, <1>5, <1>6, <1>7, <1>8 DEF OneByteIn
<1>10. pc' \in {"mask", "low", "uleb"} /\ setPc' = FALSE /\ result' = "none"
  BY <1>1, <1>2, <1>8
<1>11. (OneByteIn(k)' \/ TwoBytesIn(k)') /\ TypeOK /\ machine' = machine
  BY <1>1, <1>2, <1>9
<1> QED
  BY <1>10, <1>11, StepBegun

(* Nothing that undoes a step is unhandled. *)
LEMMA UnhandledRestores ==
  ASSUME CallerInv, Described, Unhandled
  PROVE  FALSE
<1>1. pc = "op" /\ NextByte \in 179..255 /\ TakeByte /\ machine' = machine
  BY DEF Unhandled, Opcode, memory
<1>2. machine \in Machine
  BY <1>1, WhileRunning DEF Running
<1>3. PICK k \in 1..Steps : AtPoint(k) /\ NextByte = Undone(k)[1] /\ Here' = Point(k).at + 1
  BY <1>1, NewInstruction DEF CodeFinish
<1>4. Undoes(Undone(k), Instr(k)) /\ Instr(k) \in Instruction
  BY <1>2, PrologueTypes, StepFacts
<1>5. CASE Instr(k).do = "push"
  BY <1>1, <1>3, <1>4, <1>5 DEF Undoes
<1>6. CASE Instr(k).do = "sub"
  BY <1>1, <1>3, <1>4, <1>6 DEF Undoes
<1>7. CASE Instr(k).do = "mov"
  BY <1>1, <1>3, <1>4, <1>7, InstructionKinds DEF Undoes, Regs
<1> QED
  BY <1>4, <1>5, <1>6, <1>7, InstructionKinds

(* Registers are popped under a mask of r4 to r15. *)
LEMMA PopMaskRestores ==
  ASSUME CallerInv, Described, PopMask
  PROVE  Restoring'
<1>1. pc = "mask" /\ TakeByte /\ machine' = machine
  BY DEF PopMask, memory
<1>2. TypeOK /\ machine \in Machine /\ setPc = FALSE /\ result = "none"
  BY <1>1, WhileRunning DEF Running
<1>3. PICK k \in 1..Steps : OneByteIn(k) /\ NextByte = Undone(k)[2] /\ Here' = Point(k).at + 2
  BY <1>1, NewOperand DEF TwoBytesIn
<1>4. Undoes(Undone(k), Instr(k)) /\ Instr(k) \in Instruction
  BY <1>2, PrologueTypes, StepFacts
<1>5. Undone(k)[1] = op /\ op \in 128..143 /\ Len(Undone(k)) > 1 /\ Agree(k)
  BY <1>1, <1>3 DEF OneByteIn
<1> DEFINE mask == {j + 4 : j \in Bits((op % 16) * 256 + NextByte)}
<1>6. Instr(k).do = "push" /\ Len(Undone(k)) = 2 /\ Instr(k).mask = mask /\ mask # {}
  <2>1. CASE Instr(k).do = "push"
    <3>1. \/ Len(Undone(k)) = 1
          \/ Len(Undone(k)) = 2 /\ Undone(k)[1] = 177
          \/ /\ Len(Undone(k)) = 2 /\ Instr(k).mask # {}
             /\ Instr(k).mask = {j + 4 : j \in Bits((Undone(k)[1] % 16) * 256 + Undone(k)[2])}
      BY <1>4, <2>1, Zenon DEF Undoes
    <3>2. Len(Undone(k)) = 2 /\ Instr(k).mask # {}
          /\ Instr(k).mask = {j + 4 : j \in Bits((Undone(k)[1] % 16) * 256 + Undone(k)[2])}
      BY <1>5, <3>1
    <3> QED
      BY <1>3, <1>5, <2>1, <3>2
  <2>2. CASE Instr(k).do = "sub"
    <3>1. op < 64 \/ op = 178
      BY <1>4, <1>5, <2>2, SubByte
    <3> QED
      BY <1>5, <3>1
  <2>3. CASE Instr(k).do = "mov"
    <3>1. PICK b \in 144..159 : Undone(k)[1] = b
      BY <1>4, <2>3, MovByte
    <3>2. b \notin 128..143 /\ b \notin {177, 178}
      OBVIOUS
    <3> QED
      BY <1>5, <3>1, <3>2
  <2> QED
    BY <1>4, <2>1, <2>2, <2>3, InstructionKinds
<1>7. /\ r' = Popped(mask) /\ setPc' = (setPc \/ PC \in mask) /\ pc' = "op"
      /\ result' = result
  BY <1>6, Zenon DEF PopMask
<1> HIDE DEF mask
<1>8. PC \notin mask
  BY <1>4, <1>6, InstructionKinds
<1>9. setPc' = FALSE /\ result' = "none"
  BY <1>2, <1>7, <1>8
<1>10. \A j \in Point(k - 1).known : r'[j] = Point(k - 1).regs[j]
  BY <1>2, <1>5, <1>6, <1>7, PushIsUndone
<1> QED
  BY <1>1, <1>2, <1>3, <1>6, <1>7, <1>9, <1>10, StepUndone

(* Registers are popped under a mask of r0 to r3. *)
LEMMA PopLowRestores ==
  ASSUME CallerInv, Described, PopLow
  PROVE  Restoring'
<1>1. pc = "low" /\ TakeByte /\ machine' = machine /\ setPc' = setPc
  BY DEF PopLow, memory
<1>2. TypeOK /\ machine \in Machine /\ setPc = FALSE /\ result = "none"
  BY <1>1, WhileRunning DEF Running
<1>3. PICK k \in 1..Steps : OneByteIn(k) /\ NextByte = Undone(k)[2] /\ Here' = Point(k).at + 2
  BY <1>1, NewOperand DEF TwoBytesIn
<1>4. Undoes(Undone(k), Instr(k)) /\ Instr(k) \in Instruction
  BY <1>2, PrologueTypes, StepFacts
<1>5. Undone(k)[1] = 177 /\ Len(Undone(k)) > 1 /\ Agree(k)
  BY <1>1, <1>3 DEF OneByteIn
<1>6. /\ Instr(k).do = "push" /\ Len(Undone(k)) = 2 /\ NextByte \in 1..15
      /\ Instr(k).mask = Bits(NextByte)
  <2>1. CASE Instr(k).do = "push"
    <3>1. \/ Len(Undone(k)) = 1
          \/ Undone(k)[1] \in 128..143
          \/ /\ Len(Undone(k)) = 2 /\ Undone(k)[2] \in 1..15
             /\ Instr(k).mask = Bits(Undone(k)[2])
      BY <1>4, <2>1, Zenon DEF Undoes
    <3>2. Len(Undone(k)) = 2 /\ Undone(k)[2] \in 1..15 /\ Instr(k).mask = Bits(Undone(k)[2])
      BY <1>5, <3>1
    <3> QED
      BY <1>3, <2>1, <3>2
  <2>2. CASE Instr(k).do = "sub"
    BY <1>4, <1>5, <2>2 DEF Undoes
  <2>3. CASE Instr(k).do = "mov"
    <3>1. PICK b \in 144..159 : Undone(k)[1] = b
      BY <1>4, <2>3, MovByte
    <3>2. b \notin 128..143 /\ b \notin {177, 178}
      OBVIOUS
    <3> QED
      BY <1>5, <3>1, <3>2
  <2> QED
    BY <1>4, <2>1, <2>2, <2>3, InstructionKinds
<1>7. r' = Popped(Bits(NextByte)) /\ pc' = "op" /\ result' = result
  BY <1>6 DEF PopLow
<1>8. \A j \in Point(k - 1).known : r'[j] = Point(k - 1).regs[j]
  BY <1>2, <1>5, <1>6, <1>7, PushIsUndone
<1> QED
  BY <1>1, <1>2, <1>3, <1>6, <1>7, <1>8, StepUndone

(* A ULEB128 is added to the stack pointer. *)
LEMMA AddUlebRestores ==
  ASSUME CallerInv, Described, AddUleb
  PROVE  Restoring'
<1> DEFINE low == NextByte % 128
           sum == r[SP] + low * weight + (IF NextByte < 128 THEN 129 ELSE 0)
<1>1. /\ pc = "uleb" /\ TakeByte /\ machine' = machine /\ setPc' = setPc /\ result' = result
      /\ r' = [r EXCEPT ![SP] = sum % Modulus] /\ weight' = (weight * 128) % Modulus
      /\ pc' = (IF NextByte < 128 THEN "op" ELSE "uleb")
  BY DEF AddUleb, memory
<1>2. TypeOK /\ machine \in Machine /\ setPc' = FALSE /\ result' = "none"
  BY <1>1, WhileRunning DEF Running
<1>3. PICK k \in 1..Steps :
        \/ OneByteIn(k) /\ NextByte = Undone(k)[2] /\ Here' = Point(k).at + 2
        \/ TwoBytesIn(k) /\ NextByte = Undone(k)[3] /\ Here' = Point(k).at + 3
  BY <1>1, NewOperand
<1>4. Undoes(Undone(k), Instr(k)) /\ Instr(k) \in Instruction
  BY <1>2, PrologueTypes, StepFacts
<1>5. Undone(k)[1] = 178
  BY <1>1, <1>3 DEF OneByteIn, TwoBytesIn
<1>6. Instr(k).do = "sub"
  <2>1. CASE Instr(k).do = "push"
    BY <1>4, <1>5, <2>1 DEF Undoes
  <2>2. CASE Instr(k).do = "mov"
    <3>1. PICK b \in 144..159 : Undone(k)[1] = b
      BY <1>4, <2>2, MovByte
    <3>2. b \notin 128..143 /\ b \notin {177, 178}
      OBVIOUS
    <3> QED
      BY <1>5, <3>1, <3>2
  <2> QED
    BY <1>4, <2>1, <2>2, InstructionKinds
<1>7. \/ /\ Len(Undone(k)) = 2 /\ Undone(k)[2] < 128 /\ Instr(k).n = 129 + Undone(k)[2]
      \/ /\ Len(Undone(k)) = 3 /\ Undone(k)[2] >= 128 /\ Undone(k)[3] < 128
         /\ Instr(k).n = 129 + (Undone(k)[2] - 128) + 128 * Undone(k)[3]
  BY <1>4, <1>5, <1>6 DEF Undoes
<1>8. NextByte \in 0..255 /\ Point(k)' = Point(k) /\ Undone(k)' = Undone(k) /\ k > 0
  BY <1>1, <1>2, NextByteIsByte, EntryStays DEF Byte
<1>9. Point(k).regs \in [Regs -> Value] /\ r \in [Regs -> Value] /\ SP \in Regs
      /\ Point(k).known \in SUBSET Regs
  <2>1. k \in 0..Steps
    BY <1>2, StepFacts
  <2> QED
    BY <1>2, <2>1, PrologueTypes, RegisterFacts
<1> HIDE DEF low, sum
<1>10. CASE OneByteIn(k) /\ NextByte = Undone(k)[2] /\ Here' = Point(k).at + 2
  <2>1. Agree(k) /\ weight = 1
    BY <1>1, <1>10 DEF OneByteIn
  <2>2. low \in Int /\ sum = r[SP] + low + (IF NextByte < 128 THEN 129 ELSE 0)
    BY <1>8, <2>1 DEF sum, low
  <2>3. CASE NextByte < 128
    <3>1. Len(Undone(k)) = 2 /\ Instr(k).n = 129 + NextByte /\ low = NextByte
      BY <1>7, <1>8, <1>10, <2>3 DEF low
    <3>2. SP \in Point(k).known =>
            sum % Modulus = (Point(k).regs[SP] + Instr(k).n) % Modulus
      <4> SUFFICES ASSUME SP \in Point(k).known
                   PROVE  sum % Modulus = (Point(k).regs[SP] + Instr(k).n) % Modulus
        OBVIOUS
      <4>1. r[SP] = Point(k).regs[SP] /\ r[SP] \in Int
        BY <1>2, <1>9, <2>1, RegisterFacts DEF Agree
      <4>2. sum = Point(k).regs[SP] + Instr(k).n
        BY <1>8, <2>2, <2>3, <3>1, <4>1
      <4> QED
        BY <4>2
    <3>3. \A j \in Point(k - 1).known : r'[j] = Point(k - 1).regs[j]
      <4>1. \A j \in Point(k).known \ {SP} : r[j] = Point(k).regs[j]
        BY <2>1 DEF Agree
      <4> QED
        BY <1>1, <1>2, <1>6, <3>2, <4>1, SubIsUndone
    <3> QED
      BY <1>1, <1>2, <1>10, <2>3, <3>1, <3>3, StepUndone
  <2>4. CASE ~(NextByte < 128)
    <3>1. Len(Undone(k)) = 3 /\ low = Undone(k)[2] - 128
      BY <1>7, <1>8, <1>10, <2>4 DEF low
    <3>2. weight' = 128 % Modulus /\ pc' = "uleb"
      BY <1>1, <2>1, <2>4
    <3>3. \A j \in Point(k).known :
            r'[j] = IF j = SP THEN (Point(k).regs[SP] + (Undone(k)[2] - 128)) % Modulus
                    ELSE Point(k).regs[j]
      <4> SUFFICES ASSUME NEW j \in Point(k).known
                   PROVE  r'[j] = IF j = SP
                                  THEN (Point(k).regs[SP] + (Undone(k)[2] - 128)) % Modulus
                                  ELSE Point(k).regs[j]
        OBVIOUS
      <4>1. r[j] = Point(k).regs[j] /\ j \in Regs
        BY <1>9, <2>1 DEF Agree
      <4>2. r[SP] \in Int
        BY <1>2, RegisterFacts
      <4>3. sum = r[SP] + (Undone(k)[2] - 128)
        BY <2>2, <2>4, <3>1, <4>2
      <4>4. r'[j] = IF j = SP THEN sum % Modulus ELSE r[j]
        BY <1>1, <1>9, <4>1
      <4> QED
        BY <4>1, <4>3, <4>4
    <3>4. TwoBytesIn(k)'
      BY <1>5, <1>8, <1>10, <3>1, <3>2, <3>3 DEF TwoBytesIn
    <3> QED
      BY <1>1, <1>2, <3>2, <3>4, StepBegun
  <2> QED
    BY <2>3, <2>4
<1>11. CASE TwoBytesIn(k) /\ NextByte = Undone(k)[3] /\ Here' = Point(k).at + 3
  <2>1. weight = 128 % Modulus /\ Len(Undone(k)) = 3
    BY <1>11 DEF TwoBytesIn
  <2>2. /\ NextByte < 128 /\ low = NextByte /\ Undone(k)[2] \in Byte
        /\ Instr(k).n = 129 + (Undone(k)[2] - 128) + 128 * NextByte
    <3>1. NextByte < 128 /\ Instr(k).n = 129 + (Undone(k)[2] - 128) + 128 * NextByte
      BY <1>7, <1>11, <2>1
    <3>2. 2 \in 1..Len(Undone(k))
      BY <2>1
    <3>3. Undone(k)[2] \in Byte
      BY <1>2, <3>2, StepFacts
    <3> QED
      BY <1>8, <3>1, <3>3 DEF low
  <2>3. SP \in Point(k).known => sum % Modulus = (Point(k).regs[SP] + Instr(k).n) % Modulus
    <3> SUFFICES ASSUME SP \in Point(k).known
                 PROVE  sum % Modulus = (Point(k).regs[SP] + Instr(k).n) % Modulus
      OBVIOUS
    <3> DEFINE a == Point(k).regs[SP] + (Undone(k)[2] - 128)
    <3>1. r[SP] = a % Modulus
      BY <1>11 DEF TwoBytesIn
    <3>2. a \in Int
      BY <1>9, <2>2 DEF Value, Byte
    <3>3. a + 129 + (NextByte * 128) = Point(k).regs[SP] + Instr(k).n
      BY <1>8, <1>9, <2>2 DEF Value, Byte
    <3> HIDE DEF a
    <3> DEFINE w == NextByte * (128 % Modulus)
               b == 129 + w
    <3>4. w \in Int /\ sum = (a % Modulus) + b
      <4>1. 128 % Modulus \in Int /\ a % Modulus \in Int
        BY <3>2, UnwindAssumption
      <4>2. sum = (a % Modulus) + NextByte * (128 % Modulus) + 129
        BY <2>1, <2>2, <3>1 DEF sum
      <4>3. w \in Int
        BY <1>8, <4>1
      <4> HIDE DEF w
      <4>4. sum = (a % Modulus) + w + 129
        BY <4>2 DEF w
      <4> QED
        BY <4>1, <4>3, <4>4
    <3>5. sum % Modulus = (a + b) % Modulus
      <4>1. b \in Int
        BY <3>4
      <4> HIDE DEF b
      <4> QED
        BY <3>2, <3>4, <4>1, CutSummand
    <3>6. a + b = (a + 129) + w
      <4> HIDE DEF w
      <4> QED
        BY <3>2, <3>4
    <3>7. ((a + 129) + w) % Modulus = ((a + 129) + (NextByte * 128)) % Modulus
      <4> DEFINE A == a + 129
                 K == 128
                 N == NextByte
      <4>1. A \in Int /\ N \in Int /\ K \in Int
        BY <1>8, <3>2
      <4> HIDE DEF A, K, N
      <4>2. (A + (N * (K % Modulus))) % Modulus = (A + (N * K)) % Modulus
        BY <4>1, CutFactor
      <4> QED
        BY <4>2 DEF A, K, N
    <3> HIDE DEF w, b
    <3> QED
      BY <3>3, <3>5, <3>6, <3>7
  <2>4. \A j \in Point(k).known \ {SP} : r[j] = Point(k).regs[j]
    BY <1>11 DEF TwoBytesIn
  <2>5. \A j \in Point(k - 1).known : r'[j] = Point(k - 1).regs[j]
    BY <1>1, <1>2, <1>6, <2>3, <2>4, SubIsUndone
  <2> QED
    BY <1>1, <1>2, <1>11, <2>1, <2>2, <2>5, StepUndone
<1> QED
  BY <1>3, <1>10, <1>11

(* After the header the bytes that are left are the instructions. *)
LEMMA StartStream ==
  ASSUME TypeOK, StartRoutine
  PROVE  Stream' /\ Here' = (IF Routine = 0 THEN 2 ELSE 3)
<1>1. /\ machine' = machine /\ next' = 2
      /\ bytes' = SubSeq(Header, IF Routine = 0 THEN 2 ELSE 3, 4)
  BY DEF StartRoutine, memory
<1>2. machine \in Machine
  BY CursorFacts
<1>3. Header \in [1..4 -> Byte] /\ Declared \in Nat
  BY <1>2, WordFacts
<1> DEFINE first == IF Routine = 0 THEN 2 ELSE 3
<1>4. first \in {2, 3}
  OBVIOUS
<1>5. /\ Len(bytes') = 5 - first
      /\ \A b \in 1..(5 - first) : bytes'[b] = Header[first + b - 1]
  <2> DEFINE w == Header
  <2>1. w \in Seq(Byte) /\ Len(w) = 4
    BY <1>3, SegmentIsSequence
  <2>2. bytes' = SubSeq(w, first, 4)
    BY <1>1
  <2> HIDE DEF w, first
  <2>3. Len(bytes') = 5 - first /\ \A b \in 1..(5 - first) : bytes'[b] = w[first + b - 1]
    BY <1>4, <2>1, <2>2
  <2> QED
    BY <2>3 DEF w
<1>6. Here' = first
  <2> HIDE DEF first
  <2> QED
    BY <1>1, <1>4, <1>5 DEF Here
<1>7. Stream'
  <2>1. \A b : CodeAt(Here + b - 1)' = CodeAt(Here' + b - 1)
    BY <1>1, CodeStays
  <2>2. ASSUME NEW b \in 1..Len(bytes') PROVE bytes'[b] = CodeAt(Here' + b - 1)
    <3> HIDE DEF first
    <3>1. b \in 1..(5 - first) /\ first + b - 1 \in 1..4
      BY <1>4, <1>5
    <3>2. CodeAt(4 * 1 - 4 + (first + b - 1)) = WordAt(1)[first + b - 1]
      BY <1>2, <1>3, <3>1, CodeOfWord
    <3>3. 4 * 1 - 4 + (first + b - 1) = Here' + b - 1
      BY <1>4, <1>6, <3>1
    <3> QED
      BY <1>5, <3>1, <3>2, <3>3 DEF Header
  <2> QED
    BY <2>1, <2>2 DEF Stream
<1> QED
  BY <1>6, <1>7

(* The header of the entry leads to the body of the function. *)
LEMMA StartRestores ==
  ASSUME CallerInv, Described, StartRoutine
  PROVE  Restoring'
<1>1. /\ pc = "entry" /\ machine' = machine /\ setPc' = setPc
      /\ r' = [r EXCEPT ![12] = Ucb]
  BY DEF StartRoutine, memory
<1>2. pc' = "op" /\ result' = result
  BY DEF StartRoutine, Described
<1>3. TypeOK /\ machine \in Machine /\ r = machine.regs /\ setPc = FALSE /\ result = "none"
  BY <1>1, CursorFacts DEF CallerInv, FrameInv, Restoring
<1>4. Here' = (IF Routine = 0 THEN 2 ELSE 3)
  BY <1>3, StartStream
<1>5. Steps \in Nat /\ Point(Steps).known \in SUBSET Regs
  <2>1. Steps \in Nat
    BY <1>3, PrologueTypes
  <2> QED
    BY <1>3, <2>1, PrologueTypes
<1>6. /\ Point(Steps).at = (IF Routine = 0 THEN 2 ELSE 3)
       /\ \A j \in Point(Steps).known : j # 12 /\ machine.regs[j] = Point(Steps).regs[j]
  BY DEF Described, Point, Steps
<1>7. \A j \in Point(Steps).known : r'[j] = Point(Steps).regs[j]
  <2>1. r \in [Regs -> Value]
    BY <1>3, RegisterFacts
  <2> QED
    BY <1>1, <1>3, <1>5, <1>6, <2>1
<1>8. Steps' = Steps /\ Point(Steps)' = Point(Steps)
  BY <1>1, <1>5 DEF Steps, Point
<1>9. AtPoint(Steps)'
  BY <1>2, <1>4, <1>6, <1>7, <1>8 DEF AtPoint, Agree
<1>10. Back(Steps)'
  BY <1>9 DEF Back
<1>11. \E k \in 0..Steps' : Back(k)'
  BY <1>5, <1>8, <1>10
<1> QED
  BY <1>1, <1>2, <1>3, <1>11 DEF Restoring, RestoresCaller

(* The invariant holds at the start. *)
LEMMA CallerInvInit == Init => CallerInv
<1> SUFFICES ASSUME Init PROVE CallerInv
  OBVIOUS
<1>1. pc = "entry" /\ r = machine.regs /\ setPc = FALSE /\ result = "none"
  BY DEF Init
<1>2. Stream /\ Restoring
  BY <1>1 DEF Stream, Restoring, RestoresCaller, Running
<1> QED
  BY <1>2, FrameInvInit DEF CallerInv

(* The bytes that are left are those of the entry, whatever it is. *)
LEMMA StreamStep ==
  ASSUME FrameInv, Stream, [Next]_vars
  PROVE  Stream'
<1>1. CASE UNCHANGED vars
  BY <1>1 DEF vars, Stream, Here, CodeAt, LastByte, Declared, Header, Routine, WordAt, Words
<1>2. CASE NoEntry \/ CantUnwind \/ ForeignRoutine
  <2>1. pc' = "done"
    BY <1>2 DEF NoEntry, CantUnwind, ForeignRoutine, Ends
  <2> QED
    BY <2>1 DEF Stream, Running
<1>3. CASE StartRoutine
  BY <1>3, StartStream DEF FrameInv
<1>4. CASE Finish \/ MoveSP \/ LoadSP \/ PopRange \/ TakeOpcode \/ Unhandled
  <2>1. pc \in Running /\ TakeByte /\ machine' = machine
    BY <1>4 DEF Finish, MoveSP, LoadSP, PopRange, TakeOpcode, Unhandled, Opcode, memory, Running
  <2> QED
    BY <2>1, StreamTaken
<1>5. CASE PopMask \/ PopLow \/ AddUleb
  <2>1. pc \in Running /\ TakeByte /\ machine' = machine
    BY <1>5 DEF PopMask, PopLow, AddUleb, memory, Running
  <2> QED
    BY <2>1, StreamTaken
<1> QED
  BY <1>1, <1>2, <1>3, <1>4, <1>5 DEF Next

(* Every step keeps the invariant. *)
LEMMA CallerInvStep == CallerInv /\ [Next]_vars => CallerInv'
<1> SUFFICES ASSUME CallerInv, [Next]_vars PROVE CallerInv'
  OBVIOUS
<1>1. FrameInv' /\ Stream'
  BY FrameInvStep, StreamStep DEF CallerInv
<1>2. machine' = machine
  BY DEF Next, vars, memory, NoEntry, CantUnwind, ForeignRoutine, StartRoutine, Finish, MoveSP,
         LoadSP, PopRange, TakeOpcode, Unhandled, PopMask, PopLow, AddUleb
<1>3. ASSUME Described PROVE Restoring'
  <2>1. CASE UNCHANGED vars
    <3>1. /\ UNCHANGED << pc, r, setPc, result, op, weight >> /\ Here' = Here
          /\ Steps' = Steps /\ \A k \in Int : Point(k)' = Point(k) /\ Undone(k)' = Undone(k)
      BY <1>2, <2>1, EntryStays DEF vars, Here
    <3>2. Steps \in Nat
      BY <1>3, CursorFacts, PrologueTypes DEF CallerInv, FrameInv
    <3>3. ASSUME NEW k \in 0..Steps, Back(k) PROVE Back(k)'
      <4>1. k \in Int
        BY <3>2
      <4> QED
        BY <3>1, <3>3, <4>1 DEF Back, AtPoint, OneByteIn, TwoBytesIn, Agree
    <3>4. pc' \in Running => \E k \in 0..Steps' : Back(k)'
      BY <1>3, <3>1, <3>3 DEF CallerInv, Restoring
    <3>5. RestoresCaller'
      BY <1>2, <1>3, <3>1, EntryStays DEF CallerInv, Restoring, RestoresCaller
    <3> QED
      BY <1>2, <1>3, <3>1, <3>4, <3>5 DEF CallerInv, Restoring
  <2>2. CASE NoEntry \/ CantUnwind \/ ForeignRoutine
    <3>1. Kind \in {"inline", "table"} /\ Header[1] >= 128 /\ Routine <= 2
      BY <1>3 DEF Described
    <3>2. Header[1] \in Nat /\ Routine \in Nat
      <4>1. Header \in [1..4 -> Byte]
        BY WordFacts, CursorFacts DEF CallerInv, FrameInv
      <4> QED
        BY <4>1 DEF Routine, Byte
    <3>3. Kind = "none" \/ Kind = "cantunwind" \/ Header[1] < 128 \/ Routine > 2
      BY <2>2, Zenon DEF NoEntry, CantUnwind, ForeignRoutine
    <3> QED
      BY <3>1, <3>2, <3>3
  <2> QED
    BY <1>3, <2>1, <2>2, StartRestores, FinishRestores, MoveSPRestores, LoadSPRestores,
       PopRangeRestores, TakeOpcodeRestores, UnhandledRestores, PopMaskRestores,
       PopLowRestores, AddUlebRestores DEF Next
<1>4. Restoring'
  <2>1. Described' = Described
    BY <1>2, EntryStays
  <2> QED
    BY <1>3, <2>1 DEF Restoring
<1> QED
  BY <1>1, <1>4 DEF CallerInv

(* If the entry describes the prologue that the function has executed, the *)
(* frame is unwound to the caller: its stack pointer, the registers it     *)
(* counts on, and the return address, for every prologue of pushes, moves  *)
(* of the stack pointer and a frame pointer, wherever the stack is in the  *)
(* address space.                                                          *)
THEOREM CallersAreRestored == Spec => []RestoresCaller
<1>1. CallerInv => RestoresCaller
  BY DEF CallerInv, Restoring, RestoresCaller
<1> QED
  BY <1>1, CallerInvInit, CallerInvStep, PTL DEF Spec
=============================================================================
