----------------------------- MODULE ArmMachine -----------------------------
(***************************************************************************)
(* The processor, as far as the McTernan unwinder is meant to follow it: a *)
(* reference to compare the unwinder with.  Registers and memory hold      *)
(* words; register 15 is the address of the instruction, with bit 0 set in *)
(* Thumb code.                                                             *)
(***************************************************************************)
EXTENDS Words, FiniteSets

VARIABLES
  real,   \* the registers
  mem     \* the memory

(* Any other value than v.                                                 *)
Another(v) == Word(v + 1)

----------------------------------------------------------------------------
InThumb == real[15] % 2 = 1
Width == IF InThumb THEN 2 ELSE 4

(* An instruction that reads register 15 gets an address further on.       *)
Read(r, ahead) == IF r = 15 THEN Word(real[15] + ahead) ELSE real[r]

Load(a) == IF a \in DOMAIN mem THEN mem[a] ELSE 0

Going(to) == [real EXCEPT ![15] = Word(to)]
Onwards(rs) == [rs EXCEPT ![15] = Word(@ + Width)]
Set(r, v) == IF r = 15 THEN Going(v) ELSE Onwards([real EXCEPT ![r] = Word(v)])

(* A push or pop is the transfer of a block at register 13.                *)
Block(i) ==
  CASE i.op = "PUSH" -> [load |-> FALSE, base |-> 13, p |-> TRUE, u |-> FALSE, w |-> TRUE,
                         list |-> i.list \cup (IF i.lr THEN {14} ELSE {})]
    [] i.op = "POP"  -> [load |-> TRUE, base |-> 13, p |-> FALSE, u |-> TRUE, w |-> TRUE,
                         list |-> i.list \cup (IF i.pc THEN {15} ELSE {})]
    [] OTHER -> [load |-> i.op = "LDM", base |-> i.base, p |-> i.p, u |-> i.u, w |-> i.w,
                 list |-> i.list]

(* The lowest register has the lowest address.                             *)
Size(b) == 4 * Cardinality(b.list)

Lowest(b) ==
  IF b.u THEN real[b.base] + (IF b.p THEN 4 ELSE 0)
  ELSE real[b.base] - Size(b) + (IF b.p THEN 0 ELSE 4)

Place(b, r) == Word(Lowest(b) + 4 * Cardinality({q \in b.list : q < r}))

Moved(b) ==
  [real EXCEPT ![b.base] = IF b.w THEN Word(@ + (IF b.u THEN Size(b) ELSE -Size(b))) ELSE @]

Loaded(b) == [r \in DOMAIN real |-> IF r \in b.list THEN Load(Place(b, r)) ELSE Moved(b)[r]]

Stored(b) ==
  LET places == {Place(b, r) : r \in b.list}
  IN  [a \in DOMAIN mem \cup places |->
         IF a \in places THEN real[CHOOSE r \in b.list : Place(b, r) = a] ELSE mem[a]]

Transfer(b) ==
  IF b.load
  THEN [real |-> IF 15 \in b.list THEN Loaded(b) ELSE Onwards(Loaded(b)), mem |-> mem]
  ELSE [real |-> Onwards(Moved(b)), mem |-> Stored(b)]

(* The second operand of an ARM data processing instruction.               *)
SecondOperand(x) ==
  CASE x.type = "imm"      -> x.n
    [] x.type = "reg"      -> Shifted(x.shift, Read(x.rm, 8), x.n)
    [] x.type = "regshift" -> Shifted(x.shift, Read(x.rm, 12), real[x.rs])
    [] OTHER               -> 0

Ahead(x) == IF x.type = "regshift" THEN 12 ELSE 8

(* To the right, a field of 0 stands for all bits.                         *)
Distance(i) == IF i.kind # "LSL" /\ i.n = 0 THEN Bits ELSE i.n

(* The effect of an instruction that writes one register at most.  One     *)
(* that the unwinder does not know changes any but registers 13 and 15,    *)
(* and no memory.                                                          *)
Result(i) ==
  CASE i.op = "SHIFT"    -> Set(i.rd, Shifted(i.kind, real[i.rs], Distance(i)))
    [] i.op = "ADDSUB"   -> Set(i.rd, Alu(i.kind, real[i.rs], real[i.rn]))
    [] i.op = "ADDSUB3"  -> Set(i.rd, Alu(i.kind, real[i.rs], i.n))
    [] i.op = "IMM8" /\ i.kind # "CMP" -> Set(i.rd, Alu(i.kind, real[i.rd], i.n))
    [] i.op = "ALU" /\ i.kind \notin Carrying \cup Comparing ->
         Set(i.rd, Alu(i.kind, real[i.rd], real[i.rs]))
    [] i.op = "HI" /\ i.kind # "CMP" ->
         Set(i.rd, Alu(i.kind, Read(i.rd, 4), Read(i.rs, 4)))
    [] i.op = "LDRPC"    -> Set(i.rd, Load(Word(4 * (real[15] \div 4) + 4 + 4 * i.n)))
    [] i.op = "ADDSP"    -> Set(13, Alu(i.kind, real[13], 4 * i.n))
    [] i.op = "DP" /\ i.kind \notin Carrying \cup Comparing ->
         Set(i.rd, Alu(i.kind, Read(i.rn, Ahead(i.op2)), SecondOperand(i.op2)))
    [] i.op \in {"ALU", "DP"} /\ i.kind \in Carrying -> Set(i.rd, Another(real[i.rd]))
    [] i.op = "MRS"      -> Set(i.rd, Another(real[i.rd]))
    [] i.op = "BX"       -> Going(Read(i.rs, IF InThumb THEN 3 ELSE 8))
    [] i.op = "B"        -> Going(real[15] + (IF InThumb THEN 4 + 2 * SignedField(i.f, 11)
                                              ELSE 8 + 4 * SignedField(i.f, 24)))
    [] i.op = "UNKNOWN"  -> Onwards([r \in DOMAIN real |-> IF r \in 0..12 \cup {14}
                                                           THEN Another(real[r]) ELSE real[r]])
    [] OTHER             -> Onwards(real)

(* What looks like a shift by a register but has bit 7 set changes the     *)
(* registers whose numbers are where those of the result and of the first  *)
(* operand would be.                                                       *)
IsDataProcessing(i) == ~(i.op = "DP" /\ i.op2.type = "regshift" /\ i.op2.bit7)

Other(i) ==
  Onwards([r \in DOMAIN real |-> IF r \in {i.rd, i.rn} \ {15}
                                 THEN Another(real[r]) ELSE real[r]])

(* The words below register 13 are nobody's: they are taken for those that *)
(* the process to unwind has there, data.                                  *)
Execute(i, data) ==
  LET e == IF i.op \in {"PUSH", "POP", "LDM", "STM"} THEN Transfer(Block(i))
           ELSE [real |-> IF IsDataProcessing(i) THEN Result(i) ELSE Other(i), mem |-> mem]
      kept == {a \in DOMAIN e.mem : a >= e.real[13]}
  IN  /\ real' = e.real
      /\ mem' = [a \in kept \cup DOMAIN data |-> IF a \in kept THEN e.mem[a] ELSE data[a]]
=============================================================================
