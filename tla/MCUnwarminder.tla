--------------------------- MODULE MCUnwarminder ---------------------------
(***************************************************************************)
(* Processes for the unwinder: for each mode, one whose code is made of    *)
(* what prologues and epilogues use, long enough for several frames, and   *)
(* one whose short code is made of everything else.  Every sequence of the *)
(* instructions is a program.                                              *)
(***************************************************************************)
EXTENDS Unwarminder

(* In the registers without an initial value: nothing, or an address that  *)
(* looks like one from the stack in register 14.                           *)
MCGarbage == {[v |-> 0, o |-> {}], [v |-> 257, o |-> {"STACK"}]}

Registers(pc, sp) ==
  [r \in 0..15 |-> CASE r = 13 -> sp [] r = 15 -> pc [] OTHER -> 3 * r + 1]

(* A stack with the given words, from the top on.                          *)
StackOf(sp, words) ==
  [a \in {sp + 4 * k : k \in 0..(Len(words) - 1)} |-> words[(a - sp) \div 4 + 1]]

Move == [op |-> "IMM8", kind |-> "MOV", rd |-> 0, n |-> 9]
Push(list, lr) == [op |-> "PUSH", list |-> list, lr |-> lr]
Pop(list, pc) == [op |-> "POP", list |-> list, pc |-> pc]
AddSp(kind, n) == [op |-> "ADDSP", kind |-> kind, n |-> n]
Bx(r) == [op |-> "BX", rs |-> r]
Branch(f) == [op |-> "B", f |-> f]
Unknown == [op |-> "UNKNOWN"]

ThumbFrames ==
  {Move, Unknown, Push({0, 7}, TRUE), Push({0, 1, 2}, FALSE), Pop({1}, FALSE), Pop({0, 3}, FALSE),
   Pop({1}, TRUE), Pop({}, TRUE), AddSp("ADD", 1), AddSp("SUB", 1), Bx(1)}

Alus == {"EOR", "LSL", "ASR", "ADC", "NEG", "CMP", "MVN"}

ThumbRest ==
  {Move, Bx(1), Bx(15), Branch(2046), AddSp("ADD", 64),
   [op |-> "IMM8", kind |-> "MOV", rd |-> 1, n |-> 2],
   [op |-> "LDRPC", rd |-> 1, n |-> 185],
   [op |-> "LDRPC", rd |-> 1, n |-> 9],
   [op |-> "ADDSUB3", kind |-> "SUB", rd |-> 1, rs |-> 0, n |-> 3]}
    \cup {[op |-> "IMM8", kind |-> k, rd |-> 0, n |-> 2] : k \in {"CMP", "ADD", "SUB"}}
    \cup {[op |-> "SHIFT", kind |-> k, rd |-> 0, rs |-> 0, n |-> 12] : k \in {"LSL", "LSR", "ASR"}}
    \cup {[op |-> "SHIFT", kind |-> "LSR", rd |-> 0, rs |-> 1, n |-> 0]}
    \cup {[op |-> "ADDSUB", kind |-> k, rd |-> 1, rs |-> 0, rn |-> 1] : k \in {"ADD", "SUB"}}
    \cup {[op |-> "ALU", kind |-> k, rd |-> 0, rs |-> 1] : k \in Alus}
    \cup {[op |-> "HI", kind |-> k, rd |-> d, rs |-> 1] :
            k \in {"ADD", "MOV"}, d \in {8, 15}}
    \cup {[op |-> "HI", kind |-> "MOV", rd |-> d, rs |-> 1] : d \in {0, 13}}

Ldm(list) == [op |-> "LDM", base |-> 13, list |-> list, p |-> FALSE, u |-> TRUE, w |-> TRUE, s |-> FALSE]
Stm(list) == [op |-> "STM", base |-> 13, list |-> list, p |-> TRUE, u |-> FALSE, w |-> TRUE, s |-> FALSE]
Dp(kind, rd, rn, x) == [op |-> "DP", kind |-> kind, rd |-> rd, rn |-> rn, op2 |-> x]
Immediate(n) == [type |-> "imm", n |-> n]
ByRegister(shift, r) == [type |-> "regshift", rm |-> 0, shift |-> shift, rs |-> r, bit7 |-> FALSE]
Plain(r) == [type |-> "reg", rm |-> r, shift |-> "LSL", n |-> 0]

ArmFrames ==
  {Unknown, Stm({0, 14}), Ldm({0, 15}), Ldm({1, 14}), Ldm({15}), Bx(14), Bx(1),
   Dp("ADD", 13, 13, Immediate(4)), Dp("SUB", 13, 13, Immediate(4)), Dp("MOV", 14, 0, Plain(1))}

ArmRest ==
  {Branch(16777214), Bx(0), Bx(15), [op |-> "MRS", rd |-> 0], [op |-> "MSR"],
   Dp("MOV", 0, 0, Immediate(996)), Dp("MOV", 0, 0, Immediate(4)),
   Dp("MOV", 0, 0, Immediate(524288)), Dp("ADD", 1, 15, Immediate(4)),
   Dp("CMP", 15, 15, Immediate(4)), Dp("ADC", 0, 0, Immediate(1)), Dp("MVN", 1, 0, Plain(0)),
   Dp("RSB", 0, 0, ByRegister("LSR", 1)),
   Dp("MOV", 0, 0, ByRegister("ASR", 1)),
   Dp("ORR", 1, 15, ByRegister("ROR", 0)),
   Dp("MOV", 0, 0, [type |-> "rrx", rm |-> 1]),
   Dp("MOV", 0, 0, ByRegister("LSL", 8)),
   Dp("AND", 1, 0, [ByRegister("LSL", 0) EXCEPT !.bit7 = TRUE]),
   Dp("MOV", 1, 0, Plain(15)), Dp("MOV", 15, 0, Plain(0)),
   Ldm({}), Ldm({1, 13}), [Ldm({0}) EXCEPT !.s = TRUE], [Ldm({0}) EXCEPT !.base = 15],
   [Ldm({1, 13, 15}) EXCEPT !.base = 0, !.u = FALSE],
   [Ldm({1, 13}) EXCEPT !.base = 0, !.p = TRUE, !.w = FALSE],
   [Ldm({1}) EXCEPT !.base = 0, !.p = TRUE, !.u = FALSE]}

(* Functions of both modes that call each other.                           *)
ThumbMixed ==
  {Pop({1}, FALSE), Pop({0, 1}, FALSE), AddSp("SUB", 4), Push({1}, FALSE), Push({0, 1}, FALSE),
   Bx(0), Bx(1)}
ArmMixed == {Ldm({0, 1, 2, 15}), Bx(1)}

(* A word that is pushed in Thumb code, popped in ARM code, and read again *)
(* by Thumb code, from below the stack pointer or after that has gone down *)
(* over it.                                                                *)
ThumbAcross ==
  {Move, Pop({1}, FALSE), Push({0}, FALSE), AddSp("SUB", 2), Bx(1), [op |-> "LDRPC", rd |-> 2, n |-> 183]}
ArmAcross == {Ldm({0, 15}), Dp("MOV", 2, 0, Immediate(4))}

(* Code of length bytes, at pc; words at base, the stack pointer is 1000.  *)
Process(pc, length, base, words, thumb, arm) ==
  [text   |-> {a \in (pc - (pc % 2))..(pc + length - 1 - (pc % 2)) : a % 2 = 0},
   instrs |-> [thumb |-> thumb, arm |-> arm],
   data   |-> StackOf(base, words),
   regs   |-> Registers(pc, 1000)]

MCImages ==
  {Process(257, 12, 1000, << 261, 259, 257, 263 >>, ThumbFrames, {Unknown}),
   Process(257, 6, 1000, << 264, 8 >>, ThumbRest, {Unknown}),
   Process(256, 16, 1000, << 260, 256, 265, 264 >>, {Pop({}, TRUE), Bx(1)}, ArmFrames),
   Process(256, 12, 1000, << 1000, 264, 4 >>, {Unknown}, ArmRest),
   Process(257, 12, 988, << 7, 7, 261, 264, 259 >>, ThumbMixed, ArmMixed),
   Process(257, 12, 1000, << 264, 265 >>, ThumbAcross, ArmAcross)}
=============================================================================
