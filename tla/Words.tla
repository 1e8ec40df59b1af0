-------------------------------- MODULE Words --------------------------------
(***************************************************************************)
(* The arithmetic of an ARM processor on words of Bits bits, as the        *)
(* McTernan unwinder computes it for data processing instructions.         *)
(***************************************************************************)
EXTENDS Integers

CONSTANT Bits   \* of a word

ASSUME BitsAssumption == Bits \in Nat /\ Bits > 15

Modulus == 2^Bits
WordSet == 0..(Modulus - 1)

(* What a prover that knows nothing of exponents needs to be told of them. *)
ASSUME PowersAssumption ==
  /\ \A n \in 0..Bits \cup 0..24 : 2^n \in Nat \ {0}
  /\ 2^0 = 1
  /\ Modulus % 4 = 0 /\ Modulus > 255
Word(n) == n % Modulus
Negative(v) == 2 * v >= Modulus
Complement(v) == Modulus - 1 - v

(* The barrel shifter; a distance in a register counts by its low byte.    *)
(* The shifts of C, where C leaves their result open, are the processor's. *)
Shifted(kind, v, distance) ==
  LET low == distance % 256
      n == IF kind = "ROR" THEN low % Bits ELSE IF low > Bits THEN Bits ELSE low
  IN  CASE kind = "LSL" -> (v % 2^(Bits - n)) * 2^n
        [] kind = "LSR" -> v \div 2^n
        [] kind = "ASR" -> v \div 2^n + (IF Negative(v) THEN Modulus - 2^(Bits - n) ELSE 0)
        [] kind = "ROR" -> v \div 2^n + (v % 2^n) * 2^(Bits - n)

(* The bitwise operations of two words, bit by bit.                        *)
Bit(v, k) == (v \div 2^k) % 2

LogicBit(kind, x, y) ==
  CASE kind = "AND" -> x * y
    [] kind = "ORR" -> x + y - x * y
    [] kind = "EOR" -> (x + y) % 2

Logic(kind, a, b) ==
  LET low[n \in 0..Bits] ==
        IF n = 0 THEN 0
        ELSE low[n - 1] + 2^(n - 1) * LogicBit(kind, Bit(a, n - 1), Bit(b, n - 1))
  IN  low[Bits]

(* The operations of which the carry is no operand.                        *)
Alu(kind, a, b) ==
  CASE kind = "ADD" -> Word(a + b)
    [] kind = "SUB" -> Word(a - b)
    [] kind = "RSB" -> Word(b - a)
    [] kind = "MUL" -> Word(a * b)
    [] kind = "MOV" -> b
    [] kind = "MVN" -> Complement(b)
    [] kind = "NEG" -> Word(-b)
    [] kind = "BIC" -> Logic("AND", a, Complement(b))
    [] kind \in {"AND", "EOR", "ORR"} -> Logic(kind, a, b)
    [] kind \in {"LSL", "LSR", "ASR", "ROR"} -> Shifted(kind, a, b)

Carrying == {"ADC", "SBC", "RSC"}
Comparing == {"TST", "TEQ", "CMP", "CMN"}

(* The number that a field of the given bits stands for.                   *)
SignedField(f, bits) == IF f >= 2^(bits - 1) THEN f - 2^bits ELSE f
==============================================================================
