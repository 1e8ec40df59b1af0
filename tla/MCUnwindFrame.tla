--------------------------- MODULE MCUnwindFrame ---------------------------
(***************************************************************************)
(* Entries to unwind: short instruction sequences of every kind, and those *)
(* the assembler generates for a set of function prologues.                *)
(***************************************************************************)
EXTENDS UnwindFrame, SequencesExt, FiniteSetsExt

Bytes4(s) == [k \in 1..4 |-> s[k]]

(* A header for the instructions: of routine 0 if three bytes are enough,  *)
(* of routine 1 with as many words as needed otherwise.                    *)
Pad(s, n) == [k \in 1..n |-> IF k <= Len(s) THEN s[k] ELSE CodeFinish]
Encoded(code) ==
  IF Len(code) <= 3 THEN << << 128 >> \o Pad(code, 3) >>
  ELSE LET n == (Len(code) + 1) \div 4
           all == << 129, n >> \o Pad(code, 4 * n + 2)
       IN  [w \in 1..(n + 1) |-> SubSeq(all, 4 * w - 3, 4 * w)]

Zero == << 0, 0, 0, 0 >>

----------------------------------------------------------------------------
(* Arbitrary instructions on a process with some registers and stack.      *)
AnyRegs  == [j \in Regs |-> (5 * j + 2) % Modulus]
AnyStack == [a \in Value |-> (7 * a + 3) % Modulus]
Holding(kind, words) ==
  [entry |-> [kind |-> kind, words |-> words], regs |-> AnyRegs,
   stack |-> AnyStack, caller |-> AnyRegs,
   prologue |-> [steps |-> <<>>, states |-> << [regs |-> AnyRegs, known |-> {}, at |-> 0] >>]]

SomeBytes == {0, 65, 128, 132, 136, 151, 157, 159, 160, 171, 176, 177, 178, 179, 200, 210}
Codes == [1..3 -> SomeBytes]

(* Does every ULEB128 of the code end within it? *)
Terminated(code) == \A k \in 1..3 : code[k] = 178 => \E j \in (k + 1)..3 : code[j] < 128

Others ==
  {Holding(k, << << h, 0, 176, 176 >>, Zero >>) :
     k \in {"none", "cantunwind", "inline", "table"}, h \in {16, 128, 129, 130, 131}}
  \cup {Holding("table", << << 129, 1, a, b >>, << c, 8, 176, 176 >>, d >>) :
     a \in {0, 132, 178}, b \in {4, 128, 160}, c \in {0, 132, 177}, d \in {Zero, << 0, 1, 0, 0 >>}}
  \cup {Holding("inline", << << 129, 1, a, b >>, << c, 8, 128, 0 >> >>) :
     a \in {1, 132, 178}, b \in {4, 128, 160}, c \in {0, 132, 177}}

AllMachines == Others \cup {Holding("inline", << << 128 >> \o c >>) : c \in Codes}
GoodMachines ==
  Others \cup {Holding("inline", << << 128 >> \o c >>) : c \in {c \in Codes : Terminated(c)}}

----------------------------------------------------------------------------
(* Prologues: instructions of the function, what they do, and the          *)
(* unwinding instructions for them.                                        *)
Push(mask) == [do |-> "push", mask |-> mask]
Sub(n)     == [do |-> "sub", n |-> n]
Fp == 7
MovFp      == [do |-> "mov", fp |-> Fp]

Does(s, i) ==
  LET t == After(s.regs, i)
      place(j) == t[SP] + Cardinality({k \in i.mask : k < j})
  IN  [regs |-> t,
       stack |-> IF i.do # "push" THEN s.stack
                 ELSE [a \in Value |-> IF \E j \in i.mask : a = place(j)
                                       THEN s.regs[CHOOSE j \in i.mask : a = place(j)]
                                       ELSE s.stack[a]]]

Uleb(n) == IF n < 128 THEN << n >> ELSE << 128 + (n % 128), n \div 128 >>
Sum2(mask) == FoldSet(LAMBDA j, sum : 2^j + sum, 0, mask)

Undo(i) ==
  CASE i.do = "mov" -> << 144 + Fp >>
    [] i.do = "sub" ->
         IF i.n <= 64 THEN << i.n - 1 >> ELSE << 178 >> \o Uleb(i.n - 129)
    [] i.do = "push" ->
         LET low == i.mask \ {LR}
             n == Cardinality(low)
         IN  IF i.mask \subseteq 0..3 THEN << 177, Sum2(i.mask) >>
             ELSE IF n > 0 /\ low = 4..(3 + n)
                  THEN << (IF LR \in i.mask THEN 168 ELSE 160) + n - 1 >>
             ELSE LET m == Sum2({j - 4 : j \in i.mask})
                  IN  << 128 + (m \div 256), m % 256 >>

(* The caller's registers, with the return address for pc, and the process *)
(* in the callee's body, where everything that was saved, and pc, has been *)
(* used for other things.                                                  *)
AtCall == [j \in Regs |-> IF j = SP THEN Modulus - 40 ELSE IF j = PC THEN 34 ELSE 20 + j]
Start  == [regs |-> AtCall, stack |-> [a \in Value |-> 0]]

(* What a prologue has done after each of its instructions, and where the  *)
(* registers of the body and the instructions for the rest leave each.     *)
Course(prologue) ==
  FoldLeft(LAMBDA done, i : Append(done, Does(done[Len(done)], i)), << Start >>, prologue)

Undoing(prologue, left, begin) ==
  FoldRight(LAMBDA i, rest : << [known |-> Recovered(rest[1].known, i),
                                 at |-> rest[1].at + Len(Undo(i))] >> \o rest,
            prologue, << [known |-> left, at |-> begin] >>)

InBody(prologue) ==
  LET n == Len(prologue)
      course == Course(prologue)
      end == course[n + 1]
      code == FlattenSeq([k \in 1..n |-> Undo(prologue[n + 1 - k])])
      saved == UNION {prologue[k].mask : k \in {k \in DOMAIN prologue : prologue[k].do = "push"}}
      framed == \E k \in DOMAIN prologue : prologue[k].do = "mov"
      regs == [j \in Regs |-> CASE j = SP /\ framed -> 9
                              [] j = PC \/ (j \in saved /\ ~(framed /\ j = Fp)) -> 77
                              [] OTHER -> end.regs[j]]
      left == {j \in Regs \ {12} : regs[j] = end.regs[j]}
      undoing == Undoing(prologue, left, IF Len(code) <= 3 THEN 2 ELSE 3)
  IN  {[entry |-> [kind |-> t, words |-> Encoded(code) \o << Zero >>],
        regs |-> regs, stack |-> end.stack, caller |-> AtCall,
        prologue |->
          [steps |-> [k \in 1..n |-> [instr |-> prologue[k], undo |-> Undo(prologue[k])]],
           states |-> [k \in 1..(n + 1) |-> [regs |-> course[k].regs, known |-> undoing[k].known,
                                             at |-> undoing[k].at]]]] :
        t \in {"table"} \cup (IF Len(code) <= 3 THEN {"inline"} ELSE {})}

Pushes == {<< Push(m) >> : m \in {{LR}, {4, LR}, {4, 5, 6, 7, LR}, {7, LR}, {4, 8, 11, LR},
                                  {4, 5, 7}, {5, 6, 7, 10, LR}}}
Args   == {<<>>, << Push({0, 1, 2, 3}) >>, << Push({2, 3}) >>}
Locals == {<<>>, << Sub(2) >>, << Sub(6), Sub(64) >>, << Sub(130) >>, << Sub(329) >>}
Frames == {<<>>, << MovFp >>}
Prologues ==
  {a \o p \o f \o l : a \in Args, p \in Pushes, f \in Frames, l \in Locals} \cup Locals

PrologueMachines ==
  UNION {InBody(p) : p \in {p \in Prologues :
           (\E k \in DOMAIN p : p[k].do = "mov")
             => \E k \in DOMAIN p : p[k].do = "push" /\ Fp \in p[k].mask}}

MCMachines == GoodMachines \cup PrologueMachines
=============================================================================
