---------------------------- MODULE UnwarmThumb ----------------------------
(***************************************************************************)
(* UnwStartThumb (unwarm_thumb.c): the interpretation of a Thumb           *)
(* instruction, one action per format.                                     *)
(***************************************************************************)
EXTENDS Unwarm

Put(r, v, o) == [regData EXCEPT ![r] = [v |-> Word(v), o |-> o]]

(* ASR takes bit 15 for the sign.  A distance of 0 is none.                *)
ShiftedByThumb(kind, v, n) ==
  IF kind = "ASR"
  THEN v \div 2^n + (IF (v \div 32768) % 2 = 1 THEN Modulus - 2^(Bits - n) ELSE 0)
  ELSE Shifted(kind, v, n)

ThumbShift(i) ==
  LET s == regData[i.rs]
  IN  Continue(Put(i.rd, ShiftedByThumb(i.kind, s.v, i.n), s.o \cup Arithmetic), memData)

(* M_IsOriginValid is asked of the values, of which it sees seven bits,    *)
(* and after the result was put in its register.                           *)
ThumbAddSub(i) ==
  LET s == regData[i.rs]
      n == regData[i.rn]
      put == Put(i.rd, Alu(i.kind, s.v, n.v), {})
      o == IF \A r \in {i.rs, i.rn} : put[r].v % 128 # 0
           THEN s.o \cup Arithmetic ELSE {}
  IN  Continue(Put(i.rd, Alu(i.kind, s.v, n.v), o), memData)

ThumbAddSub3(i) ==
  LET s == regData[i.rs]
  IN  Continue(Put(i.rd, Alu(i.kind, s.v, i.n), s.o \cup Arithmetic), memData)

(* SUB adds.                                                               *)
ThumbImmediate(i) ==
  LET d == regData[i.rd]
  IN  Continue(CASE i.kind = "MOV" -> Put(i.rd, i.n, FromConst)
                 [] i.kind = "CMP" -> regData
                 [] OTHER          -> Put(i.rd, d.v + i.n, d.o \cup Arithmetic), memData)

(* BIC and MVN negate as C's ! does; ROR and ASR by more than Bits shift   *)
(* everything out on the processor the unwinder runs on.                   *)
LogicalNot(v) == IF v = 0 THEN 1 ELSE 0

AluOfThumb(kind, d, s) ==
  CASE kind = "BIC" -> Logic("AND", d, LogicalNot(s))
    [] kind = "MVN" -> LogicalNot(s)
    [] kind \in {"ROR", "ASR"} /\ s > Bits -> 0
    [] OTHER        -> Alu(kind, d, s)

(* The origin is that of the second operand.                               *)
ThumbAlu(i) ==
  LET d == regData[i.rd]
      s == regData[i.rs]
      o == IF Valid(s.o) \/ i.kind \in {"NEG", "MVN"} THEN s.o \cup Arithmetic ELSE {}
  IN  Continue(CASE i.kind \in Comparing -> regData
                 [] i.kind \in Carrying  -> Put(i.rd, d.v, {})
                 [] OTHER                -> Put(i.rd, AluOfThumb(i.kind, d.v, s.v), o), memData)

(* One of the registers must be a high one.  MOV adds, and keeps its       *)
(* register's origin.                                                      *)
ThumbHigh(i) ==
  LET d == regData[i.rd]
      s == regData[i.rs]
  IN  IF i.rd < 8 /\ i.rs < 8
      THEN Stop("ILLEGAL_INSTR") /\ UNCHANGED frames
      ELSE Continue(CASE i.kind = "ADD" -> Put(i.rd, d.v + s.v, s.o \cup Arithmetic)
                      [] i.kind = "CMP" -> regData
                      [] i.kind = "MOV" -> Put(i.rd, d.v + s.v, d.o), memData)

(* Mutant of ThumbBx: as the ARM half does, any register is followed. *)
ThumbBxAsArm(i) ==
  LET s == regData[i.rs]
      onwards == IF s.v % 2 = 1
                 THEN EndOfLoop([regData EXCEPT ![15].v = Word(s.v - 2)], memData)
                 ELSE Enter("arm", [regData EXCEPT ![15].v = s.v], memData)
  IN  \/ ~Valid(s.o) /\ Stop("FAILURE") /\ UNCHANGED frames
      \/ Valid(s.o) /\ s.o # FromStack /\ onwards /\ UNCHANGED frames
      \/ s.o = FromStack /\ Report(s.v) /\ IF CliReport THEN onwards ELSE Stop("TRUNCATED")

(* Followed, and reported, only if the register was loaded from the stack. *)
ThumbBx(i) ==
  LET s == regData[i.rs]
  IN  \/ s.o # FromStack /\ Stop("FAILURE") /\ UNCHANGED frames
      \/ /\ s.o = FromStack
         /\ Report(s.v)
         /\ IF ~CliReport THEN Stop("TRUNCATED")
            ELSE IF s.v % 2 = 1
            THEN EndOfLoop([regData EXCEPT ![15].v = Word(s.v - 2)], memData)
            ELSE Enter("arm", [regData EXCEPT ![15].v = s.v], memData)

ThumbLoad(i) ==
  LET m == LoadRegister(Transferring, i.rd, Word(4 * (Pc \div 4) + 4 + 4 * i.n), FALSE)
  IN  IF m.ok THEN Continue(m.regs, memData) ELSE Stop("DREAD_W_FAIL") /\ UNCHANGED frames

(* The offset is kept in a byte.                                           *)
ThumbAddSp(i) ==
  Continue(Put(13, Alu(i.kind, Sp, (4 * i.n) % 256), regData[13].o), memData)

PopRegister(m, r) ==
  LET n == LoadRegister(m, r, m.regs[13].v, TRUE)
  IN  {IF n.ok THEN [n EXCEPT !.regs[13].v = Word(@ + 4)] ELSE n}

ThumbPop(i) ==
  \E m \in Transfers(Transferring, PopRegister, i.list, TRUE) :
    LET x == UnwMemReadRegister(m.hash, m.regs[13].v)
        returned == [m.regs EXCEPT ![13].v = Word(@ + 4), ![15] = [v |-> Word(x.v - 2), o |-> x.o]]
    IN  \/ ~i.pc /\ m.ok /\ Continue(m.regs, memData)
        \/ /\ ~m.ok \/ (i.pc /\ (~x.ok \/ ~Valid(x.o) \/ x.v % 2 = 0))
           /\ Stop(IF ~m.ok \/ ~x.ok THEN "DREAD_W_FAIL"
                   ELSE IF ~Valid(x.o) THEN "FAILURE" ELSE "INCONSISTENT")
           /\ UNCHANGED frames
        \/ /\ i.pc /\ m.ok /\ x.ok /\ Valid(x.o) /\ x.v % 2 = 1
           /\ Report(x.v)
           /\ IF CliReport THEN EndOfLoop(returned, memData) ELSE Stop("TRUNCATED")

PushRegister(m, r) ==
  LET down == [m EXCEPT !.regs[13].v = Word(@ - 4)]
  IN  StoreRegister(down, r, down.regs[13].v)

(* Mutant of ThumbPush: the registers are stored from the lowest address   *)
(* on, as the processor does it.                                           *)
ThumbPushUp(i) ==
  LET list == i.list \cup (IF i.lr THEN {14} ELSE {})
      sp == Word(regData[13].v - 4 * Cardinality(list))
      start == [regs |-> [regData EXCEPT ![13].v = sp], hash |-> memData, ok |-> TRUE, addr |-> sp]
      Store(m, r) == {[n EXCEPT !.addr = Word(@ + 4)] : n \in StoreRegister(m, r, m.addr)}
  IN  \E m \in Transfers(start, Store, list, TRUE) :
        IF m.ok THEN Continue(m.regs, m.hash) ELSE Stop("DWRITE_W_FAIL") /\ UNCHANGED frames

ThumbPush(i) ==
  LET list == i.list \cup (IF i.lr THEN {14} ELSE {})
  IN  \E m \in Transfers(Transferring, PushRegister, list, FALSE) :
        IF m.ok THEN Continue(m.regs, m.hash) ELSE Stop("DWRITE_W_FAIL") /\ UNCHANGED frames

(* The processor's Pc is a word ahead; the end of the loop adds the rest.  *)
ThumbBranch(i) ==
  Continue([regData EXCEPT ![15].v = Word(@ + 2 * SignedField(i.f, 11) + 2)], memData)

ThumbUnknown == Continue(UnwInvalidateRegisterFile(regData), memData)

UnwStartThumb(i) ==
  /\ Running("thumb")
  /\ Fetch(i)
  /\ \/ i.op = "SHIFT" /\ ThumbShift(i)
     \/ i.op = "ADDSUB" /\ ThumbAddSub(i)
     \/ i.op = "ADDSUB3" /\ ThumbAddSub3(i)
     \/ i.op = "IMM8" /\ ThumbImmediate(i)
     \/ i.op = "ALU" /\ ThumbAlu(i)
     \/ i.op = "HI" /\ ThumbHigh(i)
     \/ i.op = "BX" /\ ThumbBx(i)
     \/ i.op = "LDRPC" /\ ThumbLoad(i)
     \/ i.op = "ADDSP" /\ ThumbAddSp(i)
     \/ i.op = "POP" /\ ThumbPop(i)
     \/ i.op = "PUSH" /\ ThumbPush(i)
     \/ i.op = "B" /\ ThumbBranch(i)
     \/ i.op = "UNKNOWN" /\ ThumbUnknown
=============================================================================
