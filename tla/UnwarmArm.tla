----------------------------- MODULE UnwarmArm -----------------------------
(***************************************************************************)
(* UnwStartArm (unwarm_arm.c): the interpretation of an ARM instruction,   *)
(* one action per kind.                                                    *)
(***************************************************************************)
EXTENDS Unwarm

(* Where a return goes: on in this loop, or in the other half's.  The end  *)
(* of the loop is to add what is taken off here.                           *)
GoTo(rs, h, to) ==
  IF to % 2 = 1 THEN Enter("thumb", [rs EXCEPT ![15].v = to], h)
  ELSE EndOfLoop([rs EXCEPT ![15].v = Word(to - 4)], h)

(* Any register with a value is followed, one from the stack reported.     *)
ArmBx(i) ==
  LET s == regData[i.rs]
  IN  \/ ~Valid(s.o) /\ Stop("FAILURE") /\ UNCHANGED frames
      \/ Valid(s.o) /\ s.o # FromStack /\ GoTo(regData, memData, s.v) /\ UNCHANGED frames
      \/ /\ s.o = FromStack
         /\ Report(s.v)
         /\ IF CliReport THEN GoTo(regData, memData, s.v) ELSE Stop("TRUNCATED")

ArmBranch(i) ==
  Continue([regData EXCEPT ![15].v = Word(@ + 4 * SignedField(i.f, 24) + 4)], memData)

ArmMrs(i) == Continue([regData EXCEPT ![i.rd].o = {}], memData)

ArmMsr == Continue(regData, memData)

(* ASR takes a distance in a register as a whole if the sign is set.       *)
ShiftedByArm(kind, v, n) ==
  IF kind = "ASR" /\ Negative(v) /\ n >= Bits THEN Modulus - 1 ELSE Shifted(kind, v, n)

(* The bit that should be zero is looked for in the number of the register *)
(* with the distance, whose upper half is refused with it.                 *)
Illegal(x) == x.type = "regshift" /\ x.rs >= 8

(* The second operand: a constant, or a register shifted by a constant or  *)
(* by a register; rrx needs the carry.                                     *)
Operand2(x) ==
  CASE x.type = "imm"      -> x.n
    [] x.type = "reg"      -> ShiftedByArm(x.shift, regData[x.rm].v, x.n)
    [] x.type = "regshift" -> ShiftedByArm(x.shift, regData[x.rm].v, regData[x.rs].v)
    [] x.type = "rrx"      -> 0

Origin2(x) ==
  LET distance == CASE x.type = "regshift" -> regData[x.rs].o
                    [] x.type = "rrx"      -> {}
                    [] OTHER               -> FromConst
  IN  CASE x.type = "imm" -> FromConst
        [] x.type # "imm" /\ Valid(distance) /\ Valid(regData[x.rm].o) ->
             regData[x.rm].o \cup Arithmetic
        [] OTHER -> {}

OriginOf(i) ==
  LET n == regData[i.rn].o
      o == Origin2(i.op2)
  IN  CASE i.kind \in {"MOV", "MVN"} -> o
        [] i.kind \notin {"MOV", "MVN"} \cup Carrying /\ Valid(n) /\ Valid(o) -> n \cup o
        [] OTHER -> {}

(* The processor's Pc is this much ahead when it is the first operand.  It *)
(* is taken back unless Pc is the destination.                             *)
Prefetch(i) ==
  CASE i.rn # 15 -> 0
    [] i.rn = 15 /\ i.op2.type = "regshift" -> 12
    [] OTHER -> 8

ArmDataProcessing(i) ==
  LET ahead == Prefetch(i)
      kept == IF i.rd = 15 THEN [regData EXCEPT ![15].v = Word(@ + ahead)] ELSE regData
      value == Alu(i.kind, Word(regData[i.rn].v + ahead), Operand2(i.op2))
  IN  IF Illegal(i.op2)
      THEN Stop("ILLEGAL_INSTR") /\ UNCHANGED frames
      ELSE Continue(CASE i.kind \in Comparing -> kept
                      [] i.kind \in Carrying  -> [kept EXCEPT ![i.rd].o = {}]
                      [] OTHER -> [regData EXCEPT ![i.rd] = [v |-> Word(value), o |-> OriginOf(i)]],
                    memData)

(* A register of a block, which is transferred if the base register has a  *)
(* known value.  What is stored goes to where register 13 points and not   *)
(* to addr.                                                                *)
BlockRegister(m, r) ==
  LET i == m.block
      step == IF i.u THEN 4 ELSE -4
      addr == IF i.p THEN Word(m.addr + step) ELSE m.addr
      done == CASE m.known /\ i.op = "LDM"  -> {LoadRegister(m, r, addr, i.base = 13)}
                [] m.known /\ i.op = "STM"  -> StoreRegister(m, r, m.regs[13].v)
                [] ~m.known /\ i.op = "LDM" -> {[m EXCEPT !.regs[r].o = {}]}
                [] OTHER                    -> {m}
  IN  {[n EXCEPT !.addr = Word(@ + step)] : n \in done}

RefusedBlock(i) ==
  \/ i.s /\ (i.op = "STM" \/ 15 \notin i.list)
  \/ i.base = 15
  \/ i.list = {}

TransferBlock(i) ==
  LET start == [regs |-> regData, hash |-> memData, ok |-> TRUE, block |-> i,
                known |-> Valid(regData[i.base].o), addr |-> regData[i.base].v]
  IN  \E m \in Transfers(start, BlockRegister, i.list, i.u) :
        LET rs == IF i.w THEN [m.regs EXCEPT ![i.base].v = m.addr] ELSE m.regs
            returns == i.op = "LDM" /\ 15 \in i.list
        IN  \/ /\ ~m.ok
               /\ Stop(IF i.op = "LDM" THEN "DREAD_W_FAIL" ELSE "DWRITE_W_FAIL")
               /\ UNCHANGED frames
            \/ m.ok /\ ~returns /\ Continue(rs, m.hash)
            \/ m.ok /\ returns /\ ~Valid(rs[15].o) /\ Stop("FAILURE") /\ UNCHANGED frames
            \/ /\ m.ok /\ returns /\ Valid(rs[15].o)
               /\ Report(rs[15].v)
               /\ IF CliReport THEN GoTo(rs, m.hash, rs[15].v) ELSE Stop("TRUNCATED")

ArmBlock(i) ==
  \/ RefusedBlock(i) /\ Stop("FAILURE") /\ UNCHANGED frames
  \/ ~RefusedBlock(i) /\ TransferBlock(i)

ArmUnknown == Continue(UnwInvalidateRegisterFile(regData), memData)

UnwStartArm(i) ==
  /\ Running("arm")
  /\ Fetch(i)
  /\ \/ i.op = "BX" /\ ArmBx(i)
     \/ i.op = "B" /\ ArmBranch(i)
     \/ i.op = "MRS" /\ ArmMrs(i)
     \/ i.op = "MSR" /\ ArmMsr
     \/ i.op = "DP" /\ ArmDataProcessing(i)
     \/ i.op \in {"LDM", "STM"} /\ ArmBlock(i)
     \/ i.op = "UNKNOWN" /\ ArmUnknown
=============================================================================
