------------------------------- MODULE Unwarm -------------------------------
(***************************************************************************)
(* What the ARM and the Thumb half of the McTernan unwinder share: the     *)
(* registers and their origins, the memory behind the hash, the start and  *)
(* the end of the loop over the instructions, and the client that is told  *)
(* the return addresses (unwarm.c, unwarminder.c, client.c, simclient.c).  *)
(*                                                                         *)
(* An image is the process to unwind: the addresses of its code (text),    *)
(* the instructions the code is made of, in each mode, its words of data   *)
(* and stack, and the registers at the start.  Which instruction is at an  *)
(* address is settled when it is first read.                               *)
(***************************************************************************)
EXTENDS Words, MemHash, SequencesExt

CONSTANTS
  Images,
  Garbage,     \* what the registers without an initial value happen to hold
  MaxInstr,    \* UNW_MAX_INSTR_COUNT
  MaxFrames    \* the addresses a CliStack has room for

ASSUME CountAssumption == MaxInstr \in Nat \ {0} /\ MaxFrames \in Nat \ {0}

(* The instructions that the two halves tell apart, with the fields that   *)
(* they take from them.  A shift by a register with bit 7 set is none: the *)
(* word is a multiplication or the transfer of a halfword, which the ARM   *)
(* half does not tell from data processing.                                *)
Regs == 0..15

ThumbInstruction ==
  [op : {"SHIFT"}, kind : {"LSL", "LSR", "ASR"}, rd : 0..7, rs : 0..7, n : 0..31]
    \cup [op : {"ADDSUB"}, kind : {"ADD", "SUB"}, rd : 0..7, rs : 0..7, rn : 0..7]
    \cup [op : {"ADDSUB3"}, kind : {"ADD", "SUB"}, rd : 0..7, rs : 0..7, n : 0..7]
    \cup [op : {"IMM8"}, kind : {"MOV", "CMP", "ADD", "SUB"}, rd : 0..7, n : 0..255]
    \cup [op : {"ALU"}, rd : 0..7, rs : 0..7,
          kind : {"AND", "EOR", "LSL", "LSR", "ASR", "ROR", "NEG", "ORR", "MUL", "BIC", "MVN",
                  "ADC", "SBC", "TST", "CMP", "CMN"}]
    \cup [op : {"HI"}, kind : {"ADD", "CMP", "MOV"}, rd : Regs, rs : Regs]
    \cup [op : {"BX"}, rs : Regs]
    \cup [op : {"LDRPC"}, rd : 0..7, n : 0..255]
    \cup [op : {"ADDSP"}, kind : {"ADD", "SUB"}, n : 0..127]
    \cup [op : {"POP"}, list : SUBSET (0..7), pc : BOOLEAN]
    \cup [op : {"PUSH"}, list : SUBSET (0..7), lr : BOOLEAN]
    \cup [op : {"B"}, f : 0..2047]
    \cup [op : {"UNKNOWN"}]

Shift == {"LSL", "LSR", "ASR", "ROR"}
Operand ==
  [type : {"imm"}, n : WordSet]
    \cup [type : {"reg"}, rm : Regs, shift : Shift, n : 0..32]
    \cup [type : {"regshift"}, rm : Regs, shift : Shift, rs : Regs, bit7 : BOOLEAN]
    \cup [type : {"rrx"}, rm : Regs]

ArmInstruction ==
  [op : {"BX"}, rs : Regs]
    \cup [op : {"B"}, f : 0..(2^24 - 1)]
    \cup [op : {"MRS"}, rd : Regs]
    \cup [op : {"MSR"}]
    \cup [op : {"DP"}, rd : Regs, rn : Regs, op2 : Operand,
          kind : {"AND", "EOR", "SUB", "RSB", "ADD", "ORR", "MOV", "BIC", "MVN",
                  "ADC", "SBC", "RSC", "TST", "TEQ", "CMP", "CMN"}]
    \cup [op : {"LDM", "STM"}, base : Regs, list : SUBSET Regs,
          p : BOOLEAN, u : BOOLEAN, w : BOOLEAN, s : BOOLEAN]
    \cup [op : {"UNKNOWN"}]

Origin == SUBSET {"STACK", "MEMORY", "CONST", "ARITHMETIC"}

ASSUME ImageAssumption ==
  /\ \A p \in Images :
       /\ p.instrs["thumb"] \subseteq ThumbInstruction /\ p.instrs["arm"] \subseteq ArmInstruction
       /\ DOMAIN p.data \subseteq WordSet /\ \A a \in DOMAIN p.data : p.data[a] \in WordSet
       /\ p.regs \in [Regs -> WordSet]
  /\ \A g \in Garbage : g.v \in WordSet /\ g.o \in Origin

VARIABLES
  image,
  code,      \* the instructions read so far, by address
  mode,      \* the function that runs: UnwStartArm or UnwStartThumb
  regData,   \* value and origin of each register
  memData,   \* the hash
  t,         \* the instructions the function has left
  frames,    \* the addresses reported to the client
  result     \* of UnwindStart, once it returns

unwVars == << image, code, mode, regData, memData, t, frames, result >>

(* Origins are sets of flags; REG_VAL_INVALID has none.                    *)
FromStack == {"STACK"}
FromMemory == {"MEMORY"}
FromConst == {"CONST"}
Arithmetic == {"ARITHMETIC"}
Valid(o) == o \ Arithmetic # {}

Sp == regData[13].v
Pc == regData[15].v

UnwInvalidateRegisterFile(rs) == [r \in Regs |-> IF r < 13 THEN [rs[r] EXCEPT !.o = {}] ELSE rs[r]]

(* Register 14 is not among the registers that are invalidated.            *)
UnwInitState(pc, sp, g) ==
  /\ regData = [UnwInvalidateRegisterFile([r \in Regs |-> [v |-> g.v, o |-> g.o]])
                  EXCEPT ![13] = [v |-> sp, o |-> FromConst],
                         ![15] = [v |-> pc, o |-> FromConst]]
  /\ memData = EmptyHash

ModeOf(pc) == IF pc % 2 = 1 THEN "thumb" ELSE "arm"

UnwindStart ==
  /\ image \in Images
  /\ code = << >>
  /\ \E g \in Garbage : UnwInitState(image.regs[15], image.regs[13], g)
  /\ mode = ModeOf(image.regs[15])
  /\ t = MaxInstr
  /\ frames = << >>
  /\ result = "RUNNING"

----------------------------------------------------------------------------
(* Mutant of UnwMemReadRegister: a word in the hash is taken to be valid. *)
UnwMemReadRegisterUntracked(h, addr) ==
  LET e == UnwMemHashRead(h, addr)
  IN  IF e.found THEN [ok |-> TRUE, v |-> e.data, o |-> FromMemory]
      ELSE IF addr \in DOMAIN image.data
      THEN [ok |-> TRUE, v |-> image.data[addr], o |-> FromMemory]
      ELSE [ok |-> FALSE, v |-> 0, o |-> {}]

(* A word from the hash, or else from the process.                         *)
UnwMemReadRegister(h, addr) ==
  LET e == UnwMemHashRead(h, addr)
  IN  IF e.found
      THEN [ok |-> TRUE, v |-> e.data, o |-> IF e.tracked THEN FromMemory ELSE {}]
      ELSE IF addr \in DOMAIN image.data
      THEN [ok |-> TRUE, v |-> image.data[addr], o |-> FromMemory]
      ELSE [ok |-> FALSE, v |-> 0, o |-> {}]

UnwMemWriteRegister(h, addr, reg) == UnwMemHashWrite(h, addr, reg.v, Valid(reg.o))

(* A transfer of several registers can fail at each; what it has done so   *)
(* far is regs and hash.                                                   *)
Transferring == [regs |-> regData, hash |-> memData, ok |-> TRUE]

LoadRegister(m, r, addr, fromStack) ==
  LET x == UnwMemReadRegister(m.hash, addr)
      o == IF fromStack /\ Valid(x.o) THEN FromStack ELSE x.o
  IN  IF x.ok THEN [m EXCEPT !.regs[r] = [v |-> x.v, o |-> o]]
      ELSE [m EXCEPT !.ok = FALSE]

StoreRegister(m, r, addr) ==
  IF Full(m.hash, addr) THEN {[m EXCEPT !.ok = FALSE]}
  ELSE {[m EXCEPT !.hash = h] : h \in UnwMemWriteRegister(m.hash, addr, m.regs[r])}

(* All that a transfer may lead to.  It looks at the registers in the      *)
(* order of their numbers, up or down, and transfers those on the list.    *)
Transfers(start, Register(_, _), list, up) ==
  LET after[k \in 0..16] ==
        IF k = 0 THEN {start}
        ELSE LET r == IF up THEN k - 1 ELSE 16 - k
             IN  UNION {IF m.ok /\ r \in list THEN Register(m, r) ELSE {m} : m \in after[k - 1]}
  IN  after[16]

----------------------------------------------------------------------------
Running(m) == result = "RUNNING" /\ mode = m

(* The callbacks read what the memory of the process has.                  *)
Readable == 2 * (Pc \div 2) \in image.text

Aligned == IF mode = "thumb" THEN Pc % 2 = 1 ELSE Pc % 4 = 0

Interpretable == Readable /\ Aligned /\ Valid(regData[13].o) /\ Valid(regData[15].o)

(* UnwindStart returns; its registers and hash are gone.                   *)
Stop(r) == result' = r /\ UNCHANGED << mode, regData, memData, t >>

(* Before the instruction is looked at.                                    *)
CannotInterpret ==
  /\ result = "RUNNING"
  /\ \/ /\ ~Readable
        /\ Stop(IF mode = "thumb" THEN "IREAD_H_FAIL" ELSE "IREAD_W_FAIL")
     \/ /\ Readable
        /\ ~Interpretable
        /\ Stop("INCONSISTENT")
  /\ UNCHANGED << image, code, frames >>

(* The instruction at Pc.                                                  *)
Fetch(i) ==
  /\ Interpretable
  /\ i \in IF Pc \in DOMAIN code THEN {code[Pc]} ELSE image.instrs[mode]
  /\ code' = [a \in DOMAIN code \cup {Pc} |-> IF a = Pc THEN i ELSE code[a]]
  /\ UNCHANGED image

(* Mutant of EndOfLoop: the instructions are not counted. *)
EndOfLoopUncounted(rs, h) ==
  /\ UNCHANGED << mode, t >>
  /\ IF rs[15].v = 0
     THEN result' = "RESET" /\ UNCHANGED << regData, memData >>
     ELSE /\ regData' = [rs EXCEPT ![15].v = Word(@ + (IF mode = "thumb" THEN 2 ELSE 4))]
          /\ memData' = UnwMemHashGC(h, rs[13].v)
          /\ UNCHANGED result

(* The end of the loop, with the registers and hash of the instruction.    *)
EndOfLoop(rs, h) ==
  /\ UNCHANGED mode
  /\ IF rs[15].v = 0
     THEN Stop("RESET")
     ELSE /\ regData' = [rs EXCEPT ![15].v = Word(@ + (IF mode = "thumb" THEN 2 ELSE 4))]
          /\ memData' = UnwMemHashGC(h, rs[13].v)
          /\ t' = t - 1
          /\ result' = IF t = 1 THEN "EXHAUSTED" ELSE result

Continue(rs, h) == EndOfLoop(rs, h) /\ UNCHANGED frames

(* The other half takes over; it counts its instructions anew.             *)
Enter(m, rs, h) ==
  /\ mode' = m
  /\ regData' = rs
  /\ memData' = h
  /\ t' = MaxInstr
  /\ UNCHANGED result

(* Whether the client wants to go on after one more address.               *)
CliReport == Len(frames) + 1 < MaxFrames

(* Mutant of Report: the mode is lost. *)
ReportWithoutMode(addr) == frames' = Append(frames, 2 * (addr \div 2))

Report(addr) == frames' = Append(frames, addr)
=============================================================================
