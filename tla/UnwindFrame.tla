----------------------------- MODULE UnwindFrame -----------------------------
(***************************************************************************)
(* The unwinding of one stack frame: what get_eit_entry makes of an entry  *)
(* of the exception index table, the personality routine                   *)
(* (unwind_pr_common_with_ptrace, table-unwind-arm.c) and the interpreter  *)
(* of the unwinding instructions (unwind_execute_with_ptrace,              *)
(* table-pr-support.c).  Everything that is read lies in the memory of the *)
(* crashed process.  Stack addresses count words of four bytes.            *)
(***************************************************************************)
EXTENDS Integers, Sequences, FiniteSets

CONSTANTS
  Modulus,    \* the number of stack addresses, a power of two
  Ucb,        \* what ip is set to: the address of the control block
  Machines    \* bound: the entries, registers and stacks that are tried

SP == 13
LR == 14
PC == 15
Regs  == 0..15
Value == 0..(Modulus - 1)
Byte  == 0..255
CodeFinish == 176          \* 0xb0

(* What the prologue of a function is made of: registers are pushed, words *)
(* reserved on the stack, and the frame pointer is set.  Each step has the *)
(* instructions of the entry that undo it.  Before the first step, and     *)
(* after each, there are the registers, those that are known again once    *)
(* the steps that follow have been undone, and the number of the byte      *)
(* where the instructions for the steps before go on.                      *)
Instruction == [do : {"push"}, mask : SUBSET (Regs \ {SP, PC})]
                 \cup [do : {"sub"}, n : Nat]
                 \cup [do : {"mov"}, fp : Regs \ {SP, PC}]
Prologue == [steps : Seq([instr : Instruction, undo : Seq(Byte)]),
             states : Seq([regs : [Regs -> Value], known : SUBSET Regs, at : Nat])]

(* The entry that was found for the frame ("none" if there is none), the   *)
(* words from the header of its unwinding instructions on, the process's   *)
(* registers and stack, the registers its caller must get back, and the    *)
(* prologue that the function has executed since it was called.            *)
Entry   == [kind : {"none", "cantunwind", "inline", "table"}, words : Seq([1..4 -> Byte])]
Machine == [entry : Entry, regs : [Regs -> Value], stack : [Value -> Value],
            caller : [Regs -> Value], prologue : Prologue]

ASSUME UnwindAssumption == /\ Modulus \in Nat \ {0, 1}
                           /\ Ucb \in Value
                           /\ Machines \subseteq Machine

VARIABLES
  machine,     \* what the process's memory holds
  r,           \* vrs->core.r
  bytes,       \* uws.data and uws.bytes_left: what is left of the word
  wordsLeft,   \* uws.words_left
  next,        \* uws.next, counted from the header word
  setPc,       \* set_pc
  op,          \* the opcode whose operand comes next
  weight,      \* 1 << shift, in words
  pc,          \* what comes next
  result       \* the reason code of the frame

memory == << machine >>
uws    == << bytes, wordsLeft, next >>
vars == << machine, r, bytes, wordsLeft, next, setPc, op, weight, pc, result >>

Init ==
  /\ machine \in Machines
  /\ r = machine.regs
  /\ bytes = <<>>
  /\ wordsLeft = 0
  /\ next = 0
  /\ setPc = FALSE
  /\ op = 0
  /\ weight = 0
  /\ pc = "entry"
  /\ result = "none"

(* The words of the entry; one that cannot be read is all ones. *)
Words == machine.entry.words
Unreadable == [k \in 1..4 |-> 255]
WordAt(k) == IF k \in DOMAIN Words THEN Words[k] ELSE Unreadable

Kind   == machine.entry.kind
Header == WordAt(1)
Routine == Header[1] % 16      \* the index of the personality routine

(* The unwinding words after the header that the entry declares. *)
Declared == IF Routine = 0 THEN 0 ELSE Header[2]

Ends(code) ==
  /\ pc' = "done"
  /\ result' = code

----------------------------------------------------------------------------
(* get_eit_entry: no entry, or one that says that this is the last frame.  *)
NoEntry ==
  /\ pc = "entry"
  /\ Kind = "none"
  /\ Ends("failure")
  /\ UNCHANGED << memory, r, uws, setPc, op, weight >>

CantUnwind ==
  /\ pc = "entry"
  /\ Kind = "cantunwind"
  /\ Ends("end of stack")
  /\ UNCHANGED << memory, r, uws, setPc, op, weight >>

(* Its routine is the program's own, or unknown. *)
ForeignRoutine ==
  /\ pc = "entry"
  /\ Kind \in {"inline", "table"}
  /\ Header[1] < 128 \/ Routine > 2
  /\ Ends("failure")
  /\ UNCHANGED << memory, r, uws, setPc, op, weight >>

(* The personality routine takes the header word apart; ip has been made   *)
(* to point at the control block.  In a table, descriptors may follow the  *)
(* instructions, and it does not handle them.                              *)
StartRoutine ==
  /\ pc = "entry"
  /\ Kind \in {"inline", "table"}
  /\ Header[1] >= 128 /\ Routine <= 2
  /\ r' = [r EXCEPT ![12] = Ucb]
  /\ wordsLeft' = Declared
  /\ bytes' = SubSeq(Header, IF Routine = 0 THEN 2 ELSE 3, 4)
  /\ next' = 2
  /\ IF Kind = "table" /\ \E k \in 1..4 : WordAt(Declared + 2)[k] # 0
     THEN Ends("failure")
     ELSE pc' = "op" /\ UNCHANGED result
  /\ UNCHANGED << memory, setPc, op, weight >>

----------------------------------------------------------------------------
(* Mutant of NextByte: no CODE_FINISH at the end of the data. *)
NextByteUnfinished ==
  IF bytes # <<>> THEN Head(bytes)
  ELSE IF wordsLeft = 0 THEN 0
  ELSE WordAt(next)[1]

(* next_unwind_byte: a byte of the word, of the next word, or CODE_FINISH  *)
(* when no data is left.                                                   *)
NextByte ==
  IF bytes # <<>> THEN Head(bytes)
  ELSE IF wordsLeft = 0 THEN CodeFinish
  ELSE WordAt(next)[1]

(* Mutant of TakeByte: the word is not counted. *)
TakeByteUncounted ==
  IF bytes = <<>> /\ wordsLeft > 0
  THEN /\ bytes' = SubSeq(WordAt(next), 2, 4)
       /\ next' = next + 1
       /\ UNCHANGED wordsLeft
  ELSE /\ bytes' = IF bytes = <<>> THEN bytes ELSE Tail(bytes)
       /\ UNCHANGED << wordsLeft, next >>

TakeByte ==
  IF bytes = <<>> /\ wordsLeft > 0
  THEN /\ bytes' = SubSeq(WordAt(next), 2, 4)
       /\ wordsLeft' = wordsLeft - 1
       /\ next' = next + 1
  ELSE /\ bytes' = IF bytes = <<>> THEN bytes ELSE Tail(bytes)
       /\ UNCHANGED << wordsLeft, next >>

Bits(b) == {j \in 0..15 : (b \div 2^j) % 2 = 1}

(* unwind_VRS_Pop of core registers: the lowest register from the lowest   *)
(* address, and the stack pointer after them unless it was popped itself.  *)
Popped(mask) ==
  LET from(j) == (r[SP] + Cardinality({k \in mask : k < j})) % Modulus
  IN  [j \in Regs |->
         IF j \in mask THEN machine.stack[from(j)]
         ELSE IF j = SP THEN (r[SP] + Cardinality(mask)) % Modulus
         ELSE r[j]]

Opcode(range) == pc = "op" /\ NextByte \in range /\ TakeByte

(* The end of the instructions: pc is lr unless it was popped. *)
Finish ==
  /\ Opcode({CodeFinish})
  /\ r' = IF setPc THEN r ELSE [r EXCEPT ![PC] = r[LR]]
  /\ setPc' = TRUE
  /\ Ends("continue")
  /\ UNCHANGED << memory, op, weight >>

(* vsp = vsp +- (imm6 << 2 + 4) *)
MoveSP ==
  /\ Opcode(0..127)
  /\ LET words == (NextByte % 64) + 1
     IN  r' = [r EXCEPT ![SP] = (IF NextByte < 64 THEN @ + words ELSE @ - words) % Modulus]
  /\ UNCHANGED << memory, setPc, op, weight, pc, result >>

(* vsp = r[nnnn] *)
LoadSP ==
  /\ Opcode(144..159)
  /\ IF NextByte \in {157, 159}
     THEN Ends("failure") /\ UNCHANGED r
     ELSE r' = [r EXCEPT ![SP] = r[NextByte - 144]] /\ UNCHANGED << pc, result >>
  /\ UNCHANGED << memory, setPc, op, weight >>

(* Mutant of PopRange: one register too few. *)
PopRangeShort ==
  /\ Opcode(160..175)
  /\ LET n == NextByte % 8
     IN  r' = Popped(4..(3 + n) \cup (IF NextByte >= 168 THEN {LR} ELSE {}))
  /\ UNCHANGED << memory, setPc, op, weight, pc, result >>

(* Pop r4-r[4+nnn], [lr] *)
PopRange ==
  /\ Opcode(160..175)
  /\ LET n == NextByte % 8
     IN  r' = Popped(4..(4 + n) \cup (IF NextByte >= 168 THEN {LR} ELSE {}))
  /\ UNCHANGED << memory, setPc, op, weight, pc, result >>

(* An opcode with an operand: a mask of r4-r15, one of r0-r3, or a ULEB128. *)
TakeOpcode ==
  /\ Opcode(128..143 \cup {177, 178})
  /\ op' = NextByte
  /\ pc' = IF NextByte < 144 THEN "mask" ELSE IF NextByte = 177 THEN "low" ELSE "uleb"
  /\ weight' = 1
  /\ UNCHANGED << memory, r, setPc, result >>

(* Registers other than the core ones, which unwind_VRS_Pop does not       *)
(* handle, and spare opcodes.                                              *)
Unhandled ==
  /\ Opcode(179..255)
  /\ Ends("failure")
  /\ UNCHANGED << memory, r, setPc, op, weight >>

(* Pop r4-r15 under mask; an empty mask refuses to unwind. *)
PopMask ==
  /\ pc = "mask"
  /\ TakeByte
  /\ LET mask == {j + 4 : j \in Bits((op % 16) * 256 + NextByte)}
     IN  IF mask = {}
         THEN Ends("failure") /\ UNCHANGED << r, setPc >>
         ELSE /\ r' = Popped(mask)
              /\ setPc' = (setPc \/ PC \in mask)
              /\ pc' = "op"
              /\ UNCHANGED result
  /\ UNCHANGED << memory, op, weight >>

(* Pop r0-r3 under mask *)
PopLow ==
  /\ pc = "low"
  /\ TakeByte
  /\ IF NextByte = 0 \/ NextByte >= 16
     THEN Ends("failure") /\ UNCHANGED r
     ELSE r' = Popped(Bits(NextByte)) /\ pc' = "op" /\ UNCHANGED result
  /\ UNCHANGED << memory, setPc, op, weight >>

(* vsp = vsp + 0x204 + (uleb128 << 2): a byte of seven bits at a time.     *)
(* Once its bits are shifted out of the word, a byte adds nothing.         *)
AddUleb ==
  /\ pc = "uleb"
  /\ TakeByte
  /\ LET last == NextByte < 128
     IN  /\ r' = [r EXCEPT ![SP] = (@ + (NextByte % 128) * weight
                                      + (IF last THEN 129 ELSE 0)) % Modulus]
         /\ weight' = (weight * 128) % Modulus
         /\ pc' = IF last THEN "op" ELSE "uleb"
  /\ UNCHANGED << memory, setPc, op, result >>

Next ==
  \/ NoEntry \/ CantUnwind \/ ForeignRoutine \/ StartRoutine
  \/ Finish \/ MoveSP \/ LoadSP \/ PopRange \/ TakeOpcode \/ Unhandled
  \/ PopMask \/ PopLow \/ AddUleb

Spec == Init /\ [][Next]_vars /\ WF_vars(Next)

----------------------------------------------------------------------------
(***************************************************************************)
(* Properties.                                                             *)
(***************************************************************************)

(* Every variable has its type. *)
TypeOK ==
  /\ machine \in Machine
  /\ r \in [Regs -> Value]
  /\ bytes \in Seq(Byte) /\ Len(bytes) <= 3
  /\ {wordsLeft, next} \subseteq Nat
  /\ setPc \in BOOLEAN
  /\ op \in Byte
  /\ weight \in Value
  /\ pc \in {"entry", "op", "mask", "low", "uleb", "done"}
  /\ result \in {"none", "continue", "failure", "end of stack"}

(* The interpreter never takes a word for instructions that the header     *)
(* does not count among them, whatever operands are cut off at the end.    *)
ReadsDeclaredWords ==
  pc \notin {"entry"} /\ next > 0 => next + wordsLeft = Declared + 2

(* An instruction of a prologue, executed on registers s. *)
After(s, i) ==
  CASE i.do = "push" -> [s EXCEPT ![SP] = (@ - Cardinality(i.mask)) % Modulus]
    [] i.do = "sub"  -> [s EXCEPT ![SP] = (@ - i.n) % Modulus]
    [] i.do = "mov"  -> [s EXCEPT ![i.fp] = s[SP]]

(* The instructions that the ABI has for undoing it: pop registers, move   *)
(* the stack pointer by up to 64 words or a ULEB128 of one or two bytes,   *)
(* set it from a register.                                                 *)
Undoes(u, i) ==
  CASE i.do = "push" ->
         \/ /\ Len(u) = 1 /\ u[1] \in 160..175
            /\ i.mask = 4..(4 + (u[1] % 8)) \cup (IF u[1] >= 168 THEN {LR} ELSE {})
         \/ /\ Len(u) = 2 /\ u[1] \in 128..143 /\ i.mask # {}
            /\ i.mask = {j + 4 : j \in Bits((u[1] % 16) * 256 + u[2])}
         \/ Len(u) = 2 /\ u[1] = 177 /\ u[2] \in 1..15 /\ i.mask = Bits(u[2])
    [] i.do = "sub" ->
         \/ Len(u) = 1 /\ u[1] < 64 /\ i.n = u[1] + 1
         \/ Len(u) = 2 /\ u[1] = 178 /\ u[2] < 128 /\ i.n = 129 + u[2]
         \/ /\ Len(u) = 3 /\ u[1] = 178 /\ u[2] >= 128 /\ u[3] < 128
            /\ i.n = 129 + (u[2] - 128) + 128 * u[3]
    [] i.do = "mov" -> Len(u) = 1 /\ u[1] = 144 + i.fp

(* The bytes of the instructions, numbered from the header's first byte on. *)
LastByte == 4 * (Declared + 1)
CodeAt(a) == IF a > LastByte THEN CodeFinish ELSE WordAt(((a - 1) \div 4) + 1)[((a - 1) % 4) + 1]

(* What is known before an instruction, if the given registers are known   *)
(* after it and it is undone.                                              *)
Recovered(known, i) ==
  CASE i.do = "push" -> known \cup i.mask
    [] i.do = "sub"  -> known
    [] i.do = "mov"  -> (known \ {i.fp}) \cup {SP}

(* The stack holds what was pushed by an instruction on registers before. *)
Saved(before, i) ==
  LET bottom == After(before, i)[SP]
  IN  \A j \in i.mask :
        machine.stack[(bottom + Cardinality({k \in i.mask : k < j})) % Modulus] = before[j]

(* The entry describes a step of the prologue: the bytes that undo it are  *)
(* where those that undo the later steps end, the stack pointer is set     *)
(* from a register that is known, and what is popped from a stack pointer  *)
(* that is known is there.                                                 *)
DescribedStep(k) ==
  LET i == machine.prologue.steps[k].instr
      u == machine.prologue.steps[k].undo
      before == machine.prologue.states[k]
      after == machine.prologue.states[k + 1]
  IN  /\ after.regs = After(before.regs, i)
      /\ before.known = Recovered(after.known, i)
      /\ before.at = after.at + Len(u)
      /\ Undoes(u, i)
      /\ \A b \in 1..Len(u) : after.at + b - 1 <= LastByte /\ CodeAt(after.at + b - 1) = u[b]
      /\ i.do = "mov" => i.fp \in after.known
      /\ i.do = "push" => SP \in after.known /\ Saved(before.regs, i)

(* The entry describes the prologue that was executed, from the caller's   *)
(* registers on, and after all steps are undone nothing that the caller    *)
(* counts on is missing.  What is not known at the end of the prologue may *)
(* have been used for anything since.                                      *)
CalleeSaved == 4..11
Described ==
  LET n == Len(machine.prologue.steps)
      called == machine.prologue.states[1]
      body == machine.prologue.states[n + 1]
  IN  /\ Kind \in {"inline", "table"} /\ Header[1] >= 128 /\ Routine <= 2
      /\ Kind = "table" => \A k \in 1..4 : WordAt(Declared + 2)[k] = 0
      /\ Len(machine.prologue.states) = n + 1
      /\ called.regs = machine.caller /\ machine.caller[LR] = machine.caller[PC]
      /\ CodeAt(called.at) = CodeFinish /\ CalleeSaved \cup {SP, LR} \subseteq called.known
      /\ \A k \in 1..n : DescribedStep(k)
      /\ body.at = (IF Routine = 0 THEN 2 ELSE 3)
      /\ \A j \in body.known : j # 12 /\ machine.regs[j] = body.regs[j]

(* Unwinding a frame undoes the prologue of its function: the caller gets  *)
(* back its stack pointer and the registers it counts on, and goes on at   *)
(* the return address.                                                     *)
RestoresCaller ==
  pc = "done" /\ Described =>
    /\ result = "continue"
    /\ r[SP] = machine.caller[SP]
    /\ r[PC] = machine.caller[PC]
    /\ \A j \in CalleeSaved : r[j] = machine.caller[j]

(* The unwinding of a frame ends, with the caller's registers or with a    *)
(* reason to stop: the loop over the frames, whose comment promises that   *)
(* it terminates, has no other protection against a frame that does not.   *)
FrameEnds == <>(pc = "done")
=============================================================================
