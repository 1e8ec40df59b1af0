---------------------------- MODULE Unwarminder ----------------------------
(***************************************************************************)
(* The McTernan unwinder at work (src/mcternan-unwinder): its two halves,  *)
(* and beside them the processor that executes the same instructions.      *)
(***************************************************************************)
EXTENDS UnwarmThumb, UnwarmArm, ArmMachine

(* What has happened of which it is known that the unwinder gets it wrong: *)
(* garbage was taken for valid at the start, Misread, Overran, Lost or     *)
(* Stale.                                                                  *)
VARIABLE misled

vars == << unwVars, real, mem, misled >>

Init ==
  /\ UnwindStart
  /\ real = image.regs
  /\ mem = image.data
  /\ misled = IF Valid(regData[14].o) THEN {"garbage"} ELSE {}

(* The instructions whose interpretation differs from what the processor   *)
(* does.                                                                   *)
Tracked(r) == Valid(regData[r].o)

Misread(i) ==
  \/ i.op = "SHIFT" /\ i.kind = "ASR"
  \/ i.op = "SHIFT" /\ i.kind = "LSR" /\ i.n = 0
  \/ i.op = "ADDSUB" /\ ~Tracked(i.rn)
  \/ i.op = "IMM8" /\ i.kind = "SUB"
  \/ i.op = "ALU" /\ i.kind \in {"BIC", "MVN", "ROR", "ASR"}
  \/ i.op = "ALU" /\ i.kind \notin Comparing \cup Carrying \cup {"NEG"} /\ ~Tracked(i.rd)
  \/ i.op = "HI" /\ i.kind = "ADD" /\ (~Tracked(i.rd) \/ 15 \in {i.rd, i.rs})
  \/ i.op = "HI" /\ i.kind = "MOV" /\ Tracked(i.rd)
  \/ i.op = "BX" /\ i.rs = 15
  \/ i.op = "ADDSP" /\ 4 * i.n > 255
  \/ ~IsDataProcessing(i)
  \/ i.op = "DP" /\ i.rd = 15
  \/ i.op = "DP" /\ i.op2.type \in {"reg", "regshift"} /\ i.op2.rm = 15
  \/ i.op = "DP" /\ i.op2.type = "regshift" /\ i.op2.shift = "ASR" /\ regData[i.op2.rs].v > 255
  \/ i.op = "LDM" /\ i.w /\ i.base \in i.list
  \/ i.op = "STM"
  \/ i.op = "UNKNOWN" /\ Tracked(14)

(* The cell after the last one was written.                                *)
Overran(h) == Overrun \in h.used

(* A word in the hash cannot be found: a cell before its own was freed.    *)
Lost(h) == \E c \in h.used : memHashIndex(h, h.a[c]) \notin h.used

(* The ARM half hands its hash over to the Thumb half with words in it     *)
(* that the processor has popped.                                          *)
Stale(h, sp) == \E c \in h.used \ {Overrun} : h.a[c] < sp

Interpret(i) ==
  /\ UnwStartThumb(i) \/ UnwStartArm(i)
  /\ Execute(i, image.data)
  /\ misled' = misled \cup (IF Misread(i) THEN {"misread"} ELSE {})
                     \cup (IF Overran(memData') THEN {"overran"} ELSE {})
                     \cup (IF Lost(memData') THEN {"lost"} ELSE {})
                     \cup (IF Stale(memData', regData'[13].v) THEN {"stale"} ELSE {})

GiveUp == CannotInterpret /\ UNCHANGED << real, mem, misled >>

Next ==
  \/ \E i \in image.instrs[mode] : Interpret(i)
  \/ GiveUp

Spec == Init /\ [][Next]_vars /\ WF_vars(Next)

----------------------------------------------------------------------------
(***************************************************************************)
(* Properties.                                                             *)
(***************************************************************************)

(* As long as it is not misled, the unwinder knows what it says it knows:  *)
(* a register it tracks has the processor's value, and as long as it       *)
(* tracks register 15 the half that runs is the one for the processor.     *)
TrackedIsTrue ==
  result = "RUNNING" /\ misled = {} =>
    /\ \A r \in Regs : Tracked(r) => regData[r].v = real[r]
    /\ Tracked(15) => mode = ModeOf(real[15])

(* As long as it is not misled, a word of the stack is read as the one the *)
(* processor would read, whether it comes from the hash or from the        *)
(* process, or else as unknown.                                            *)
StackIsTrue ==
  result = "RUNNING" /\ misled = {} /\ Tracked(13) =>
    \A a \in DOMAIN mem \cup {memData.a[c] : c \in memData.used} :
      a >= Sp => LET x == UnwMemReadRegister(memData, a)
                 IN  x.ok /\ Valid(x.o) => x.v = Load(a)

(* The garbage collection (unwarmmem.c:166-175) frees no cell in the middle *)
(* of a chain of probes: the words below the stack pointer are those that   *)
(* were stored last.  So a word that is stored is found by its address,     *)
(* until the hash overran or was handed over stale.                         *)
StoredWordsAreFound ==
  misled \cap {"overran", "stale"} = {} =>
    \A c \in memData.used : UnwMemHashRead(memData, memData.a[c]).found

(* The client's array has room for an address that is reported, and unless *)
(* the unwinder is misled the processor goes to that address.              *)
ReportsAreReturns ==
  [][frames' # frames =>
       /\ Len(frames') <= MaxFrames
       /\ misled' = {} => Last(frames') = real'[15]]_vars

(* Every step comes nearer to the end: it reports one more address, or     *)
(* leaves the ARM half for the Thumb half, which cannot return without a   *)
(* report, or is one of the instructions that are counted.                 *)
ComesNearer ==
  [][\/ result' # "RUNNING"
     \/ Len(frames') > Len(frames)
     \/ frames' = frames /\ mode = "arm" /\ mode' = "thumb"
     \/ frames' = frames /\ mode' = mode /\ t' < t]_vars

(* Unwinding ends, whatever the code does: UNW_MAX_INSTR_COUNT bounds what *)
(* one half interprets, and the client the returns from the Thumb half.    *)
UnwindEnds == <>(result # "RUNNING")

(* What the comments of the code say, and the code does not keep to. *)

(* All general purpose registers are invalidated at the start              *)
(* (unwarm.c:71): what register 14 happened to hold does not count, and as *)
(* long as nothing else misleads the unwinder its reports are returns.     *)
ReportsAreReturnsFromAnyStart ==
  [][frames' # frames /\ misled' \subseteq {"garbage"} => Last(frames') = real'[15]]_vars

(* An instruction is what the comment on its branch says, as for ADD sp    *)
(* (unwarm_thumb.c:535-538): as long as only the interpretation of single  *)
(* instructions could mislead the unwinder, the registers that it tracks   *)
(* have the processor's values.                                            *)
InstructionsAreFollowed ==
  result = "RUNNING" /\ misled \subseteq {"misread"} =>
    \A r \in Regs : Tracked(r) => regData[r].v = real[r]

(* A search of the hash gives the index where the word is stored, or else  *)
(* -1 (unwarmmem.c:57-58): the arrays have a cell for every word that was  *)
(* stored.                                                                 *)
WordsAreStoredInCells ==
  result = "RUNNING" => memData.used \subseteq 0..(HashSize - 1)

(* The hash is used for the stack only, and the garbage collection keeps   *)
(* it so (unwarm_arm.c:686): as long as nothing else misleads the          *)
(* unwinder, a word above the stack pointer is the processor's.            *)
HashIsOfTheStack ==
  result = "RUNNING" /\ misled \subseteq {"stale"} /\ Tracked(13) =>
    \A c \in memData.used \cap memData.tracked :
      memData.a[c] >= Sp => UnwMemHashRead(memData, memData.a[c]).data = Load(memData.a[c])
=============================================================================
