------------------------------ MODULE CallStack ------------------------------
(***************************************************************************)
(* dump_crash_report (crash_handler.c): the call stack by the table        *)
(* unwinder (table_unwind_backtrace_with_ptrace, log_function) and by the  *)
(* best-guess unwinder (guess-unwinder.c), and the dump of the code and of *)
(* the stack (dump_pc_and_lr, dump_stack_and_code).  Addresses count words *)
(* of four bytes and wrap, as unsigned ints do.  The process may vanish at *)
(* any step: no ptrace() succeeds from then on.                            *)
(***************************************************************************)
EXTENDS Integers, FiniteSets

CONSTANTS
  Modulus,    \* the number of addresses
  Depth,      \* STACK_CONTENT_DEPTH
  Builds,     \* the settings of USE_TABLE_UNWINDER and USE_GUESS_UNWINDER
  Below,      \* 64 bytes: where the stack dump starts below sp, and its tail
  Page,       \* 256 bytes: what is dumped if no frame was found
  Line,       \* 16 bytes: a line of the code dump
  Processes,  \* bound: the registers and mappings of the crashed process
  Callers,    \* bound: levels with a frame's sp and the sp its unwinding yields
  MayVanish   \* bound: may the process vanish

Value == 0..(Modulus - 1)
Garbage == -1    \* the int that a return without a value leaves

Build == [table : BOOLEAN, guess : BOOLEAN]

(* sp, pc and lr; whether get_eitp finds an entry for pc; whether lr is    *)
(* after a branch-and-link; the end of [stack]; the words of memory that   *)
(* is_ARM_return_address takes for return addresses; whether the frames    *)
(* lie one above the other, as calls leave them.                           *)
Process == [sp : Value, pc : Value, lr : Value, entry : BOOLEAN, call : BOOLEAN,
            high : Value, returns : SUBSET Value, orderly : BOOLEAN]

ASSUME StackAssumption ==
  /\ Modulus \in Nat \ {0} /\ Depth \in Nat /\ Depth >= 3
  /\ {Below, Page, Line} \subseteq Nat \ {0}
  /\ MayVanish \in BOOLEAN
  /\ Builds \subseteq {b \in Build : b.table \/ b.guess}
  /\ Processes \subseteq Process
  /\ Callers \subseteq (0..(Depth - 1)) \X Value \X Value

VARIABLES
  build,      \* the settings the program was built with
  proc,       \* the crashed process
  alive,      \* does ptrace() reach it
  spList,     \* sp_list
  depth,      \* the result of the unwinders: stack_level, frame_no, stack_depth
  sane,       \* frame0_pc_sane
  sp,         \* vrs.core.r[R_SP], or the sp of the best-guess scan
  left,       \* how many words the scan has left
  p, end,     \* the position and the end of a dump
  spDepth,    \* sp_depth
  pc,         \* what comes next
  frames,     \* history: the sp of every frame the table unwinder logged
  dumped,     \* history: the addresses that were dumped
  labels      \* history: the addresses that were given a frame's number

history == << frames, dumped, labels >>
lists   == << spList, depth, sane >>
vars == << build, proc, alive, spList, depth, sane, sp, left, p, end, spDepth, pc,
           frames, dumped, labels >>

Indexes == 0..(Depth - 1)
ZeroList == [k \in Indexes |-> 0]

Init ==
  /\ build \in Builds
  /\ proc \in Processes
  /\ alive = TRUE
  /\ spList = ZeroList
  /\ depth = 0
  /\ sane = TRUE
  /\ sp = 0
  /\ left = 0
  /\ p = 0
  /\ end = 0
  /\ spDepth = 0
  /\ pc = IF build.table THEN "table" ELSE "guess"
  /\ frames = {}
  /\ dumped = {}
  /\ labels = {}

Vanish ==
  /\ MayVanish
  /\ alive
  /\ alive' = FALSE
  /\ UNCHANGED << build, proc, lists, sp, left, p, end, spDepth, pc, history >>

----------------------------------------------------------------------------
(* The table unwinder.  log_function records the frame's sp.               *)
LogFunction(list, level, at) ==
  /\ spList' = IF level < Depth THEN [list EXCEPT ![level] = at] ELSE list
  /\ frames' = frames \cup {at}

AfterTable == IF build.guess THEN "guess" ELSE "few"

(* It gives up without registers; without an entry for pc, it logs a frame *)
(* of its own for it and goes on at lr.                                    *)
TableStart ==
  /\ pc = "table"
  /\ sp' = IF alive THEN proc.sp ELSE sp
  /\ \/ /\ ~alive
        /\ pc' = AfterTable
        /\ depth' = 0
        /\ UNCHANGED << spList, sane, frames >>
     \/ /\ alive /\ proc.entry
        /\ pc' = "frame"
        /\ depth' = 0
        /\ UNCHANGED << spList, sane, frames >>
     \/ /\ alive /\ ~proc.entry
        /\ pc' = "frame"
        /\ depth' = 1
        /\ sane' = FALSE
        /\ LogFunction(spList, 0, proc.sp)
  /\ UNCHANGED << build, proc, alive, left, p, end, spDepth, dumped, labels >>

(* The next frame has no usable entry. *)
NoFrame ==
  /\ pc = "frame"
  /\ pc' = AfterTable
  /\ UNCHANGED << build, proc, alive, lists, sp, left, p, end, spDepth, history >>

(* The caller's frame is above the frame, or, since a function that calls  *)
(* another saves lr on the stack, at the same place for the first one.    *)
Orderly(c) == c[2] < c[3] \/ (c[1] = 0 /\ c[2] = c[3])

(* Mutant of Frame: one frame too many. *)
FrameBeyond ==
  /\ pc = "frame"
  /\ alive
  /\ LogFunction(spList, depth, sp)
  /\ depth' = depth + 1
  /\ \/ pc' = AfterTable /\ UNCHANGED sp
     \/ \E c \in Callers : /\ c[1] = depth /\ c[2] = sp
                           /\ proc.orderly => Orderly(c)
                           /\ sp' = c[3]
                           /\ pc' = IF depth + 1 <= Depth THEN "frame" ELSE AfterTable
  /\ UNCHANGED << build, proc, alive, sane, left, p, end, spDepth, dumped, labels >>

(* It has one and is logged; unwinding it fails or gives the caller's sp,  *)
(* and the loop goes on up to Depth frames.                                *)
Frame ==
  /\ pc = "frame"
  /\ alive
  /\ LogFunction(spList, depth, sp)
  /\ depth' = depth + 1
  /\ \/ pc' = AfterTable /\ UNCHANGED sp
     \/ \E c \in Callers : /\ c[1] = depth /\ c[2] = sp
                           /\ proc.orderly => Orderly(c)
                           /\ sp' = c[3]
                           /\ pc' = IF depth + 1 < Depth THEN "frame" ELSE AfterTable
  /\ UNCHANGED << build, proc, alive, sane, left, p, end, spDepth, dumped, labels >>

----------------------------------------------------------------------------
(* The best-guess unwinder, after sp_list was cleared.  Without registers  *)
(* it returns no value; if lr is not after a call, no frame.               *)
GuessStart ==
  /\ pc = "guess"
  /\ spList' = ZeroList
  /\ sp' = IF alive THEN proc.sp ELSE sp
  /\ left' = IF alive THEN (proc.high - proc.sp) % Modulus ELSE left
  /\ depth' = IF alive THEN 0 ELSE Garbage
  /\ pc' = IF alive /\ proc.call THEN "scan" ELSE "few"
  /\ UNCHANGED << build, proc, alive, sane, p, end, spDepth, history >>

(* Every word from sp on that looks like a return address is a frame. *)
Scan ==
  /\ pc = "scan"
  /\ left > 0
  /\ depth' = IF alive /\ sp \in proc.returns THEN depth + 1 ELSE depth
  /\ sp' = (sp + 1) % Modulus
  /\ left' = left - 1
  /\ UNCHANGED << build, proc, alive, spList, sane, p, end, spDepth, pc, history >>

ScanEnds ==
  /\ pc = "scan"
  /\ left = 0
  /\ pc' = "few"
  /\ UNCHANGED << build, proc, alive, lists, sp, left, p, end, spDepth, history >>

----------------------------------------------------------------------------
(* dump_pc_and_lr for fewer than two frames changes nothing; then          *)
(* dump_stack_and_code needs the registers.                                *)
NoRegisters ==
  /\ pc = "few"
  /\ ~alive
  /\ pc' = "done"
  /\ UNCHANGED << build, proc, alive, lists, sp, left, p, end, spDepth, history >>

(* Mutant of CodeStart: signed positions. *)
CodeStartSigned ==
  /\ pc = "few"
  /\ alive
  /\ end' = IF sane THEN proc.pc ELSE proc.lr
  /\ p' = end' - Line
  /\ pc' = "code"
  /\ UNCHANGED << build, proc, alive, lists, sp, left, spDepth, history >>

(* The code around pc, or around lr if pc made no sense. *)
CodeStart ==
  /\ pc = "few"
  /\ alive
  /\ end' = IF sane THEN proc.pc ELSE proc.lr
  /\ p' = (end' - Line) % Modulus
  /\ pc' = "code"
  /\ UNCHANGED << build, proc, alive, lists, sp, left, spDepth, history >>

(* Mutant of CodeLine: words that cannot be read are not passed over. *)
CodeLineStays ==
  /\ pc = "code"
  /\ p <= end
  /\ p' = IF alive THEN (p + Line) % Modulus ELSE p
  /\ UNCHANGED << build, proc, alive, lists, sp, left, end, spDepth, pc, history >>

CodeLine ==
  /\ pc = "code"
  /\ p <= end
  /\ p' = (p + Line) % Modulus
  /\ UNCHANGED << build, proc, alive, lists, sp, left, end, spDepth, pc, history >>

(* The end of the stack dump, without and with frames. *)
PageEnd == ((proc.sp \div Page) * Page + 2 * Page - 1) % Modulus
LastSp == spList[IF depth < Depth THEN depth - 1 ELSE Depth - 1]

(* Mutant of StackStart: no care is taken of a frame that shares its sp. *)
StackStartPlain ==
  /\ pc = "code"
  /\ p > end
  /\ p' = (proc.sp - Below) % Modulus
  /\ end' = IF depth = 0 THEN PageEnd ELSE LastSp
  /\ spDepth' = 0
  /\ pc' = "stack"
  /\ UNCHANGED << build, proc, alive, lists, sp, left, history >>

StackStart ==
  /\ pc = "code"
  /\ p > end
  /\ p' = (proc.sp - Below) % Modulus
  /\ end' = IF depth = 0 THEN PageEnd ELSE LastSp
  /\ spDepth' = IF spList[0] = spList[1] THEN 1 ELSE 0
  /\ pc' = "stack"
  /\ UNCHANGED << build, proc, alive, lists, sp, left, history >>

(* A word of the stack, with the number of the frame that starts there.    *)
(* Beyond the list, spDepth is kept at Depth: what is compared there is no *)
(* frame's stack pointer.                                                  *)
Numbered == spDepth < Depth /\ p = spList[spDepth]

StackWord ==
  /\ pc = "stack"
  /\ p <= end
  /\ dumped' = dumped \cup {p}
  /\ labels' = IF Numbered THEN labels \cup {p} ELSE labels
  /\ spDepth' = IF Numbered THEN spDepth + 1 ELSE spDepth
  /\ p' = (p + 1) % Modulus
  /\ UNCHANGED << build, proc, alive, lists, sp, left, end, pc, frames >>

TailStart ==
  /\ pc = "stack"
  /\ p > end
  /\ end' = (p + Below) % Modulus
  /\ pc' = "tail"
  /\ UNCHANGED << build, proc, alive, lists, sp, left, p, spDepth, history >>

TailWord ==
  /\ pc = "tail"
  /\ p <= end
  /\ dumped' = dumped \cup {p}
  /\ p' = (p + 1) % Modulus
  /\ UNCHANGED << build, proc, alive, lists, sp, left, end, spDepth, pc, frames, labels >>

DumpDone ==
  /\ pc = "tail"
  /\ p > end
  /\ pc' = "done"
  /\ UNCHANGED << build, proc, alive, lists, sp, left, p, end, spDepth, history >>

Step ==
  \/ TableStart \/ NoFrame \/ Frame
  \/ GuessStart \/ Scan \/ ScanEnds
  \/ NoRegisters \/ CodeStart \/ CodeLine
  \/ StackStart \/ StackWord \/ TailStart \/ TailWord \/ DumpDone

Next == Step \/ Vanish

(* The handler runs whenever it can. *)
Spec == Init /\ [][Next]_vars /\ WF_vars(Step)

----------------------------------------------------------------------------
(***************************************************************************)
(* Properties.                                                             *)
(***************************************************************************)

(* Every variable has its type. *)
TypeOK ==
  /\ build \in Build
  /\ proc \in Process
  /\ {alive, sane} \subseteq BOOLEAN
  /\ spList \in [Indexes -> Value]
  /\ depth \in Nat \cup {Garbage}
  /\ {sp, p, end} \subseteq Value
  /\ {left, spDepth} \subseteq Nat
  /\ pc \in {"table", "frame", "guess", "scan", "few", "code", "stack", "tail", "done"}
  /\ frames \cup dumped \cup labels \subseteq Value

(* A dump that comes to the last word, or line, of the address space wraps *)
(* and starts anew: its position is never beyond its end.                  *)
GoesRound ==
  \/ pc = "code" /\ end + Line >= Modulus
  \/ pc \in {"stack", "tail"} /\ end = Modulus - 1

(* sp_list is never read or written outside its bounds: the frame numbers  *)
(* stay below Depth, unless the dump goes round, and the value that is     *)
(* missing when the registers are gone is never used, though the process   *)
(* may vanish between any two looks at it.                                 *)
ListIndexesInBounds ==
  /\ pc = "frame" => depth \in Indexes
  /\ pc \in {"code", "stack", "tail"} => depth # Garbage
  /\ pc = "stack" /\ p <= end /\ ~GoesRound => spDepth \in Indexes

(* The stack dump shows the stack up to the last frame that was found. *)
DumpReachesFrames ==
  pc = "done" /\ alive => frames \subseteq dumped

(* With the table unwinder alone, and frames that lie one above the other, *)
(* it does, and marks every frame with its number, if the position 64      *)
(* bytes below the stack pointer does not wrap.                            *)
FramesAreLabelled ==
  pc = "done" /\ alive /\ ~build.guess /\ proc.orderly /\ proc.sp >= Below =>
    frames \subseteq dumped /\ frames \subseteq labels

(* The dumps end, unless one goes round. *)
DumpEnds == <>(pc = "done" \/ GoesRound)

(* The manual: "Each crash report is less than about 12K".  One that does  *)
(* not end is not.                                                         *)
ReportEnds == <>(pc = "done")
=============================================================================
