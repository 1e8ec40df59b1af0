--------------------------- MODULE CallStackProofs ---------------------------
(***************************************************************************)
(* Proofs about CallStack for every depth of the list, every size of the   *)
(* address space, any registers, stacks and unwinding results, and a       *)
(* process that may vanish at any time.                                    *)
(***************************************************************************)
EXTENDS CallStack, TLAPS

(* Beyond the frames that were found the list is clear. *)
ClearBeyond == \A k \in Indexes : k >= depth => spList[k] = 0

(* What the unwinders leave in the list. *)
ListInv ==
  /\ depth = Garbage => ~alive /\ pc \in {"few", "done"}
  /\ pc = "table" => ClearBeyond /\ depth = 0
  /\ pc = "frame" => depth \in Indexes /\ ClearBeyond
  /\ pc \in {"scan", "few", "code", "stack"} /\ depth # Garbage => ClearBeyond

(* If the stack dump does not go round, the number it looks for runs ahead *)
(* of the frames by one frame that shares its stack pointer, and by the    *)
(* first clear element if the dump starts at address 0.                    *)
DumpInv ==
  pc = "stack" /\ end < Modulus - 1 =>
    /\ depth >= Depth => end = spList[Depth - 1]
    /\ spDepth <= 1 \/ (p > 0 /\ (spDepth <= 2 \/ spDepth <= depth))
    /\ spDepth <= Depth
    /\ spDepth = Depth => p > end

StackInv == TypeOK /\ proc \in Processes /\ ListInv /\ DumpInv

----------------------------------------------------------------------------
(* What the assumption says of the constants. *)
LEMMA Constants ==
  /\ Modulus \in Nat /\ Depth \in Nat /\ Depth >= 3
  /\ Below \in Nat /\ Page \in Nat /\ Line \in Nat /\ Page > 0
  /\ Garbage \notin Nat
  /\ \A n \in Int : n % Modulus \in Value
  /\ 0 \in Indexes /\ 1 \in Indexes /\ Depth - 1 \in Indexes
BY StackAssumption DEF Garbage, Value, Indexes

(* What wrapping leaves alone. *)
LEMMA Unwrapped ==
  ASSUME NEW a \in Nat, a < Modulus
  PROVE  a % Modulus = a
BY StackAssumption

(* The registers of a crashed process are words. *)
LEMMA ProcessFacts ==
  ASSUME NEW q \in Processes
  PROVE  /\ q.sp \in Value /\ q.pc \in Value /\ q.lr \in Value /\ q.high \in Value
         /\ q.sp \in Nat /\ q.pc \in Nat /\ q.lr \in Nat /\ q.high \in Nat
         /\ q \in Process
<1>1. q \in Process
  BY StackAssumption
<1> QED
  BY <1>1 DEF Process, Value

(* A caller's stack pointer is a word. *)
LEMMA CallerFacts ==
  ASSUME NEW c \in Callers
  PROVE  c[3] \in Value /\ c[3] \in Nat
<1>1. c \in (0..(Depth - 1)) \X Value \X Value
  BY StackAssumption
<1> QED
  BY <1>1 DEF Value

(* The types, one by one, as numbers. *)
LEMMA TypeFacts ==
  ASSUME TypeOK
  PROVE  /\ spList \in [Indexes -> Value] /\ \A k \in Indexes : spList[k] \in Nat
         /\ depth \in Nat \/ depth = Garbage
         /\ sp \in Nat /\ p \in Nat /\ end \in Nat /\ sp \in Value /\ p \in Value
         /\ end \in Value
         /\ left \in Nat /\ spDepth \in Nat
<1>1. spList \in [Indexes -> Value] /\ sp \in Value /\ p \in Value /\ end \in Value
  BY DEF TypeOK
<1>2. (depth \in Nat \/ depth = Garbage) /\ left \in Nat /\ spDepth \in Nat
  BY DEF TypeOK
<1> QED
  BY <1>1, <1>2 DEF Value

----------------------------------------------------------------------------
(* The invariant holds at the start. *)
LEMMA StackInvInit == Init => StackInv
<1> SUFFICES ASSUME Init PROVE StackInv
  OBVIOUS
<1>1. proc \in Process /\ proc \in Processes /\ build \in Build
  BY StackAssumption DEF Init
<1>2. 0 \in Value
  BY StackAssumption DEF Value
<1>3. /\ spList \in [Indexes -> Value] /\ \A k \in Indexes : spList[k] = 0
      /\ depth = 0 /\ sp = 0 /\ p = 0 /\ end = 0 /\ left = 0 /\ spDepth = 0
      /\ alive = TRUE /\ sane = TRUE /\ frames = {} /\ dumped = {} /\ labels = {}
      /\ pc \in {"table", "guess"}
  BY <1>2 DEF Init, ZeroList
<1>4. TypeOK
  <2>1. {alive, sane} \subseteq BOOLEAN
    BY <1>3
  <2>2. {sp, p, end} \subseteq Value /\ {left, spDepth} \subseteq Nat
    BY <1>2, <1>3
  <2> QED
    BY <1>1, <1>3, <2>1, <2>2 DEF TypeOK
<1>5. ListInv
  BY <1>3 DEF ListInv, ClearBeyond, Garbage
<1> QED
  BY <1>1, <1>3, <1>4, <1>5 DEF StackInv, DumpInv

(* log_function leaves the list clear beyond the frame it logged. *)
LEMMA LogKeepsList ==
  ASSUME TypeOK, NEW level \in Indexes, NEW at \in Value,
         \A k \in Indexes : k >= level => spList[k] = 0,
         LogFunction(spList, level, at)
  PROVE  /\ spList' \in [Indexes -> Value]
         /\ \A k \in Indexes : k >= level + 1 => spList'[k] = 0
         /\ frames' = frames \cup {at}
<1>1. level < Depth
  BY Constants DEF Indexes
<1>2. spList' = [spList EXCEPT ![level] = at] /\ frames' = frames \cup {at}
  BY <1>1 DEF LogFunction
<1>3. spList \in [Indexes -> Value]
  BY TypeFacts
<1>4. \A k \in Indexes : k >= level + 1 => k # level /\ k >= level
  BY DEF Indexes
<1> QED
  BY <1>2, <1>3, <1>4

(* The variables most steps leave alone keep their types. *)
LEMMA KeepsType ==
  ASSUME TypeOK, UNCHANGED << build, proc >>, alive' \in BOOLEAN, sane' \in BOOLEAN,
         spList' \in [Indexes -> Value], depth' \in Nat \/ depth' = Garbage,
         sp' \in Value, p' \in Value, end' \in Value, left' \in Nat, spDepth' \in Nat,
         pc' \in {"table", "frame", "guess", "scan", "few", "code", "stack", "tail", "done"},
         frames' \cup dumped' \cup labels' \subseteq Value
  PROVE  TypeOK'
<1>1. {alive', sane'} \subseteq BOOLEAN /\ {sp', p', end'} \subseteq Value
      /\ {left', spDepth'} \subseteq Nat /\ depth' \in Nat \cup {Garbage}
  OBVIOUS
<1>2. build' \in Build /\ proc' \in Process
  BY DEF TypeOK
<1> QED
  BY <1>1, <1>2 DEF TypeOK

(* Every step keeps the invariant. *)
LEMMA StackInvStep == StackInv /\ [Next]_vars => StackInv'
<1> SUFFICES ASSUME StackInv, [Next]_vars PROVE StackInv'
  OBVIOUS
<1> USE DEF lists, history
<1>1. TypeOK /\ proc \in Processes /\ ListInv /\ DumpInv
  BY DEF StackInv
<1>2. /\ alive \in BOOLEAN /\ sane \in BOOLEAN
      /\ frames \cup dumped \cup labels \subseteq Value
      /\ pc \in {"table", "frame", "guess", "scan", "few", "code", "stack", "tail", "done"}
  BY <1>1 DEF TypeOK
<1>3. AfterTable \in {"guess", "few"}
  BY DEF AfterTable
<1>4. proc.sp \in Value
  BY <1>1, ProcessFacts
<1>5. CASE Vanish
  <2>1. UNCHANGED << build, proc, spList, depth, sane, sp, left, p, end, spDepth, pc,
                     frames, dumped, labels >> /\ alive' = FALSE
    BY <1>5 DEF Vanish
  <2>2. TypeOK'
    BY <1>1, <1>2, <2>1, KeepsType, TypeFacts
  <2>3. ListInv' /\ DumpInv'
    BY <1>1, <2>1 DEF ListInv, DumpInv, ClearBeyond
  <2> QED
    BY <1>1, <2>1, <2>2, <2>3 DEF StackInv
<1>6. CASE TableStart
  <2>1. UNCHANGED << build, proc, alive, left, p, end, spDepth, dumped, labels >>
        /\ pc = "table" /\ pc' \in {"guess", "few", "frame"}
    BY <1>3, <1>6 DEF TableStart
  <2>2. depth = 0 /\ ClearBeyond
    BY <1>1, <2>1 DEF ListInv
  <2>3. sp' \in Value
    BY <1>1, <1>4, <1>6, TypeFacts DEF TableStart
  <2>4. CASE UNCHANGED << spList, sane, frames >> /\ depth' = 0
    <3>1. TypeOK'
      BY <1>1, <1>2, <2>1, <2>3, <2>4, KeepsType, TypeFacts
    <3>2. ListInv'
      BY <1>1, <2>1, <2>2, <2>3, <2>4, Constants DEF ListInv, ClearBeyond
    <3> QED
      BY <1>1, <2>1, <3>1, <3>2 DEF StackInv, DumpInv
  <2>5. CASE LogFunction(spList, 0, proc.sp) /\ depth' = 1 /\ sane' = FALSE
             /\ pc' = "frame"
    <3>1. /\ spList' \in [Indexes -> Value]
          /\ \A k \in Indexes : k >= 0 + 1 => spList'[k] = 0
          /\ frames' = frames \cup {proc.sp}
      BY <1>1, <1>4, <2>2, <2>5, LogKeepsList, Constants DEF ClearBeyond
    <3>2. TypeOK'
      BY <1>1, <1>2, <1>4, <2>1, <2>3, <2>5, <3>1, KeepsType, TypeFacts
    <3>3. ListInv'
      BY <2>5, <3>1, Constants DEF ListInv, ClearBeyond
    <3> QED
      BY <1>1, <2>1, <2>5, <3>2, <3>3 DEF StackInv, DumpInv
  <2> QED
    BY <1>6, <2>4, <2>5 DEF TableStart
<1>7. CASE NoFrame
  <2>1. UNCHANGED << build, proc, alive, spList, depth, sane, sp, left, p, end, spDepth,
                     frames, dumped, labels >>
        /\ pc = "frame" /\ pc' \in {"guess", "few"}
    BY <1>3, <1>7 DEF NoFrame
  <2>2. TypeOK'
    BY <1>1, <1>2, <2>1, KeepsType, TypeFacts
  <2>3. ListInv'
    BY <1>1, <2>1, Constants DEF ListInv, ClearBeyond, Indexes
  <2> QED
    BY <1>1, <2>1, <2>2, <2>3 DEF StackInv, DumpInv
<1>8. CASE Frame
  <2>1. UNCHANGED << build, proc, alive, sane, left, p, end, spDepth, dumped, labels >>
        /\ pc = "frame" /\ depth' = depth + 1 /\ LogFunction(spList, depth, sp)
    BY <1>8 DEF Frame
  <2>2. depth \in Indexes /\ depth \in Nat /\ ClearBeyond
    BY <1>1, <2>1 DEF ListInv, Indexes
  <2>3. /\ sp' \in Value
        /\ pc' \in {"frame", "guess", "few"}
        /\ pc' = "frame" => depth + 1 < Depth
    <3>1. CASE pc' = AfterTable /\ UNCHANGED sp
      BY <1>1, <1>3, <2>2, <3>1, TypeFacts
    <3>2. ASSUME NEW c \in Callers, sp' = c[3],
                 pc' = IF depth + 1 < Depth THEN "frame" ELSE AfterTable
          PROVE  /\ sp' \in Value
                 /\ pc' \in {"frame", "guess", "few"}
                 /\ pc' = "frame" => depth + 1 < Depth
      BY <1>3, <3>2, CallerFacts
    <3> QED
      BY <1>8, <3>1, <3>2 DEF Frame
  <2>4. /\ spList' \in [Indexes -> Value]
        /\ \A k \in Indexes : k >= depth + 1 => spList'[k] = 0
        /\ frames' = frames \cup {sp}
    BY <1>1, <2>1, <2>2, LogKeepsList, TypeFacts DEF ClearBeyond
  <2>5. TypeOK'
    BY <1>1, <1>2, <2>1, <2>2, <2>3, <2>4, KeepsType, TypeFacts
  <2>6. depth' # Garbage /\ (depth + 1 < Depth => depth' \in Indexes)
    BY <2>1, <2>2, Constants DEF Garbage, Indexes
  <2>7. ListInv'
    BY <2>1, <2>3, <2>4, <2>6 DEF ListInv, ClearBeyond
  <2> QED
    BY <1>1, <2>1, <2>3, <2>5, <2>7 DEF StackInv, DumpInv
<1>9. CASE GuessStart
  <2>1. UNCHANGED << build, proc, alive, sane, p, end, spDepth, frames, dumped, labels >>
        /\ pc = "guess" /\ pc' \in {"scan", "few"} /\ spList' = ZeroList
        /\ depth' = (IF alive THEN 0 ELSE Garbage)
        /\ (~alive => pc' = "few")
        /\ sp' = (IF alive THEN proc.sp ELSE sp)
        /\ left' = (IF alive THEN (proc.high - proc.sp) % Modulus ELSE left)
    BY <1>9 DEF GuessStart
  <2>2. sp' \in Value /\ left' \in Nat
    <3>1. (proc.high - proc.sp) % Modulus \in Nat
      BY <1>1, ProcessFacts, Constants DEF Value
    <3> QED
      BY <1>1, <1>4, <2>1, <3>1, TypeFacts
  <2>3. 0 \in Value
    BY Constants DEF Value
  <2>4. spList' \in [Indexes -> Value] /\ \A k \in Indexes : spList'[k] = 0
    BY <2>1, <2>3 DEF ZeroList
  <2>5. depth' \in Nat \/ depth' = Garbage
    BY <2>1
  <2>6. TypeOK'
    BY <1>1, <1>2, <2>1, <2>2, <2>4, <2>5, KeepsType, TypeFacts
  <2>7. ListInv'
    BY <1>2, <2>1, <2>3, <2>4 DEF ListInv, ClearBeyond, Garbage
  <2> QED
    BY <1>1, <2>1, <2>6, <2>7 DEF StackInv, DumpInv
<1>10. CASE Scan
  <2>1. UNCHANGED << build, proc, alive, spList, sane, p, end, spDepth, pc,
                     frames, dumped, labels >>
        /\ pc = "scan" /\ left > 0 /\ left' = left - 1 /\ sp' = (sp + 1) % Modulus
        /\ depth' \in {depth, depth + 1}
    BY <1>10 DEF Scan
  <2>2. depth \in Nat /\ ClearBeyond
    BY <1>1, <2>1, TypeFacts DEF ListInv
  <2>3. sp' \in Value /\ left' \in Nat
    BY <1>1, <2>1, TypeFacts, Constants
  <2>4. TypeOK'
    BY <1>1, <1>2, <2>1, <2>2, <2>3, KeepsType, TypeFacts
  <2>5. ListInv'
    BY <1>1, <2>1, <2>2, Constants DEF ListInv, ClearBeyond, Indexes
  <2> QED
    BY <1>1, <2>1, <2>4, <2>5 DEF StackInv, DumpInv
<1>11. CASE ScanEnds
  <2>1. UNCHANGED << build, proc, alive, spList, depth, sane, sp, left, p, end, spDepth,
                     frames, dumped, labels >>
        /\ pc = "scan" /\ pc' = "few"
    BY <1>11 DEF ScanEnds
  <2>2. TypeOK'
    BY <1>1, <1>2, <2>1, KeepsType, TypeFacts
  <2>3. ListInv'
    BY <1>1, <2>1 DEF ListInv, ClearBeyond
  <2> QED
    BY <1>1, <2>1, <2>2, <2>3 DEF StackInv, DumpInv
<1>12. CASE NoRegisters
  <2>1. UNCHANGED << build, proc, alive, spList, depth, sane, sp, left, p, end, spDepth,
                     frames, dumped, labels >>
        /\ pc = "few" /\ pc' = "done"
    BY <1>12 DEF NoRegisters
  <2>2. TypeOK'
    BY <1>1, <1>2, <2>1, KeepsType, TypeFacts
  <2>3. ListInv'
    BY <1>1, <2>1 DEF ListInv, ClearBeyond
  <2> QED
    BY <1>1, <2>1, <2>2, <2>3 DEF StackInv, DumpInv
<1>13. CASE CodeStart
  <2>1. UNCHANGED << build, proc, alive, spList, depth, sane, sp, left, spDepth,
                     frames, dumped, labels >>
        /\ pc = "few" /\ pc' = "code" /\ alive
        /\ end' \in {proc.pc, proc.lr} /\ p' = (end' - Line) % Modulus
    BY <1>13 DEF CodeStart
  <2>2. end' \in Value /\ end' \in Int
    BY <1>1, <2>1, ProcessFacts
  <2>3. p' \in Value
    BY <2>1, <2>2, Constants
  <2>4. TypeOK'
    BY <1>1, <1>2, <2>1, <2>2, <2>3, KeepsType, TypeFacts
  <2>5. ListInv'
    BY <1>1, <2>1 DEF ListInv, ClearBeyond
  <2> QED
    BY <1>1, <2>1, <2>4, <2>5 DEF StackInv, DumpInv
<1>14. CASE CodeLine
  <2>1. UNCHANGED << build, proc, alive, spList, depth, sane, sp, left, end, spDepth, pc,
                     frames, dumped, labels >>
        /\ pc = "code" /\ p' = (p + Line) % Modulus
    BY <1>14 DEF CodeLine
  <2>2. p' \in Value
    BY <1>1, <2>1, TypeFacts, Constants
  <2>3. TypeOK'
    BY <1>1, <1>2, <2>1, <2>2, KeepsType, TypeFacts
  <2>4. ListInv'
    BY <1>1, <2>1 DEF ListInv, ClearBeyond
  <2> QED
    BY <1>1, <2>1, <2>3, <2>4 DEF StackInv, DumpInv
<1>15. CASE StackStart
  <2>1. UNCHANGED << build, proc, alive, spList, depth, sane, sp, left,
                     frames, dumped, labels >>
        /\ pc = "code" /\ pc' = "stack" /\ p' = (proc.sp - Below) % Modulus
        /\ end' = (IF depth = 0 THEN PageEnd ELSE LastSp)
        /\ spDepth' \in {0, 1}
    BY <1>15 DEF StackStart
  <2>2. depth \in Nat /\ ClearBeyond
    BY <1>1, <2>1, TypeFacts DEF ListInv
  <2>3. depth # 0 => /\ LastSp \in Value
                     /\ depth >= Depth => LastSp = spList[Depth - 1]
    <3>1. depth # 0 /\ depth < Depth => depth - 1 \in Indexes
      BY <2>2, Constants DEF Indexes
    <3> QED
      BY <1>1, <2>2, <3>1, TypeFacts, Constants DEF LastSp
  <2>4. /\ end' \in Value
        /\ depth >= Depth => end' = spList[Depth - 1]
    <3>1. PageEnd \in Value
      <4>1. (proc.sp \div Page) * Page + 2 * Page - 1 \in Int
        BY <1>1, ProcessFacts, Constants
      <4> QED
        BY <4>1, Constants DEF PageEnd
    <3> QED
      BY <2>1, <2>2, <2>3, <3>1, Constants
  <2>5. p' \in Value
    BY <1>1, <2>1, ProcessFacts, Constants
  <2>6. TypeOK'
    BY <1>1, <1>2, <2>1, <2>4, <2>5, KeepsType, TypeFacts
  <2>7. ListInv'
    BY <1>1, <2>1 DEF ListInv, ClearBeyond
  <2>8. DumpInv'
    BY <2>1, <2>4, Constants DEF DumpInv
  <2> QED
    BY <1>1, <2>1, <2>6, <2>7, <2>8 DEF StackInv
<1>16. CASE StackWord
  <2>1. UNCHANGED << build, proc, alive, spList, depth, sane, sp, left, end, pc, frames >>
        /\ pc = "stack" /\ p <= end /\ p' = (p + 1) % Modulus
        /\ dumped' = dumped \cup {p} /\ labels' \subseteq labels \cup {p}
    BY <1>16 DEF StackWord
  <2>2. spDepth \in Nat /\ p \in Nat /\ end \in Nat /\ p \in Value
        /\ depth \in Nat /\ ClearBeyond
    <3>1. spDepth \in Nat /\ p \in Nat /\ end \in Nat /\ p \in Value
          /\ (depth \in Nat \/ depth = Garbage)
      BY <1>1, TypeFacts
    <3>2. depth # Garbage /\ ClearBeyond
      BY <1>1, <2>1 DEF ListInv
    <3> QED
      BY <3>1, <3>2
  <2>3. p' \in Value
    BY <2>1, <2>2, Constants
  <2>4. \/ spDepth' = spDepth
        \/ spDepth' = spDepth + 1 /\ spDepth < Depth /\ p = spList[spDepth]
    BY <1>16 DEF StackWord, Numbered
  <2>5. TypeOK'
    <3>1. frames' \cup dumped' \cup labels' \subseteq Value
      BY <1>2, <2>1, <2>2
    <3>2. spDepth' \in Nat
      BY <2>2, <2>4
    <3> QED
      BY <1>1, <1>2, <2>1, <2>2, <2>3, <3>1, <3>2, KeepsType, TypeFacts
  <2>6. ListInv'
    BY <1>1, <2>1 DEF ListInv, ClearBeyond
  <2>7. ASSUME end < Modulus - 1 PROVE DumpInv'
    <3>1. /\ depth >= Depth => end = spList[Depth - 1]
          /\ spDepth <= 1 \/ (p > 0 /\ (spDepth <= 2 \/ spDepth <= depth))
          /\ spDepth < Depth
      BY <1>1, <2>1, <2>2, <2>7, Constants DEF DumpInv
    <3>2. spDepth \in Indexes
      BY <2>2, <3>1, Constants DEF Indexes
    <3>3. p' = p + 1
      <4>1. p + 1 \in Nat /\ p + 1 < Modulus
        BY <2>1, <2>2, <2>7, Constants
      <4>2. (p + 1) % Modulus = p + 1
        BY <4>1, Unwrapped
      <4> QED
        BY <2>1, <4>2
    <3>4. CASE spDepth' = spDepth
      <4>1. p' > 0
        BY <2>2, <3>3
      <4>2. spDepth' <= Depth /\ spDepth' # Depth
        BY <2>2, <3>1, <3>4, Constants
      <4> QED
        BY <2>1, <3>1, <3>4, <4>1, <4>2 DEF DumpInv
    <3>5. CASE spDepth' = spDepth + 1 /\ p = spList[spDepth]
      <4>1. spDepth > 1 => p > 0 /\ spDepth < depth
        BY <2>2, <3>1, <3>2, <3>5 DEF ClearBeyond
      <4>2. spDepth' <= 1 \/ (p' > 0 /\ (spDepth' <= 2 \/ spDepth' <= depth))
        BY <2>2, <3>3, <3>5, <4>1
      <4>3. spDepth' = Depth => p' > end
        BY <2>2, <3>1, <3>3, <3>5, <4>1, Constants
      <4>4. spDepth' <= Depth
        BY <2>2, <3>1, <3>5, Constants
      <4> QED
        BY <2>1, <3>1, <4>2, <4>3, <4>4 DEF DumpInv
    <3> QED
      BY <2>4, <3>4, <3>5
  <2>8. DumpInv'
    <3>1. CASE end < Modulus - 1
      BY <2>7, <3>1
    <3>2. CASE ~(end < Modulus - 1)
      BY <2>1, <3>2 DEF DumpInv
    <3> QED
      BY <3>1, <3>2
  <2> QED
    BY <1>1, <2>1, <2>5, <2>6, <2>8 DEF StackInv
<1>17. CASE TailStart
  <2>1. UNCHANGED << build, proc, alive, spList, depth, sane, sp, left, p, spDepth,
                     frames, dumped, labels >>
        /\ pc = "stack" /\ pc' = "tail" /\ end' = (p + Below) % Modulus
    BY <1>17 DEF TailStart
  <2>2. end' \in Value
    BY <1>1, <2>1, TypeFacts, Constants
  <2>3. TypeOK'
    BY <1>1, <1>2, <2>1, <2>2, KeepsType, TypeFacts
  <2>4. ListInv'
    BY <1>1, <2>1 DEF ListInv, ClearBeyond
  <2> QED
    BY <1>1, <2>1, <2>3, <2>4 DEF StackInv, DumpInv
<1>18. CASE TailWord
  <2>1. UNCHANGED << build, proc, alive, spList, depth, sane, sp, left, end, spDepth, pc,
                     frames, labels >>
        /\ pc = "tail" /\ dumped' = dumped \cup {p} /\ p' = (p + 1) % Modulus
    BY <1>18 DEF TailWord
  <2>2. p' \in Value /\ frames' \cup dumped' \cup labels' \subseteq Value
    BY <1>1, <1>2, <2>1, TypeFacts, Constants
  <2>3. TypeOK'
    BY <1>1, <1>2, <2>1, <2>2, KeepsType, TypeFacts
  <2>4. ListInv'
    BY <1>1, <2>1 DEF ListInv, ClearBeyond
  <2> QED
    BY <1>1, <2>1, <2>3, <2>4 DEF StackInv, DumpInv
<1>19. CASE DumpDone
  <2>1. UNCHANGED << build, proc, alive, spList, depth, sane, sp, left, p, end, spDepth,
                     frames, dumped, labels >>
        /\ pc = "tail" /\ pc' = "done"
    BY <1>19 DEF DumpDone
  <2>2. TypeOK'
    BY <1>1, <1>2, <2>1, KeepsType, TypeFacts
  <2>3. ListInv'
    BY <1>1, <2>1 DEF ListInv, ClearBeyond
  <2> QED
    BY <1>1, <2>1, <2>2, <2>3 DEF StackInv, DumpInv
<1>20. CASE UNCHANGED vars
  BY <1>1, <1>20 DEF vars, StackInv, TypeOK, ListInv, ClearBeyond, DumpInv
<1> QED
  BY <1>5, <1>6, <1>7, <1>8, <1>9, <1>10, <1>11, <1>12, <1>13, <1>14, <1>15, <1>16, <1>17,
     <1>18, <1>19, <1>20 DEF Next, Step

----------------------------------------------------------------------------
(* Every variable has its type. *)
THEOREM StackTypes == Spec => []TypeOK
<1>1. Init => StackInv
  BY StackInvInit
<1>2. StackInv /\ [Next]_vars => StackInv'
  BY StackInvStep
<1>3. StackInv => TypeOK
  BY DEF StackInv
<1> QED
  BY <1>1, <1>2, <1>3, PTL DEF Spec

(* sp_list is used within its bounds: log_function, the end of the dump    *)
(* and the comparison with the next frame number stay inside, whatever the *)
(* unwinders find and whenever the process vanishes, unless the dump goes  *)
(* round.                                                                  *)
THEOREM ListStaysInBounds == Spec => []ListIndexesInBounds
<1>1. Init => StackInv
  BY StackInvInit
<1>2. StackInv /\ [Next]_vars => StackInv'
  BY StackInvStep
<1>3. StackInv => ListIndexesInBounds
  <2> SUFFICES ASSUME StackInv PROVE ListIndexesInBounds
    OBVIOUS
  <2>1. TypeOK /\ ListInv /\ DumpInv
    BY DEF StackInv
  <2>2. pc = "frame" => depth \in Indexes
    BY <2>1 DEF ListInv
  <2>3. pc \in {"code", "stack", "tail"} => depth # Garbage
    BY <2>1 DEF ListInv
  <2>4. pc = "stack" /\ p <= end /\ ~GoesRound => spDepth \in Indexes
    <3> SUFFICES ASSUME pc = "stack", p <= end, ~GoesRound PROVE spDepth \in Indexes
      OBVIOUS
    <3>1. p \in Nat /\ end \in Nat /\ spDepth \in Nat /\ end < Modulus
      BY <2>1, TypeFacts, Constants DEF Value
    <3>2. end < Modulus - 1
      BY <3>1, Constants DEF GoesRound
    <3> QED
      BY <2>1, <3>1, <3>2, Constants DEF DumpInv, Indexes
  <2> QED
    BY <2>2, <2>3, <2>4 DEF ListIndexesInBounds
<1> QED
  BY <1>1, <1>2, <1>3, PTL DEF Spec

----------------------------------------------------------------------------
(***************************************************************************)
(* Every frame is dumped and labelled.                                     *)
(***************************************************************************)

(* The table unwinder alone, frames one above the other, a process that is *)
(* still there, and a dump whose start does not wrap.                      *)
Plain == ~build.guess /\ proc.orderly /\ alive /\ proc.sp >= Below

(* The levels that were found. *)
Found == 0..(depth - 1)

(* The list holds the frames from the stack pointer upwards; only the      *)
(* first two may share theirs.                                             *)
InOrder ==
  /\ depth \in 0..Depth
  /\ frames = {spList[k] : k \in Found}
  /\ depth > 0 => spList[0] = proc.sp
  /\ \A j, k \in Found : j < k =>
       spList[j] < spList[k] \/ (j = 0 /\ k = 1 /\ spList[0] = spList[1])

(* The stack pointer to be logged next is above those in the list, but for *)
(* the second one, which may be the first again.                           *)
NextAbove ==
  /\ depth = 0 => sp = proc.sp
  /\ \A k \in Found : spList[k] < sp \/ (k = 0 /\ depth = 1 /\ spList[0] = sp)

Marked(a) == a \in dumped /\ a \in labels

(* The dump goes up to the last frame; the frames it has passed are        *)
(* marked, and the number it looks for is that of the next one.            *)
Numbering ==
  /\ end = spList[depth - 1]
  /\ spDepth <= depth
  /\ spDepth = depth => p > end
  /\ spDepth = 0 /\ depth > 1 => spList[0] # spList[1]
  /\ spDepth < depth => p <= spList[spDepth]
  /\ \A k \in Found : k < spDepth =>
       spList[k] < p \/ (spDepth < depth /\ spList[k] = spList[spDepth])
  /\ \A k \in Found : spList[k] < p => Marked(spList[k])

LabelInv ==
  Plain =>
    /\ pc \notin {"guess", "scan"}
    /\ pc \in {"table", "frame", "few", "code", "stack"} => InOrder
    /\ pc = "frame" => NextAbove
    /\ pc = "stack" /\ depth > 0 /\ end < Modulus - 1 => Numbering
    /\ pc \in {"tail", "done"} => \A a \in frames : Marked(a)

(* Logging a frame extends the list in order. *)
LEMMA LogInOrder ==
  ASSUME TypeOK, depth \in Indexes, InOrder, NextAbove, LogFunction(spList, depth, sp),
         depth' = depth + 1, UNCHANGED proc
  PROVE  /\ InOrder'
         /\ \A k \in Found' : spList'[k] = IF k = depth THEN sp ELSE spList[k]
<1>1. depth \in Nat /\ depth < Depth /\ Depth \in Nat
  BY Constants DEF Indexes
<1>2. spList' = [spList EXCEPT ![depth] = sp] /\ frames' = frames \cup {sp}
  BY <1>1 DEF LogFunction
<1>3. Found' = Found \cup {depth} /\ depth \notin Found /\ Found \subseteq Indexes
  BY <1>1 DEF Found, Indexes
<1>4. \A k \in Found' : spList'[k] = IF k = depth THEN sp ELSE spList[k]
  BY <1>2, <1>3 DEF TypeOK
<1>5. frames' = {spList'[k] : k \in Found'}
  <2>1. frames = {spList[k] : k \in Found}
    BY DEF InOrder
  <2> QED
    BY <1>2, <1>3, <1>4, <2>1
<1>6. spList'[0] = proc.sp
  <2>1. CASE depth = 0
    BY <1>3, <1>4, <2>1 DEF NextAbove
  <2>2. CASE depth > 0
    BY <1>1, <1>3, <1>4, <2>2 DEF InOrder, Found
  <2> QED
    BY <1>1, <2>1, <2>2
<1>7. ASSUME NEW j \in Found', NEW k \in Found', j < k
      PROVE  spList'[j] < spList'[k] \/ (j = 0 /\ k = 1 /\ spList'[0] = spList'[1])
  <2>1. j \in Found /\ j \in Nat
    BY <1>1, <1>3, <1>7 DEF Found
  <2>2. CASE k = depth
    BY <1>1, <1>3, <1>4, <2>1, <2>2 DEF NextAbove, Found
  <2>3. CASE k # depth
    <3>1. k \in Found
      BY <1>3, <2>3
    <3>2. spList'[j] = spList[j] /\ spList'[k] = spList[k]
      BY <1>3, <1>4, <2>1, <3>1
    <3> QED
      BY <1>7, <2>1, <3>1, <3>2 DEF InOrder
  <2> QED
    BY <2>2, <2>3
<1>8. depth' \in 0..Depth
  BY <1>1
<1> QED
  BY <1>4, <1>5, <1>6, <1>7, <1>8 DEF InOrder

(* A word of the dump keeps the numbering. *)
LEMMA WordKeepsNumbering ==
  ASSUME StackInv, InOrder, Numbering, depth > 0, end < Modulus - 1, StackWord
  PROVE  Numbering'
<1>1. /\ depth \in Nat /\ depth > 0 /\ depth <= Depth /\ Depth \in Nat
      /\ p \in Nat /\ end \in Nat /\ spDepth \in Nat
      /\ \A k \in Indexes : spList[k] \in Nat
  BY TypeFacts, Constants DEF StackInv, InOrder
<1>2. /\ pc = "stack" /\ p <= end /\ p' = (p + 1) % Modulus
      /\ UNCHANGED << spList, depth, end >>
      /\ dumped' = dumped \cup {p}
  BY DEF StackWord, lists
<1>3. p' = p + 1
  <2>1. p + 1 \in Nat /\ p + 1 < Modulus
    BY <1>1, <1>2, Constants
  <2> QED
    BY <1>2, <2>1, Unwrapped
<1>4. spDepth < depth /\ spDepth \in Found /\ spDepth < Depth
  BY <1>1, <1>2 DEF Numbering, Found
<1>5. /\ Found \subseteq Indexes /\ Found' = Found
      /\ \A k \in Found : k \in Nat /\ k < depth /\ spList[k] \in Nat
      /\ \A k \in Nat : k < depth => k \in Found
  BY <1>1, <1>2 DEF Found, Indexes
<1>6. \A k \in Found : k > spDepth => spList[spDepth] <= spList[k]
  BY <1>4, <1>5 DEF InOrder
<1>7. CASE p = spList[spDepth]
  <2>1. labels' = labels \cup {p} /\ spDepth' = spDepth + 1
    BY <1>4, <1>7 DEF StackWord, Numbered
  <2>2. \A k \in Found : k <= spDepth => spList[k] < p'
    BY <1>1, <1>3, <1>4, <1>5, <1>7 DEF Numbering
  <2>3. ASSUME spDepth + 1 < depth PROVE spList[spDepth] < spList[spDepth + 1]
    <3>1. spDepth + 1 \in Found
      BY <1>1, <1>5, <2>3
    <3> QED
      BY <1>1, <1>4, <2>3, <3>1 DEF InOrder, Numbering
  <2>4. spDepth' < depth => p' <= spList[spDepth']
    BY <1>1, <1>3, <1>5, <1>7, <2>1, <2>3
  <2>5. spDepth' = depth => p' > end
    BY <1>1, <1>3, <1>7, <2>1 DEF Numbering
  <2>6. \A k \in Found : spList[k] < p' => Marked(spList[k])'
    BY <1>1, <1>2, <1>3, <1>5, <2>1 DEF Numbering, Marked
  <2>7. \A k \in Found : k < spDepth' => spList[k] < p'
    BY <1>1, <1>5, <2>1, <2>2
  <2> QED
    BY <1>1, <1>2, <1>4, <1>5, <2>1, <2>4, <2>5, <2>6, <2>7 DEF Numbering, Marked
<1>8. CASE p # spList[spDepth]
  <2>1. labels' = labels /\ spDepth' = spDepth
    BY <1>4, <1>8 DEF StackWord, Numbered
  <2>2. p' <= spList[spDepth]
    BY <1>1, <1>3, <1>4, <1>5, <1>8 DEF Numbering
  <2>3. \A k \in Found : spList[k] < p' => spList[k] < p
    BY <1>1, <1>3, <1>4, <1>5, <1>6, <1>8, <2>2 DEF Numbering
  <2>4. \A k \in Found : spList[k] < p' => Marked(spList[k])'
    BY <1>2, <2>1, <2>3 DEF Numbering, Marked
  <2>5. \A k \in Found : k < spDepth =>
          spList[k] < p' \/ (spDepth < depth /\ spList[k] = spList[spDepth])
    BY <1>1, <1>3, <1>5 DEF Numbering
  <2> QED
    BY <1>2, <1>4, <1>5, <2>1, <2>2, <2>4, <2>5 DEF Numbering, Marked
<1> QED
  BY <1>7, <1>8

(* The dump starts at or below every frame, and looks for the first one    *)
(* whose stack pointer the next does not share.                            *)
LEMMA StartNumbers ==
  ASSUME StackInv, InOrder, depth > 0, Below <= proc.sp, StackStart
  PROVE  Numbering'
<1>1. /\ depth \in Nat /\ depth > 0 /\ depth <= Depth /\ Depth \in Nat /\ Depth >= 3
      /\ \A k \in Indexes : spList[k] \in Nat
  BY TypeFacts, Constants DEF StackInv, InOrder
<1>2. /\ UNCHANGED << spList, depth, dumped, labels >>
      /\ pc = "code"
      /\ p' = (proc.sp - Below) % Modulus
      /\ end' = LastSp
      /\ spDepth' = IF spList[0] = spList[1] THEN 1 ELSE 0
  BY <1>1 DEF StackStart, lists, history
<1>3. proc.sp \in Nat /\ proc.sp < Modulus /\ Below <= proc.sp /\ Below \in Nat /\ Below > 0
      /\ Modulus \in Nat
  BY ProcessFacts, StackAssumption DEF StackInv, Value
<1>4. p' = proc.sp - Below /\ p' < proc.sp
  <2>1. proc.sp - Below \in Nat /\ proc.sp - Below < Modulus
    BY <1>3
  <2>2. p' = proc.sp - Below
    BY <1>2, <2>1, Unwrapped
  <2> QED
    BY <1>3, <2>2
<1>5. LastSp = spList[depth - 1]
  BY <1>1 DEF LastSp
<1>6. /\ Found' = Found /\ Found \subseteq Indexes
      /\ \A k \in Found : k \in Nat /\ k < depth /\ spList[k] \in Nat
      /\ 0 \in Found /\ (depth > 1 => 1 \in Found)
  BY <1>1, <1>2 DEF Found, Indexes
<1>7. \A k \in Found : p' < spList[k]
  <2>1. spList[0] = proc.sp
    BY <1>1 DEF InOrder
  <2>2. \A k \in Found : 0 < k => spList[0] <= spList[k]
    BY <1>6 DEF InOrder
  <2>3. \A k \in Found : spList[0] <= spList[k]
    BY <1>6, <2>2
  <2> QED
    BY <1>3, <1>4, <1>6, <2>1, <2>3
<1>8. spList[0] = spList[1] => depth > 1
  <2>1. depth = 1 => spList[1] = 0
    BY <1>2, Constants DEF StackInv, ListInv, ClearBeyond, Garbage
  <2>2. spList[0] = proc.sp /\ proc.sp > 0
    BY <1>1, <1>3 DEF InOrder
  <2> QED
    BY <1>1, <2>1, <2>2
<1>9. spDepth' < depth /\ spDepth' \in Found /\ spDepth' \in Nat
  BY <1>1, <1>2, <1>6, <1>8
<1>10. \A k \in Found : k < spDepth' => spList[k] = spList[spDepth']
  BY <1>2, <1>6
<1>11. \A k \in Found : ~(spList[k] < p')
  <2>1. p' \in Nat
    BY <1>3, <1>4
  <2> QED
    BY <1>6, <1>7, <2>1
<1>12. p' <= spList[spDepth']
  BY <1>3, <1>4, <1>6, <1>7, <1>9
<1>13. spDepth' <= depth /\ spDepth' # depth
  BY <1>1, <1>9
<1>14. spDepth' = 0 => spList[0] # spList[1]
  BY <1>2
<1> QED
  BY <1>2, <1>5, <1>6, <1>9, <1>10, <1>11, <1>12, <1>13, <1>14 DEF Numbering

(* Every step keeps the labels right. *)
LEMMA LabelInvStep ==
  ASSUME StackInv, LabelInv, [Next]_vars
  PROVE  LabelInv'
<1> SUFFICES ASSUME Plain' PROVE LabelInv'
  BY DEF LabelInv
<1> USE DEF lists, history
<1>1. TypeOK /\ ListInv /\ DumpInv
  BY DEF StackInv
<1>2. alive /\ alive' /\ UNCHANGED << build, proc >> /\ Plain
  <2>1. UNCHANGED << build, proc >> /\ (UNCHANGED alive \/ alive' = FALSE)
    BY DEF Next, Step, vars, Vanish, TableStart, NoFrame, Frame, GuessStart, Scan, ScanEnds,
           NoRegisters, CodeStart, CodeLine, StackStart, StackWord, TailStart, TailWord, DumpDone
  <2> QED
    BY <1>1, <2>1 DEF Plain, TypeOK
<1>3. AfterTable = "few"
  BY <1>2 DEF AfterTable, Plain
<1>4. /\ pc \notin {"guess", "scan"}
      /\ pc \in {"table", "frame", "few", "code", "stack"} => InOrder
      /\ pc = "frame" => NextAbove
      /\ pc = "stack" /\ depth > 0 /\ end < Modulus - 1 => Numbering
      /\ pc \in {"tail", "done"} => \A a \in frames : Marked(a)
  BY <1>2 DEF LabelInv
<1>5. CASE TableStart
  <2>1. depth = 0 /\ frames = {} /\ pc = "table"
    <3>1. depth = 0 /\ InOrder
      BY <1>1, <1>4, <1>5 DEF TableStart, ListInv
    <3> QED
      BY <1>5, <3>1 DEF InOrder, Found, TableStart
  <2>2. sp' = proc.sp /\ pc' = "frame"
    BY <1>2, <1>5 DEF TableStart
  <2>3. CASE depth' = 0 /\ UNCHANGED << spList, frames >>
    <3>1. InOrder' /\ NextAbove'
      BY <1>2, <2>1, <2>2, <2>3, Constants DEF InOrder, NextAbove, Found
    <3> QED
      BY <2>2, <3>1 DEF LabelInv
  <2>4. CASE depth' = 1 /\ LogFunction(spList, 0, proc.sp)
    <3>1. spList'[0] = proc.sp /\ frames' = {proc.sp}
      BY <1>1, <2>1, <2>4, Constants DEF LogFunction, TypeOK
    <3>2. Found' = {0} /\ Depth \in Nat /\ Depth >= 3
      BY <2>4, Constants DEF Found
    <3>3. InOrder'
      BY <1>2, <2>4, <3>1, <3>2 DEF InOrder
    <3>4. NextAbove'
      BY <1>2, <2>2, <2>4, <3>1, <3>2 DEF NextAbove
    <3> QED
      BY <2>2, <3>3, <3>4 DEF LabelInv
  <2> QED
    BY <1>2, <1>5, <2>3, <2>4 DEF TableStart
<1>6. CASE NoFrame
  BY <1>2, <1>3, <1>4, <1>6 DEF NoFrame, LabelInv, InOrder, Found
<1>7. CASE Frame
  <2>1. /\ pc = "frame" /\ depth \in Indexes /\ depth' = depth + 1
        /\ LogFunction(spList, depth, sp) /\ InOrder /\ NextAbove
    BY <1>1, <1>4, <1>7 DEF Frame, ListInv
  <2>2. /\ InOrder'
        /\ \A k \in Found' : spList'[k] = IF k = depth THEN sp ELSE spList[k]
    BY <1>1, <1>2, <2>1, LogInOrder
  <2>3. CASE pc' = AfterTable /\ UNCHANGED sp
    BY <1>3, <2>2, <2>3 DEF LabelInv
  <2>4. ASSUME NEW c \in Callers, c[1] = depth, c[2] = sp, Orderly(c), sp' = c[3],
               pc' = IF depth + 1 < Depth THEN "frame" ELSE AfterTable
        PROVE  LabelInv'
    <3>1. depth \in Nat /\ Found' = Found \cup {depth} /\ depth \notin Found
          /\ \A k \in Found : k \in Nat /\ k < depth /\ spList[k] \in Nat
      <4>1. depth \in Nat /\ depth < Depth
        BY <2>1, Constants DEF Indexes
      <4>2. Found' = Found \cup {depth} /\ depth \notin Found
        BY <2>1, <4>1 DEF Found
      <4>3. \A k \in Found : k \in Nat /\ k < depth /\ k \in Indexes
        BY <4>1, Constants DEF Found, Indexes
      <4> QED
        BY <1>1, <4>1, <4>2, <4>3, TypeFacts
    <3>2. sp \in Nat /\ sp' \in Nat /\ (sp < sp' \/ (depth = 0 /\ sp = sp'))
      BY <1>1, <2>4, TypeFacts, CallerFacts DEF Orderly
    <3>3. NextAbove'
      <4>1. ASSUME NEW k \in Found
            PROVE  spList'[k] < sp'
        BY <2>1, <2>2, <3>1, <3>2 DEF NextAbove
      <4>2. spList'[depth] < sp' \/ (depth' = 1 /\ depth = 0 /\ spList'[0] = sp')
        BY <2>1, <2>2, <3>1, <3>2
      <4>3. depth' # 0
        BY <2>1, <3>1
      <4> QED
        BY <3>1, <4>1, <4>2, <4>3 DEF NextAbove
    <3> QED
      BY <1>3, <2>2, <2>4, <3>3 DEF LabelInv
  <2> QED
    BY <1>2, <1>7, <2>3, <2>4 DEF Frame, Plain
<1>8. CASE CodeStart \/ CodeLine
  BY <1>2, <1>4, <1>8 DEF CodeStart, CodeLine, LabelInv, InOrder, Found
<1>9. CASE StackStart
  <2>1. InOrder /\ depth \in Nat /\ UNCHANGED << spList, depth, frames >> /\ pc' = "stack"
    BY <1>4, <1>9 DEF StackStart, InOrder
  <2>2. InOrder'
    BY <1>2, <2>1 DEF InOrder, Found
  <2>3. depth > 0 => Numbering'
    BY <1>2, <1>9, <2>1, StackAssumption, StartNumbers DEF Plain
  <2> QED
    BY <2>1, <2>2, <2>3 DEF LabelInv
<1>10. CASE StackWord
  <2>1. InOrder /\ pc = "stack" /\ pc' = "stack" /\ UNCHANGED << spList, depth, end, frames >>
    BY <1>4, <1>10 DEF StackWord
  <2>2. InOrder'
    BY <1>2, <2>1 DEF InOrder, Found
  <2>3. depth > 0 /\ end < Modulus - 1 => Numbering'
    BY <1>4, <1>10, <2>1, WordKeepsNumbering
  <2> QED
    BY <2>1, <2>2, <2>3 DEF LabelInv
<1>11. CASE TailStart
  <2>1. /\ InOrder /\ pc' = "tail" /\ p > end /\ depth \in Nat
        /\ UNCHANGED << frames, dumped, labels >>
    BY <1>4, <1>11 DEF TailStart, InOrder
  <2>2. depth > 0 => Numbering
    <3>1. p \in Nat /\ end \in Nat /\ p < Modulus /\ p > end /\ pc = "stack"
      <4>1. p \in Value /\ p \in Nat /\ end \in Nat
        BY <1>1, TypeFacts
      <4> QED
        BY <1>11, <4>1, Constants DEF TailStart, Value
    <3>2. end < Modulus - 1
      BY <3>1, Constants
    <3> QED
      BY <1>4, <3>1, <3>2
  <2>3. ASSUME NEW k \in Found PROVE Marked(spList[k])
    <3>1. k \in Nat /\ k <= depth - 1 /\ depth > 0 /\ depth - 1 \in Found
      BY <2>1 DEF Found
    <3>2. spList[k] \in Nat /\ spList[depth - 1] \in Nat /\ p \in Nat
      BY <1>1, <2>1, <3>1, TypeFacts, Constants DEF InOrder, Indexes
    <3>3. spList[k] <= spList[depth - 1]
      BY <2>1, <3>1, <3>2 DEF InOrder
    <3>4. spList[k] < p
      BY <2>1, <2>2, <3>1, <3>2, <3>3 DEF Numbering
    <3> QED
      BY <2>2, <3>1, <3>4 DEF Numbering
  <2> QED
    BY <2>1, <2>3 DEF LabelInv, InOrder, Marked
<1>12. CASE TailWord \/ DumpDone
  BY <1>4, <1>12 DEF TailWord, DumpDone, LabelInv, Marked
<1>13. CASE UNCHANGED vars
  BY <1>2, <1>4, <1>13 DEF vars, LabelInv, InOrder, Found, NextAbove, Numbering, Marked
<1>14. ~Vanish /\ ~GuessStart /\ ~Scan /\ ~ScanEnds /\ ~NoRegisters
  BY <1>2, <1>4 DEF Vanish, GuessStart, Scan, ScanEnds, NoRegisters
<1> QED
  BY <1>5, <1>6, <1>7, <1>8, <1>9, <1>10, <1>11, <1>12, <1>13, <1>14 DEF Next, Step

(* With the table unwinder alone, and frames that lie one above the other, *)
(* every frame that was found is dumped and marked with its number, for    *)
(* any depth and any stacks, if the start of the dump does not wrap:       *)
(* however many frames there are, the dump ends at the last one, and the   *)
(* number it looks for is that of the frame it comes to next.              *)
THEOREM FramesLabelled == Spec => []FramesAreLabelled
<1>1. Init => StackInv /\ LabelInv
  <2> SUFFICES ASSUME Init, Plain PROVE LabelInv
    BY StackInvInit DEF LabelInv
  <2>1. pc = "table" /\ depth = 0 /\ frames = {}
    BY StackAssumption DEF Init, Plain
  <2>2. InOrder
    BY <2>1, Constants DEF InOrder, Found
  <2> QED
    BY <2>1, <2>2 DEF LabelInv
<1>2. (StackInv /\ LabelInv) /\ [Next]_vars => (StackInv /\ LabelInv)'
  BY StackInvStep, LabelInvStep
<1>3. StackInv /\ LabelInv => FramesAreLabelled
  BY DEF LabelInv, Plain, Marked, FramesAreLabelled
<1> QED
  BY <1>1, <1>2, <1>3, PTL DEF Spec
=============================================================================
