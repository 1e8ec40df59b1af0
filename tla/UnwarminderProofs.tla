-------------------------- MODULE UnwarminderProofs --------------------------
(***************************************************************************)
(* Proofs about the McTernan unwinder.                                     *)
(*                                                                         *)
(*  - It ends: it never reports more addresses than the client has room    *)
(*    for, and every step brings it nearer to its end, whatever the code,  *)
(*    the stack and the registers are.                                     *)
(*  - Its hash (MemHash) gives back a word that was written, and a write   *)
(*    disturbs no other word that can be found.                            *)
(*  - It follows the processor: as long as it is not misled, a register or *)
(*    a word that it calls tracked is what the processor has there, and    *)
(*    so are the addresses it reports.  The invariant is Inv, near the     *)
(*    end.  Before it come the arithmetic of words, the hash seen as the   *)
(*    memory, what one instruction does on both sides (Ready, Does, Sound),*)
(*    the instructions of the Thumb and of the ARM half, and the transfers *)
(*    of several registers, which are followed one register at a time.     *)
(***************************************************************************)
EXTENDS Unwarminder, FiniteSetTheorems, WellFoundedInduction, TLAPS

(* The addresses reported so far are a sequence.                           *)
IsSeq(s) == \E S : s \in Seq(S)

(* The client's array is never overrun, and while the unwinder runs there  *)
(* is room for one address more and an instruction left.                   *)
FramesFit ==
  /\ IsSeq(frames)
  /\ Len(frames) <= MaxFrames
  /\ mode \in {"thumb", "arm"}
  /\ result = "RUNNING" => Len(frames) < MaxFrames /\ t \in 1..MaxInstr

----------------------------------------------------------------------------
(* Appending makes a sequence one longer.                                  *)
LEMMA Appended ==
  ASSUME NEW s, IsSeq(s), NEW e
  PROVE  IsSeq(Append(s, e)) /\ Len(s) \in Nat /\ Len(Append(s, e)) = Len(s) + 1
<1>1. PICK S : s \in Seq(S)
  BY DEF IsSeq
<1>2. s \in Seq(S \cup {e})
  BY <1>1
<1>3. Append(s, e) \in Seq(S \cup {e})
  BY <1>2
<1>4. Len(s) \in Nat /\ Len(Append(s, e)) = Len(s) + 1
  BY <1>2
<1> QED BY <1>3, <1>4 DEF IsSeq

(* What an instruction can lead to: the end, the next instruction, a       *)
(* report, or a branch from the ARM to the Thumb half without one.         *)
Counted == mode' = mode /\ (result' = "RUNNING" => t' \in 1..MaxInstr /\ t' < t)

Ended == frames' = frames /\ result' # "RUNNING" /\ mode' = mode
Went == frames' = frames /\ Counted
Crossed == frames' = frames /\ mode = "arm" /\ mode' = "thumb" /\ t' = MaxInstr
Reported ==
  /\ \E a : frames' = Append(frames, a)
  /\ CliReport \/ result' # "RUNNING"
  /\ mode' \in {"thumb", "arm"}
  /\ result' = "RUNNING" => t' \in 1..MaxInstr

Outcome == Ended \/ Went \/ Crossed \/ Reported

(* An instruction is interpreted: the unwinder runs.                       *)
Runs == FramesFit /\ result = "RUNNING"

(* The end of the loop uses up one of the instructions that are counted.   *)
LEMMA EndOfLoopCounts ==
  ASSUME Runs, NEW rs, NEW h, EndOfLoop(rs, h)
  PROVE  Counted
<1>1. t \in 1..MaxInstr /\ MaxInstr \in Nat
  BY CountAssumption DEF Runs, FramesFit
<1>2. CASE rs[15].v = 0
  BY <1>2 DEF EndOfLoop, Stop, Counted
<1>3. CASE rs[15].v # 0
  BY <1>1, <1>3 DEF EndOfLoop, Runs, Counted
<1> QED BY <1>2, <1>3

(* An instruction that goes on to the next has one of the outcomes. *)
LEMMA ContinueGoesOn ==
  ASSUME Runs, NEW rs, NEW h, Continue(rs, h)
  PROVE  Outcome
BY EndOfLoopCounts DEF Continue, Went, Outcome

(* So has one that ends the walk. *)
LEMMA StopEnds ==
  ASSUME NEW r, r # "RUNNING", Stop(r), UNCHANGED frames
  PROVE  Outcome
BY DEF Stop, Ended, Outcome

(* A report that the client does not stop, and where the loop goes on, in  *)
(* this half or in the other; and one that it stops.                       *)
LEMMA ReportGoesOn ==
  ASSUME Runs, NEW a, Report(a), CliReport,
         NEW m \in {"thumb", "arm"}, NEW rs, NEW h, EndOfLoop(rs, h) \/ Enter(m, rs, h)
  PROVE  Outcome
<1>1. mode \in {"thumb", "arm"}
  BY DEF Runs, FramesFit
<1>2. CASE EndOfLoop(rs, h)
  BY <1>1, <1>2, EndOfLoopCounts DEF Report, Counted, Reported, Outcome
<1>3. CASE Enter(m, rs, h)
  BY <1>3, CountAssumption DEF Enter, Report, Reported, Outcome
<1> QED BY <1>2, <1>3

(* A report that the client refuses ends the unwinding.                    *)
LEMMA ReportStops ==
  ASSUME Runs, NEW a, Report(a), Stop("TRUNCATED")
  PROVE  Outcome
BY DEF Runs, FramesFit, Report, Stop, Reported, Outcome

----------------------------------------------------------------------------
(* Every Thumb instruction has one of the outcomes.                        *)
LEMMA ThumbOutcome ==
  ASSUME Runs, NEW i, UnwStartThumb(i)
  PROVE  Outcome
<1>1. CASE ThumbShift(i)
  BY <1>1, ContinueGoesOn DEF ThumbShift
<1>2. CASE ThumbAddSub(i)
  BY <1>2, ContinueGoesOn DEF ThumbAddSub
<1>3. CASE ThumbAddSub3(i)
  BY <1>3, ContinueGoesOn DEF ThumbAddSub3
<1>4. CASE ThumbImmediate(i)
  BY <1>4, ContinueGoesOn DEF ThumbImmediate
<1>5. CASE ThumbAlu(i)
  BY <1>5, ContinueGoesOn DEF ThumbAlu
<1>6. CASE ThumbHigh(i)
  BY <1>6, ContinueGoesOn, StopEnds DEF ThumbHigh
<1>7. CASE ThumbBx(i)
  <2> DEFINE s == regData[i.rs]
  <2>1. CASE s.o # FromStack
    BY <1>7, <2>1, StopEnds DEF ThumbBx
  <2>2. CASE s.o = FromStack
    <3>1. Report(s.v)
      BY <1>7, <2>2 DEF ThumbBx
    <3>2. CASE ~CliReport
      <4>1. Stop("TRUNCATED")
        BY <1>7, <2>2, <3>2 DEF ThumbBx
      <4> QED BY <3>1, <4>1, ReportStops
    <3>3. CASE CliReport
      <4>1. \/ EndOfLoop([regData EXCEPT ![15].v = Word(s.v - 2)], memData)
            \/ Enter("arm", [regData EXCEPT ![15].v = s.v], memData)
        BY <1>7, <2>2, <3>3 DEF ThumbBx
      <4> QED BY <3>1, <3>3, <4>1, ReportGoesOn
    <3> QED BY <3>2, <3>3
  <2> QED BY <2>1, <2>2
<1>8. CASE ThumbLoad(i)
  BY <1>8, ContinueGoesOn, StopEnds DEF ThumbLoad
<1>9. CASE ThumbAddSp(i)
  BY <1>9, ContinueGoesOn DEF ThumbAddSp
<1>10. CASE ThumbPop(i)
  BY <1>10, ContinueGoesOn, StopEnds, ReportGoesOn, ReportStops DEF ThumbPop
<1>11. CASE ThumbPush(i)
  BY <1>11, ContinueGoesOn, StopEnds DEF ThumbPush
<1>12. CASE ThumbBranch(i)
  BY <1>12, ContinueGoesOn DEF ThumbBranch
<1>13. CASE ThumbUnknown
  BY <1>13, ContinueGoesOn DEF ThumbUnknown
<1> QED
  BY <1>1, <1>2, <1>3, <1>4, <1>5, <1>6, <1>7, <1>8, <1>9, <1>10, <1>11, <1>12, <1>13
  DEF UnwStartThumb

----------------------------------------------------------------------------
(* A branch of the ARM half goes on in one of the two.                     *)
LEMMA GoToGoesOn ==
  ASSUME NEW rs, NEW h, NEW to, GoTo(rs, h, to)
  PROVE  \E qs : EndOfLoop(qs, h) \/ Enter("thumb", qs, h)
<1>1. CASE to % 2 = 1
  BY <1>1 DEF GoTo
<1>2. CASE to % 2 # 1
  <2>1. EndOfLoop([rs EXCEPT ![15].v = Word(to - 4)], h)
    BY <1>2 DEF GoTo
  <2> QED BY <2>1
<1> QED BY <1>1, <1>2

(* A jump of the ARM half without a report has one of the outcomes.        *)
LEMMA QuietGoTo ==
  ASSUME Runs, mode = "arm", NEW rs, NEW h, NEW to, GoTo(rs, h, to), UNCHANGED frames
  PROVE  Outcome
<1>1. PICK qs : EndOfLoop(qs, h) \/ Enter("thumb", qs, h)
  BY GoToGoesOn
<1>2. CASE EndOfLoop(qs, h)
  BY <1>2, EndOfLoopCounts DEF Went, Outcome
<1>3. CASE Enter("thumb", qs, h)
  BY <1>3 DEF Enter, Crossed, Outcome
<1> QED BY <1>1, <1>2, <1>3

(* And one that reports a frame and returns to its caller. *)
LEMMA ReportedGoTo ==
  ASSUME Runs, NEW rs, NEW h, NEW to, NEW a, Report(a),
         IF CliReport THEN GoTo(rs, h, to) ELSE Stop("TRUNCATED")
  PROVE  Outcome
<1>1. CASE CliReport
  <2>1. PICK qs : EndOfLoop(qs, h) \/ Enter("thumb", qs, h)
    BY <1>1, GoToGoesOn
  <2> QED BY <1>1, <2>1, ReportGoesOn
<1>2. CASE ~CliReport
  BY <1>2, ReportStops
<1> QED BY <1>1, <1>2

(* Every ARM instruction has one of the outcomes.                          *)
LEMMA ArmOutcome ==
  ASSUME Runs, NEW i, UnwStartArm(i)
  PROVE  Outcome
<1>1. mode = "arm"
  BY DEF UnwStartArm, Running
<1>2. CASE ArmBx(i)
  BY <1>1, <1>2, StopEnds, QuietGoTo, ReportedGoTo DEF ArmBx
<1>3. CASE ArmBranch(i)
  BY <1>3, ContinueGoesOn DEF ArmBranch
<1>4. CASE ArmMrs(i)
  BY <1>4, ContinueGoesOn DEF ArmMrs
<1>5. CASE ArmMsr
  BY <1>5, ContinueGoesOn DEF ArmMsr
<1>6. CASE ArmDataProcessing(i)
  BY <1>6, ContinueGoesOn, StopEnds DEF ArmDataProcessing
<1>7. CASE ArmBlock(i)
  <2>1. CASE RefusedBlock(i)
    BY <1>7, <2>1, StopEnds DEF ArmBlock
  <2>2. CASE TransferBlock(i)
    BY <2>2, ContinueGoesOn, StopEnds, ReportedGoTo DEF TransferBlock
  <2> QED BY <1>7, <2>1, <2>2 DEF ArmBlock
<1>8. CASE ArmUnknown
  BY <1>8, ContinueGoesOn DEF ArmUnknown
<1> QED BY <1>2, <1>3, <1>4, <1>5, <1>6, <1>7, <1>8 DEF UnwStartArm

----------------------------------------------------------------------------
(* Every step is taken while the unwinder runs, and has an outcome.        *)
LEMMA StepOutcome ==
  ASSUME FramesFit, Next
  PROVE  Runs /\ Outcome
<1>1. ASSUME NEW i, Interpret(i) PROVE Runs /\ Outcome
  <2>1. Runs
    BY <1>1 DEF Interpret, UnwStartThumb, UnwStartArm, Running, Runs
  <2> QED BY <1>1, <2>1, ThumbOutcome, ArmOutcome DEF Interpret
<1>2. ASSUME GiveUp PROVE Runs /\ Outcome
  <2>1. Runs
    BY <1>2 DEF GiveUp, CannotInterpret, Runs
  <2> QED BY <1>2, <2>1, StopEnds DEF GiveUp, CannotInterpret
<1> QED BY <1>1, <1>2 DEF Next

(* What an outcome leaves of the room in the client's array.               *)
LEMMA OutcomeFits ==
  ASSUME Runs, Outcome
  PROVE  FramesFit'
<1>1. Len(frames) \in Nat /\ MaxFrames \in Nat /\ MaxInstr \in Nat \ {0}
  BY Appended, CountAssumption DEF Runs, FramesFit
<1>2. CASE Ended
  BY <1>2 DEF Ended, Runs, FramesFit
<1>3. CASE Went
  BY <1>3 DEF Went, Counted, Runs, FramesFit
<1>4. CASE Crossed
  BY <1>1, <1>4 DEF Crossed, Runs, FramesFit
<1>5. CASE Reported
  <2>1. IsSeq(frames') /\ Len(frames') = Len(frames) + 1
    BY <1>5, Appended DEF Reported, Runs, FramesFit
  <2> QED BY <1>1, <1>5, <2>1 DEF Reported, CliReport, Runs, FramesFit
<1> QED BY <1>2, <1>3, <1>4, <1>5 DEF Outcome

(* The addresses reported fit in the client's array (client.c has room for *)
(* 32), however often the halves call each other.                          *)
THEOREM FramesAlwaysFit == Spec => []FramesFit
<1>1. Init => FramesFit
  <2>1. << >> \in Seq({}) /\ Len(<< >>) = 0
    OBVIOUS
  <2> QED BY <2>1, CountAssumption DEF Init, UnwindStart, ModeOf, IsSeq, FramesFit
<1>2. FramesFit /\ [Next]_vars => FramesFit'
  <2>1. CASE Next
    BY <2>1, StepOutcome, OutcomeFits
  <2>2. CASE UNCHANGED vars
    BY <2>2 DEF vars, unwVars, FramesFit
  <2> QED BY <2>1, <2>2
<1> QED BY <1>1, <1>2, PTL DEF Spec

(* Every step comes nearer to the end of unwinding, in the order of: the   *)
(* room that is left for reports, the half, the instructions it has left.  *)
(* Each of the three is bounded (FramesAlwaysFit), so that no code and no  *)
(* stack can keep the unwinder going.                                      *)
THEOREM UnwindingComesNearer == Spec => ComesNearer
<1> DEFINE Nearer == \/ result' # "RUNNING"
                     \/ Len(frames') > Len(frames)
                     \/ frames' = frames /\ mode = "arm" /\ mode' = "thumb"
                     \/ frames' = frames /\ mode' = mode /\ t' < t
<1>1. FramesFit /\ Next => Nearer
  <2> SUFFICES ASSUME FramesFit, Next PROVE Nearer
    OBVIOUS
  <2>1. Runs /\ Outcome
    BY StepOutcome
  <2>2. CASE Reported
    <3>1. Len(frames) \in Nat /\ Len(frames') = Len(frames) + 1
      BY <2>1, <2>2, Appended DEF Reported, Runs, FramesFit
    <3> QED BY <3>1
  <2>3. CASE Ended \/ Went \/ Crossed
    BY <2>3 DEF Ended, Went, Crossed, Counted
  <2> QED BY <2>1, <2>2, <2>3 DEF Outcome
<1>2. FramesFit /\ [Next]_vars => [Nearer]_vars
  BY <1>1
<1> QED BY <1>2, FramesAlwaysFit, PTL DEF Spec, ComesNearer

----------------------------------------------------------------------------
(***************************************************************************)
(* The hash (MemHash).                                                     *)
(***************************************************************************)

IsHash(h) ==
  h \in [used : SUBSET Cells, tracked : SUBSET Cells, a : [Cells -> Nat], v : [Cells -> Nat]]

(* A probe ends at a cell that is free or has the address.                 *)
StopsAt(h, addr, i) == Probe(addr, i) \notin h.used \/ h.a[Probe(addr, i)] = addr

(* The n-th cell that is looked at for an address is the first such cell.  *)
EndsAt(h, addr, n) ==
  /\ n \in Cells
  /\ StopsAt(h, addr, n)
  /\ \A m \in Cells : m < n => ~StopsAt(h, addr, m)

----------------------------------------------------------------------------
(* A probe looks at a cell of the arrays, or the one after them.           *)
LEMMA ProbeIsCell ==
  ASSUME NEW addr \in Nat, NEW i \in Cells
  PROVE  Probe(addr, i) \in Cells
<1>1. \A x, y \in Nat : y > 0 => x % y \in Nat /\ x % y < y
  OBVIOUS
<1>2. addr % HashSize \in Nat
  BY <1>1, HashAssumption
<1>3. (addr % HashSize) + i \in Nat /\ HashSize + 1 \in Nat /\ HashSize + 1 > 0
  BY <1>2, HashAssumption DEF Cells, Overrun
<1>4. ((addr % HashSize) + i) % (HashSize + 1) \in 0..HashSize
  BY <1>1, <1>3, HashAssumption
<1> QED BY <1>4 DEF Probe, Cells, Overrun

(* A set of cells that is not empty has a least member.                    *)
LEMMA LeastCell ==
  ASSUME NEW S, S \subseteq Cells, S # {}
  PROVE  Min(S) \in S /\ \A y \in S : Min(S) <= y
<1>1. S \subseteq Nat
  BY HashAssumption DEF Cells, Overrun
<1>2. PICK x \in S : \A y \in S : ~(<< y, x >> \in OpToRel(<, Nat))
  BY <1>1, NatLessThanWellFounded, WFMin
<1>3. \A y \in S : x <= y
  <2>1. TAKE y \in S
  <2>2. x \in Nat /\ y \in Nat
    BY <1>1
  <2>3. ~(y < x)
    BY <1>2, <2>2 DEF OpToRel
  <2> QED BY <2>2, <2>3
<1> QED BY <1>3 DEF Min

(* What memHashIndex returns is where the probe ends.                      *)
LEMMA IndexIsEnd ==
  ASSUME NEW h, IsHash(h), NEW addr \in Nat, memHashIndex(h, addr) # -1
  PROVE  \E n \in Cells : EndsAt(h, addr, n) /\ memHashIndex(h, addr) = Probe(addr, n)
<1> DEFINE stops == {i \in Cells : StopsAt(h, addr, i)}
<1>1. memHashIndex(h, addr) = IF stops = {} THEN -1 ELSE Probe(addr, Min(stops))
  BY DEF memHashIndex, StopsAt
<1>2. stops # {}
  BY <1>1
<1>3. Min(stops) \in stops /\ \A y \in stops : Min(stops) <= y
  BY <1>2, LeastCell
<1>4. \A m \in Cells : m < Min(stops) => m \notin stops
  BY <1>3, HashAssumption DEF Cells, Overrun
<1>5. EndsAt(h, addr, Min(stops))
  BY <1>3, <1>4 DEF EndsAt
<1> QED BY <1>1, <1>2, <1>3, <1>5

(* A probe ends at one cell only.                                          *)
LEMMA EndIsIndex ==
  ASSUME NEW h, IsHash(h), NEW addr \in Nat, NEW n \in Cells, EndsAt(h, addr, n)
  PROVE  memHashIndex(h, addr) = Probe(addr, n)
<1> DEFINE stops == {i \in Cells : StopsAt(h, addr, i)}
<1>1. memHashIndex(h, addr) = IF stops = {} THEN -1 ELSE Probe(addr, Min(stops))
  BY DEF memHashIndex, StopsAt
<1>2. n \in stops
  BY DEF EndsAt
<1>3. Min(stops) \in stops /\ Min(stops) <= n
  BY <1>2, LeastCell
<1>4. ~(Min(stops) < n)
  BY <1>3 DEF EndsAt
<1>5. Min(stops) = n
  BY <1>3, <1>4, HashAssumption DEF Cells, Overrun
<1> QED BY <1>1, <1>2, <1>5

----------------------------------------------------------------------------
(* g is h but for cell i, a cell of the arrays, which has the address and  *)
(* the value.                                                              *)
StoredAt(h, g, i, addr, val, valid) ==
  /\ IsHash(g)
  /\ i \in 0..(HashSize - 1)
  /\ g.used = h.used \cup {i}
  /\ g.tracked = IF valid THEN h.tracked \cup {i} ELSE h.tracked \ {i}
  /\ g.a = [h.a EXCEPT ![i] = addr]
  /\ g.v = IF valid THEN [h.v EXCEPT ![i] = val] ELSE h.v

(* A write that finds a cell of the arrays changes that cell alone.        *)
LEMMA WrittenCell ==
  ASSUME NEW h, IsHash(h), NEW addr \in Nat, NEW val \in Nat, NEW valid \in BOOLEAN,
         memHashIndex(h, addr) \notin {-1, Overrun},
         NEW g \in UnwMemHashWrite(h, addr, val, valid)
  PROVE  StoredAt(h, g, memHashIndex(h, addr), addr, val, valid)
<1> DEFINE i == memHashIndex(h, addr)
<1>1. i \in Cells
  BY IndexIsEnd, ProbeIsCell
<1>2. i \in 0..(HashSize - 1)
  BY <1>1, HashAssumption DEF Cells, Overrun
<1>3. g = [used    |-> h.used \cup {i},
           tracked |-> IF valid THEN h.tracked \cup {i} ELSE h.tracked \ {i},
           a       |-> [h.a EXCEPT ![i] = addr],
           v       |-> IF valid THEN [h.v EXCEPT ![i] = val] ELSE h.v]
  BY DEF UnwMemHashWrite
<1>4. IsHash(g)
  BY <1>1, <1>3 DEF IsHash
<1> QED BY <1>2, <1>3, <1>4 DEF StoredAt

(* The word just written is read back, with its value if it was known and  *)
(* as untracked otherwise: what UnwMemReadRegister promises of a register  *)
(* that was stored with UnwMemWriteRegister.                               *)
THEOREM WrittenIsRead ==
  ASSUME NEW h, IsHash(h), NEW addr \in Nat, NEW val \in Nat, NEW valid \in BOOLEAN,
         memHashIndex(h, addr) \notin {-1, Overrun},
         NEW g \in UnwMemHashWrite(h, addr, val, valid)
  PROVE  /\ UnwMemHashRead(g, addr).found
         /\ UnwMemHashRead(g, addr).tracked = valid
         /\ valid => UnwMemHashRead(g, addr).data = val
<1> DEFINE i == memHashIndex(h, addr)
<1>1. PICK n \in Cells : EndsAt(h, addr, n) /\ i = Probe(addr, n)
  BY IndexIsEnd
<1>0. StoredAt(h, g, i, addr, val, valid)
  BY WrittenCell
<1>2. /\ IsHash(g)
      /\ i \in 0..(HashSize - 1)
      /\ g.used = h.used \cup {i}
      /\ g.tracked = IF valid THEN h.tracked \cup {i} ELSE h.tracked \ {i}
      /\ g.a = [h.a EXCEPT ![i] = addr]
      /\ g.v = IF valid THEN [h.v EXCEPT ![i] = val] ELSE h.v
  BY <1>0 DEF StoredAt
<1>3. EndsAt(g, addr, n)
  <2>1. StopsAt(g, addr, n)
    <3>1. g.a[i] = addr
      BY <1>1, <1>2, ProbeIsCell DEF IsHash
    <3> QED BY <1>1, <3>1 DEF StopsAt
  <2>2. ASSUME NEW m \in Cells, m < n PROVE ~StopsAt(g, addr, m)
    <3>1. Probe(addr, m) \in h.used /\ h.a[Probe(addr, m)] # addr
      BY <1>1, <2>2 DEF EndsAt, StopsAt
    <3>2. Probe(addr, m) # i
      BY <1>1, <3>1 DEF EndsAt, StopsAt
    <3>3. g.a[Probe(addr, m)] = h.a[Probe(addr, m)]
      BY <1>2, <3>2, ProbeIsCell DEF IsHash
    <3> QED BY <1>2, <3>1, <3>3 DEF StopsAt
  <2> QED BY <2>1, <2>2 DEF EndsAt
<1>4. memHashIndex(g, addr) = i
  BY <1>1, <1>2, <1>3, EndIsIndex
<1>5. i >= 0 /\ i \in g.used /\ (i \in g.tracked <=> valid)
  BY <1>2, HashAssumption
<1>6. valid => g.v[i] = val
  BY <1>1, <1>2, ProbeIsCell DEF IsHash
<1>7. UnwMemHashRead(g, addr) = [found |-> TRUE, data |-> g.v[i], tracked |-> i \in g.tracked]
  BY <1>4, <1>5 DEF UnwMemHashRead
<1> QED BY <1>5, <1>6, <1>7

(* A write takes no other word away: one that was found before is found    *)
(* after it, with the same value.                                          *)
THEOREM OthersAreRead ==
  ASSUME NEW h, IsHash(h), NEW addr \in Nat, NEW val \in Nat, NEW valid \in BOOLEAN,
         memHashIndex(h, addr) \notin {-1, Overrun},
         NEW g \in UnwMemHashWrite(h, addr, val, valid),
         NEW other \in Nat, other # addr, UnwMemHashRead(h, other).found
  PROVE  UnwMemHashRead(g, other) = UnwMemHashRead(h, other)
<1> DEFINE i == memHashIndex(h, addr)
           j == memHashIndex(h, other)
<1>1. PICK n \in Cells : EndsAt(h, addr, n) /\ i = Probe(addr, n)
  BY IndexIsEnd
<1>0. StoredAt(h, g, i, addr, val, valid)
  BY WrittenCell
<1>2. /\ IsHash(g)
      /\ i \in 0..(HashSize - 1)
      /\ g.used = h.used \cup {i}
      /\ g.tracked = IF valid THEN h.tracked \cup {i} ELSE h.tracked \ {i}
      /\ g.a = [h.a EXCEPT ![i] = addr]
      /\ g.v = IF valid THEN [h.v EXCEPT ![i] = val] ELSE h.v
  BY <1>0 DEF StoredAt
<1>3. j >= 0 /\ j \in h.used
  BY DEF UnwMemHashRead
<1>4. j # -1
  BY <1>3
<1>5. PICK k \in Cells : EndsAt(h, other, k) /\ j = Probe(other, k)
  BY <1>4, IndexIsEnd
<1>6. h.a[j] = other
  BY <1>3, <1>5 DEF EndsAt, StopsAt
<1>7. i # j
  BY <1>1, <1>3, <1>6 DEF EndsAt, StopsAt
<1>8. EndsAt(g, other, k)
  <2>1. StopsAt(g, other, k)
    BY <1>2, <1>5, <1>6, <1>7, ProbeIsCell DEF StopsAt, IsHash
  <2>2. ASSUME NEW m \in Cells, m < k PROVE ~StopsAt(g, other, m)
    <3>1. Probe(other, m) \in h.used /\ h.a[Probe(other, m)] # other
      BY <1>5, <2>2 DEF EndsAt, StopsAt
    <3>2. g.a[Probe(other, m)] # other
      BY <1>2, <3>1, ProbeIsCell DEF IsHash
    <3> QED BY <1>2, <3>1, <3>2 DEF StopsAt
  <2> QED BY <1>5, <2>1, <2>2 DEF EndsAt
<1>9. memHashIndex(g, other) = j
  BY <1>2, <1>5, <1>8, EndIsIndex
<1>10. /\ j \in g.used
       /\ (j \in g.tracked) = (j \in h.tracked)
       /\ g.v[j] = h.v[j]
  <2>1. j \in Cells
    BY <1>5, ProbeIsCell
  <2> QED BY <1>2, <1>3, <1>7, <2>1 DEF IsHash
<1>11. UnwMemHashRead(g, other) = [found |-> TRUE, data |-> g.v[j], tracked |-> j \in g.tracked]
  BY <1>3, <1>9, <1>10 DEF UnwMemHashRead
<1>12. UnwMemHashRead(h, other) = [found |-> TRUE, data |-> h.v[j], tracked |-> j \in h.tracked]
  BY <1>3 DEF UnwMemHashRead
<1> QED BY <1>10, <1>11, <1>12

----------------------------------------------------------------------------
(***************************************************************************)
(* Arithmetic of words.                                                    *)
(***************************************************************************)

(* The number of words is positive, and a multiple of 4.                   *)
LEMMA ModulusFacts ==
  /\ Bits \in Nat /\ Modulus \in Nat \ {0} /\ Modulus > 255
  /\ \E q \in Nat : Modulus = 2 * q
<1>1. Bits \in Nat /\ Modulus \in Nat \ {0} /\ Modulus > 255 /\ Modulus % 4 = 0
  BY BitsAssumption, PowersAssumption DEF Modulus
<1> HIDE DEF Modulus
<1>2. Modulus = 4 * (Modulus \div 4)
  BY <1>1
<1>3. 2 * (Modulus \div 4) \in Nat /\ Modulus = 2 * (2 * (Modulus \div 4))
  BY <1>1, <1>2
<1> QED
  BY <1>1, <1>3

(* Division with remainder. *)
LEMMA Division ==
  ASSUME NEW M \in Nat \ {0}, NEW a \in Int
  PROVE  /\ a % M \in 0..(M - 1)
         /\ \E q \in Int : a = (M * q) + (a % M)
<1>1. a \div M \in Int /\ a = (M * (a \div M)) + (a % M)
  OBVIOUS
<1>2. a % M \in 0..(M - 1)
  OBVIOUS
<1> DEFINE d == a \div M
           r == a % M
<1> HIDE DEF d, r
<1>3. d \in Int /\ a = (M * d) + r
  BY <1>1 DEF d, r
<1>4. \E q \in Int : a = (M * q) + r
  BY <1>3
<1> QED
  BY <1>2, <1>4 DEF r

(* The remainder of a number that is written as a multiple and a rest is   *)
(* the rest.                                                               *)
LEMMA Remainder ==
  ASSUME NEW M \in Nat \ {0}, NEW a \in Int, NEW q \in Int, NEW r \in 0..(M - 1),
         a = (M * q) + r
  PROVE  a % M = r
OBVIOUS

(* What is cut to a word is a word, and a word is left as it is.           *)
LEMMA WordFacts ==
  /\ \A x \in Int : Word(x) \in WordSet
  /\ \A x \in WordSet : Word(x) = x /\ x \in Nat
<1>1. Modulus \in Nat \ {0}
  BY ModulusFacts
<1> HIDE DEF Modulus
<1> QED
  BY <1>1 DEF Word, WordSet

(* An intermediate result may be cut to a word, or not.                    *)
LEMMA WordAdds ==
  ASSUME NEW a \in Int, NEW b \in Int
  PROVE  Word(Word(a) + b) = Word(a + b) /\ Word(Word(a) - b) = Word(a - b)
<1> DEFINE M == Modulus
<1>1. M \in Nat \ {0}
  BY ModulusFacts
<1> HIDE DEF M
<1>2. PICK q \in Int : a = M * q + (a % M)
  BY <1>1, Division
<1>3. ASSUME NEW c \in Int PROVE ((a % M) + c) % M = (a + c) % M
  <2> DEFINE x == (a % M) + c
  <2>1. a % M \in Int /\ x \in Int
    BY <1>1
  <2> HIDE DEF x
  <2>2. PICK p \in Int : x = M * p + (x % M)
    BY <1>1, <2>1, Division
  <2>3. a + c = M * q + x
    BY <1>1, <1>2, <2>1 DEF x
  <2>4. x % M \in 0..(M - 1)
    BY <1>1, <2>1
  <2> DEFINE r == x % M
  <2>5. a + c = M * (q + p) + r
    BY <1>1, <2>2, <2>3, <2>4
  <2> HIDE DEF r
  <2>6. (a + c) % M = r
    <3>1. r \in 0..(M - 1) /\ a + c \in Int /\ q + p \in Int
      BY <2>4 DEF r
    <3> QED
      BY <1>1, <2>5, <3>1, Remainder
  <2> QED
    BY <2>6 DEF r, x
<1>4. ((a % M) + b) % M = (a + b) % M
  BY <1>3
<1>5. -b \in Int /\ a + (-b) = a - b /\ (a % M) + (-b) = (a % M) - b
  BY <1>1
<1>6. ((a % M) - b) % M = (a - b) % M
  BY <1>3, <1>5
<1> QED
  BY <1>4, <1>6 DEF Word, M

(* A word is odd if what it was cut from is.                               *)
LEMMA WordParity ==
  ASSUME NEW a \in Int
  PROVE  Word(a) % 2 = a % 2
<1> DEFINE M == Modulus
<1>1. PICK h \in Nat : M = 2 * h
  BY ModulusFacts
<1>2. M \in Nat \ {0}
  BY ModulusFacts
<1> HIDE DEF M
<1>3. PICK q \in Int : a = M * q + (a % M)
  BY <1>2, Division
<1>4. a % M \in Int
  BY <1>2
<1> DEFINE r == a % M
<1> HIDE DEF r
<1>5. r \in Int /\ a = M * q + r
  BY <1>3, <1>4 DEF r
<1>6. M * q = 2 * (h * q)
  BY <1>1
<1> DEFINE k == h * q
<1>7. k \in Int /\ a = 2 * k + r
  BY <1>5, <1>6
<1> HIDE DEF k
<1>8. a % 2 = r % 2
  BY <1>5, <1>7
<1> QED
  BY <1>8 DEF r, Word, M

(* Numbers that are not far apart are cut to different words.              *)
LEMMA WordsApart ==
  ASSUME NEW a \in Int, NEW b \in Int, a - b < Modulus, b - a < Modulus, Word(a) = Word(b)
  PROVE  a = b
<1> DEFINE M == Modulus
<1>1. M \in Nat \ {0} /\ a - b < M /\ b - a < M /\ a % M = b % M
  BY ModulusFacts DEF Word
<1> HIDE DEF M
<1>2. PICK q \in Int : a = M * q + (a % M)
  BY <1>1, Division
<1>3. PICK p \in Int : b = M * p + (b % M)
  BY <1>1, Division
<1>4. a % M \in Int /\ a - b = M * (q - p)
  BY <1>1, <1>2, <1>3
<1> DEFINE d == q - p
<1>5. d \in Int /\ a - b = M * d
  BY <1>4
<1> HIDE DEF d
<1>6. ~(d >= 1)
  BY <1>1, <1>5
<1>7. ~(d <= -1)
  BY <1>1, <1>5
<1>8. d = 0
  BY <1>5, <1>6, <1>7
<1> QED
  BY <1>1, <1>5, <1>8

(* Something that holds for 0, and for k + 1 if it does for k, holds for   *)
(* all numbers up to n: P is the set of the numbers for which it does.     *)
LEMMA UpTo ==
  ASSUME NEW n \in Nat, NEW P, 0 \in P,
         \A k \in 0..(n - 1) : k \in P => k + 1 \in P
  PROVE  0..n \subseteq P
<1> DEFINE D == {k \in 0..n : k \notin P}
<1>1. SUFFICES ASSUME D # {} PROVE FALSE
  OBVIOUS
<1>2. D \subseteq Nat
  OBVIOUS
<1> HIDE DEF D
<1>3. PICK k \in D : \A y \in D : ~(<< y, k >> \in OpToRel(<, Nat))
  BY <1>1, <1>2, NatLessThanWellFounded, WFMin
<1>4. k \in 0..n /\ k \notin P /\ k # 0
  BY <1>3 DEF D
<1>5. k - 1 \in 0..(n - 1) /\ (k - 1) + 1 = k /\ k - 1 \in 0..n
  BY <1>4
<1>6. k - 1 \in D
  BY <1>4, <1>5 DEF D
<1>7. << k - 1, k >> \in OpToRel(<, Nat)
  BY <1>4, <1>5 DEF OpToRel
<1> QED
  BY <1>3, <1>6, <1>7

(* The sums of the first terms of g, up to the nth.                        *)
Sums(f, g, n) ==
  f \in [0..n -> Int] /\ f[0] = 0 /\ \A k \in 1..n : f[k] = f[k - 1] + g[k - 1]

(* Every list of numbers has running sums.                                 *)
LEMMA SumsExist ==
  ASSUME NEW n \in Nat, NEW g, \A k \in 0..(n - 1) : g[k] \in Int
  PROVE  \E f : Sums(f, g, n)
<1> DEFINE P == {k \in 0..n : \E f : Sums(f, g, k)}
<1>1. 0 \in P
  <2> DEFINE f == [x \in 0..0 |-> 0]
  <2>1. f \in [0..0 -> Int] /\ f[0] = 0
    OBVIOUS
  <2> HIDE DEF f
  <2>2. Sums(f, g, 0)
    BY <2>1 DEF Sums
  <2> QED
    BY <2>2
<1>2. ASSUME NEW k \in 0..(n - 1), k \in P PROVE k + 1 \in P
  <2>1. PICK f : Sums(f, g, k)
    BY <1>2
  <2>2. f \in [0..k -> Int] /\ f[0] = 0 /\ \A x \in 1..k : f[x] = f[x - 1] + g[x - 1]
    BY <2>1 DEF Sums
  <2> DEFINE s == f[k] + g[k]
             h == [x \in 0..(k + 1) |-> IF x = k + 1 THEN s ELSE f[x]]
  <2>3. f[k] \in Int /\ g[k] \in Int /\ s \in Int
    BY <2>2
  <2>4. \A x \in 0..k : h[x] = f[x]
    OBVIOUS
  <2>5. h[k + 1] = s /\ h \in [0..(k + 1) -> Int]
    BY <2>2, <2>3
  <2> HIDE DEF h
  <2>6. \A x \in 1..(k + 1) : h[x] = h[x - 1] + g[x - 1]
    <3> SUFFICES ASSUME NEW x \in 1..(k + 1) PROVE h[x] = h[x - 1] + g[x - 1]
      OBVIOUS
    <3>1. x - 1 \in 0..k /\ h[x - 1] = f[x - 1]
      BY <2>4
    <3>2. CASE x = k + 1
      BY <2>5, <3>1, <3>2
    <3>3. CASE x # k + 1
      <4>1. x \in 1..k /\ x \in 0..k
        BY <3>3
      <4> QED
        BY <2>2, <2>4, <3>1, <4>1
    <3> QED
      BY <3>2, <3>3
  <2>7. Sums(h, g, k + 1)
    BY <2>2, <2>4, <2>5, <2>6 DEF Sums
  <2> QED
    BY <2>7
<1> HIDE DEF P
<1>3. 0..n \subseteq P
  BY <1>1, <1>2, UpTo
<1>4. n \in P
  BY <1>3
<1> QED
  BY <1>4 DEF P

(* Bitwise operations, shifts and all others make numbers of numbers.      *)
BitOperations == {"AND", "ORR", "EOR"}

(* A bitwise operation, the sum of its bits, is a number.                  *)
LEMMA LogicIsNumber ==
  ASSUME NEW kind \in BitOperations, NEW a \in Int, NEW b \in Int
  PROVE  Logic(kind, a, b) \in Int
<1> DEFINE T(n) == 2^n * LogicBit(kind, Bit(a, n), Bit(b, n))
           g == [n \in 0..(Bits - 1) |-> T(n)]
           F(f) == [n \in 0..Bits |-> IF n = 0 THEN 0
                      ELSE f[n - 1] + 2^(n - 1) * LogicBit(kind, Bit(a, n - 1), Bit(b, n - 1))]
           P(f) == f = F(f)
<1>0. Bits \in Nat
  BY ModulusFacts
<1>1. \A n \in 0..(Bits - 1) : T(n) \in Int /\ g[n] = T(n)
  <2> SUFFICES ASSUME NEW n \in 0..(Bits - 1) PROVE T(n) \in Int
    OBVIOUS
  <2>1. 2^n \in Nat \ {0}
    BY <1>0, PowersAssumption
  <2> DEFINE p == 2^n
  <2> HIDE DEF p
  <2>2. p \in Nat \ {0}
    BY <2>1 DEF p
  <2>3. (a \div p) % 2 \in Int /\ (b \div p) % 2 \in Int
    BY <2>2
  <2>4. Bit(a, n) \in Int /\ Bit(b, n) \in Int
    BY <2>3 DEF Bit, p
  <2>5. LogicBit(kind, Bit(a, n), Bit(b, n)) \in Int
    BY <2>4 DEF LogicBit, BitOperations
  <2> QED
    BY <2>1, <2>5
<1>2. PICK f : Sums(f, g, Bits)
  BY <1>0, <1>1, SumsExist
<1>3. P(f)
  <2>1. \A n \in 1..Bits : n - 1 \in 0..(Bits - 1) /\ g[n - 1] = T(n - 1)
    BY <1>0, <1>1
  <2>2. \A n \in 0..Bits : f[n] = F(f)[n]
    <3> HIDE DEF g
    <3> SUFFICES ASSUME NEW n \in 0..Bits PROVE f[n] = F(f)[n]
      OBVIOUS
    <3>1. CASE n = 0
      BY <1>2, <3>1 DEF Sums
    <3>2. CASE n # 0
      <4>1. n \in 1..Bits
        BY <1>0, <3>2
      <4>2. f[n] = f[n - 1] + T(n - 1)
        BY <1>2, <2>1, <4>1 DEF Sums
      <4> QED
        BY <3>2, <4>2
    <3> QED
      BY <3>1, <3>2
  <2>3. f \in [0..Bits -> Int]
    BY <1>2 DEF Sums
  <2>4. DOMAIN F(f) = 0..Bits /\ F(f) = [n \in 0..Bits |-> F(f)[n]]
    OBVIOUS
  <2> HIDE DEF F
  <2> QED
    BY <2>2, <2>3, <2>4
<1> DEFINE low == CHOOSE h : P(h)
<1>4. Logic(kind, a, b) = low[Bits]
  BY DEF Logic
<1>5. low = F(low)
  <2> HIDE DEF F
  <2> QED
    BY <1>3
<1> HIDE DEF low
<1>6. low[0] = 0 /\ \A k \in 0..(Bits - 1) : low[k + 1] = low[k] + T(k)
  <2>1. low[0] = 0
    BY <1>0, <1>5
  <2>2. ASSUME NEW k \in 0..(Bits - 1) PROVE low[k + 1] = low[k] + T(k)
    <3>1. k + 1 \in 0..Bits /\ k + 1 # 0 /\ (k + 1) - 1 = k
      BY <1>0
    <3>2. low[k + 1] = F(low)[k + 1]
      BY <1>5
    <3> QED
      BY <3>1, <3>2
  <2> QED
    BY <2>1, <2>2
<1> DEFINE I == {k \in 0..Bits : low[k] \in Int}
<1>7. 0..Bits \subseteq I
  <2>1. 0 \in I
    BY <1>0, <1>6
  <2>2. ASSUME NEW k \in 0..(Bits - 1), k \in I PROVE k + 1 \in I
    <3>1. T(k) \in Int /\ low[k] \in Int /\ k + 1 \in 0..Bits
      BY <1>0, <1>1, <2>2
    <3> HIDE DEF T
    <3> QED
      BY <1>6, <3>1
  <2> HIDE DEF I
  <2> QED
    BY <1>0, <2>1, <2>2, UpTo
<1>8. Bits \in I
  BY <1>0, <1>7
<1> QED
  BY <1>4, <1>8

(* And so is a shifted number.                                             *)
LEMMA ShiftIsNumber ==
  ASSUME NEW kind \in Shift, NEW v \in Int, NEW distance \in Nat
  PROVE  Shifted(kind, v, distance) \in Int
<1> DEFINE low == distance % 256
           n == IF kind = "ROR" THEN low % Bits ELSE IF low > Bits THEN Bits ELSE low
           p == 2^n
           q == 2^(Bits - n)
<1>1. Bits \in Nat \ {0} /\ Modulus \in Nat
  BY ModulusFacts, BitsAssumption
<1>2. n \in 0..Bits /\ Bits - n \in 0..Bits
  <2>1. low \in Nat
    OBVIOUS
  <2> HIDE DEF low
  <2>2. low % Bits \in 0..(Bits - 1)
    BY <1>1, <2>1
  <2> QED
    BY <1>1, <2>1, <2>2
<1>3. p \in Nat \ {0} /\ q \in Nat \ {0}
  <2> HIDE DEF n
  <2> QED
    BY <1>2, PowersAssumption
<1> DEFINE x == CASE kind = "LSL" -> (v % q) * p
                  [] kind = "LSR" -> v \div p
                  [] kind = "ASR" -> v \div p + (IF Negative(v) THEN Modulus - q ELSE 0)
                  [] kind = "ROR" -> v \div p + (v % p) * q
<1>4. Shifted(kind, v, distance) = x
  BY DEF Shifted
<1> HIDE DEF p, q
<1>5. v % q \in Int /\ v % p \in Int /\ v \div p \in Int
  BY <1>3
<1> DEFINE a == v % q
           b == v % p
           d == v \div p
<1> HIDE DEF a, b, d
<1>6. a \in Int /\ b \in Int /\ d \in Int
  BY <1>5 DEF a, b, d
<1>7. x = CASE kind = "LSL" -> a * p
            [] kind = "LSR" -> d
            [] kind = "ASR" -> d + (IF Negative(v) THEN Modulus - q ELSE 0)
            [] kind = "ROR" -> d + b * q
  BY DEF a, b, d
<1> HIDE DEF x
<1>8. x \in Int
  <2>1. Modulus - q \in Int
    BY <1>1, <1>3
  <2>2. a * p \in Int /\ b * q \in Int
    BY <1>3, <1>6
  <2>3. d + b * q \in Int
    BY <1>6, <2>2
  <2>4. d + (IF Negative(v) THEN Modulus - q ELSE 0) \in Int
    BY <1>6, <2>1
  <2> QED
    BY <1>6, <1>7, <2>2, <2>3, <2>4 DEF Shift
<1> QED
  BY <1>4, <1>8

Kinds == {"ADD", "SUB", "RSB", "MUL", "MOV", "MVN", "NEG", "BIC"} \cup BitOperations \cup Shift

(* All but the shifts, of any numbers.                                     *)
LEMMA AluOfNumbers ==
  ASSUME NEW kind \in Kinds \ Shift, NEW a \in WordSet, NEW b \in Int
  PROVE  Alu(kind, a, b) \in Int
<1>1. a \in Int /\ b \in Int /\ Modulus \in Nat
  BY WordFacts, ModulusFacts
<1>2. Complement(b) \in Int
  BY <1>1 DEF Complement
<1>3. CASE kind \in {"ADD", "SUB", "RSB", "MUL", "NEG"}
  <2>1. \A x \in Int : Word(x) \in Int
    BY WordFacts
  <2> HIDE DEF Modulus
  <2>2. a + b \in Int /\ a - b \in Int /\ b - a \in Int /\ a * b \in Int /\ -b \in Int
    BY <1>1
  <2> QED
    BY <1>3, <2>1, <2>2 DEF Alu
<1>4. CASE kind \in {"MOV", "MVN"}
  BY <1>1, <1>2, <1>4 DEF Alu
<1>5. CASE kind \in BitOperations \cup {"BIC"}
  <2>1. \A k \in BitOperations, y \in Int : Logic(k, a, y) \in Int
    BY <1>1, LogicIsNumber
  <2>2. "AND" \in BitOperations
    BY DEF BitOperations
  <2> QED
    BY <1>1, <1>2, <1>5, <2>1, <2>2 DEF Alu, BitOperations
<1> QED
  BY <1>3, <1>4, <1>5 DEF Kinds

(* So the arithmetic unit makes numbers of words.                          *)
LEMMA AluIsNumber ==
  ASSUME NEW kind \in Kinds, NEW a \in WordSet, NEW b \in WordSet
  PROVE  Alu(kind, a, b) \in Int
<1>1. a \in Int /\ b \in Nat /\ b \in Int
  BY WordFacts
<1>2. CASE kind \notin Shift
  BY <1>1, <1>2, AluOfNumbers
<1>3. CASE kind \in Shift
  <2>1. Shifted(kind, a, b) \in Int
    BY <1>1, <1>3, ShiftIsNumber
  <2> QED
    BY <1>3, <2>1 DEF Alu, Shift
<1> QED
  BY <1>2, <1>3

----------------------------------------------------------------------------
(***************************************************************************)
(* The hash and the memory it stands for.                                  *)
(***************************************************************************)

(* The word at an address, 0 where there is no memory.                     *)
At(m, a) == IF a \in DOMAIN m THEN m[a] ELSE 0

(* What is read of memory m, through hash h or else from the process, is   *)
(* what m has there, if it is tracked.                                     *)
Agrees(data, h, m) ==
  \A a \in Nat :
    LET e == UnwMemHashRead(h, a)
    IN  IF e.found THEN e.tracked => e.data = At(m, a)
                   ELSE a \in DOMAIN data => data[a] = At(m, a)

(* A word that is found is in a used cell with its address.                *)
LEMMA FoundIsUsed ==
  ASSUME NEW h, IsHash(h), NEW a \in Nat, UnwMemHashRead(h, a).found
  PROVE  \E c \in h.used : /\ memHashIndex(h, a) = c /\ h.a[c] = a
                           /\ UnwMemHashRead(h, a) =
                                [found |-> TRUE, data |-> h.v[c], tracked |-> c \in h.tracked]
<1> DEFINE i == memHashIndex(h, a)
<1>1. i >= 0 /\ i \in h.used
  BY DEF UnwMemHashRead
<1>2. PICK n \in Cells : EndsAt(h, a, n) /\ i = Probe(a, n)
  BY <1>1, IndexIsEnd
<1>3. h.a[i] = a
  BY <1>1, <1>2 DEF EndsAt, StopsAt
<1>4. UnwMemHashRead(h, a) = [found |-> TRUE, data |-> h.v[i], tracked |-> i \in h.tracked]
  BY <1>1 DEF UnwMemHashRead
<1> QED
  BY <1>1, <1>3, <1>4

(* If no word is lost, every used cell is found by its address.            *)
LEMMA UsedIsFound ==
  ASSUME NEW h, IsHash(h), ~Lost(h), NEW c \in h.used
  PROVE  h.a[c] \in Nat /\ UnwMemHashRead(h, h.a[c]).found
<1>1. c \in Cells /\ h.a[c] \in Nat
  BY DEF IsHash
<1>2. memHashIndex(h, h.a[c]) \in h.used
  BY DEF Lost
<1>3. memHashIndex(h, h.a[c]) >= 0
  BY <1>2, HashAssumption DEF IsHash, Cells, Overrun
<1> QED
  BY <1>1, <1>2, <1>3 DEF UnwMemHashRead

(* The words below the stack pointer are freed: those that are found are   *)
(* found in the cells they were found in, the others are the process's.    *)
LEMMA FreedAgrees ==
  ASSUME NEW data, NEW m, NEW mm, NEW h, IsHash(h), NEW sp \in Nat,
         Agrees(data, h, m), DOMAIN data \subseteq DOMAIN m,
         ~Overran(UnwMemHashGC(h, sp)), ~Lost(UnwMemHashGC(h, sp)),
         \A a \in Nat : At(mm, a) = IF a >= sp THEN At(m, a) ELSE At(data, a)
  PROVE  IsHash(UnwMemHashGC(h, sp)) /\ Agrees(data, UnwMemHashGC(h, sp), mm)
<1> DEFINE g == UnwMemHashGC(h, sp)
<1>1. g.used = {c \in h.used : c = Overrun \/ h.a[c] >= sp} /\ g.a = h.a /\ g.v = h.v
      /\ g.tracked = h.tracked /\ IsHash(g)
  BY DEF UnwMemHashGC, IsHash
<1> HIDE DEF g
<1>2. \A c \in g.used : h.a[c] >= sp /\ c \in h.used
  BY <1>1 DEF Overran, g
<1> SUFFICES ASSUME NEW a \in Nat
             PROVE  IF UnwMemHashRead(g, a).found
                    THEN UnwMemHashRead(g, a).tracked => UnwMemHashRead(g, a).data = At(mm, a)
                    ELSE a \in DOMAIN data => data[a] = At(mm, a)
  BY <1>1 DEF Agrees, g
<1>4. a \in Nat
  OBVIOUS
<1>5. CASE UnwMemHashRead(g, a).found
  <2>1. PICK c \in g.used : /\ memHashIndex(g, a) = c /\ g.a[c] = a
                            /\ UnwMemHashRead(g, a) =
                                 [found |-> TRUE, data |-> g.v[c], tracked |-> c \in g.tracked]
    BY <1>1, <1>4, <1>5, FoundIsUsed
  <2>2. c \in Cells /\ c \in h.used /\ h.a[c] = a /\ a >= sp
    BY <1>1, <1>2, <2>1 DEF IsHash
  <2>3. c # -1 /\ c >= 0
    BY <2>2, HashAssumption DEF Cells, Overrun
  <2>4. PICK n \in Cells : EndsAt(g, a, n) /\ c = Probe(a, n)
    BY <1>1, <1>4, <2>1, <2>3, IndexIsEnd
  <2>5. EndsAt(h, a, n)
    BY <1>1, <2>2, <2>4 DEF EndsAt, StopsAt
  <2>6. memHashIndex(h, a) = c
    BY <1>4, <2>4, <2>5, EndIsIndex
  <2>7. UnwMemHashRead(h, a) = UnwMemHashRead(g, a)
    BY <1>1, <2>1, <2>2, <2>3, <2>6 DEF UnwMemHashRead
  <2>8. UnwMemHashRead(h, a).tracked => UnwMemHashRead(h, a).data = At(m, a)
    BY <1>5, <2>7 DEF Agrees
  <2> QED
    BY <1>4, <1>5, <2>2, <2>7, <2>8
<1>6. CASE ~UnwMemHashRead(g, a).found
  <2> SUFFICES ASSUME a \in DOMAIN data PROVE data[a] = At(mm, a)
    BY <1>6
  <2>1. CASE a >= sp
    <3>1. ~UnwMemHashRead(h, a).found
      <4>1. SUFFICES ASSUME UnwMemHashRead(h, a).found PROVE FALSE
        OBVIOUS
      <4>2. PICK c \in h.used : h.a[c] = a
        BY <1>4, <4>1, FoundIsUsed
      <4>3. c \in g.used /\ g.a[c] = a
        BY <1>1, <2>1, <4>2
      <4>4. ~Lost(g)
        BY DEF g
      <4> QED
        BY <1>1, <1>6, <4>3, <4>4, UsedIsFound
    <3> QED
      BY <1>4, <2>1, <3>1 DEF Agrees
  <2>2. CASE ~(a >= sp)
    BY <1>4, <2>2 DEF At
  <2> QED
    BY <2>1, <2>2
<1> QED
  BY <1>5, <1>6

(* A value that is not tracked is not kept.                                *)
LEMMA UntrackedWrite ==
  ASSUME NEW h, NEW a, NEW val
  PROVE  UnwMemHashWrite(h, a, val, FALSE) = UnwMemHashWrite(h, a, 0, FALSE)
BY DEF UnwMemHashWrite

(* A write to a cell of the arrays, of a value that is w if it is tracked, *)
(* beside a write of w to memory m, which becomes mm.                      *)
Writing(data, m, mm, h, a, val, valid, w, g) ==
  /\ IsHash(h) /\ ~Lost(h) /\ a \in WordSet /\ val \in Nat /\ valid \in BOOLEAN
  /\ memHashIndex(h, a) \notin {-1, Overrun}
  /\ g \in UnwMemHashWrite(h, a, val, valid)
  /\ Agrees(data, h, m)
  /\ valid => val = w
  /\ \A b \in Nat : At(mm, b) = IF b = a THEN w ELSE At(m, b)

(* It loses no word, and what is read agrees with the memory after it.     *)
LEMMA WriteAgrees ==
  ASSUME NEW data, NEW m, NEW mm, NEW h, NEW a, NEW val, NEW valid, NEW w, NEW g,
         Writing(data, m, mm, h, a, val, valid, w, g)
  PROVE  IsHash(g) /\ ~Lost(g) /\ Agrees(data, g, mm)
<1> SUFFICES ASSUME IsHash(h), ~Lost(h), a \in WordSet, val \in Nat, valid \in BOOLEAN,
                    memHashIndex(h, a) \notin {-1, Overrun},
                    g \in UnwMemHashWrite(h, a, val, valid),
                    Agrees(data, h, m), valid => val = w,
                    \A b \in Nat : At(mm, b) = IF b = a THEN w ELSE At(m, b)
             PROVE  IsHash(g) /\ ~Lost(g) /\ Agrees(data, g, mm)
  BY DEF Writing
<1> DEFINE i == memHashIndex(h, a)
<1>0. a \in Nat /\ WordSet \subseteq Nat
  BY WordFacts
<1>1. StoredAt(h, g, i, a, val, valid)
  BY <1>0, WrittenCell
<1>2. IsHash(g) /\ i \in Cells /\ g.used = h.used \cup {i} /\ g.a = [h.a EXCEPT ![i] = a]
  BY <1>1, HashAssumption DEF StoredAt, Cells, Overrun
<1> HIDE DEF i
<1>3. i \in h.used => h.a[i] = a
  <2>1. i # -1 /\ i >= 0
    BY <1>2, HashAssumption DEF Cells, Overrun
  <2>2. i = memHashIndex(h, a)
    BY DEF i
  <2>3. i \in h.used => UnwMemHashRead(h, a).found
    BY <2>1, <2>2 DEF UnwMemHashRead
  <2> QED
    BY <1>0, <2>2, <2>3, FoundIsUsed
<1>4. \A c \in g.used : IF c = i THEN g.a[c] = a ELSE c \in h.used /\ g.a[c] = h.a[c] /\ h.a[c] \in Nat
  BY <1>2 DEF IsHash
<1>5. /\ UnwMemHashRead(g, a).found
      /\ UnwMemHashRead(g, a).tracked = valid
      /\ valid => UnwMemHashRead(g, a).data = val
  BY <1>0, WrittenIsRead
<1>6. ASSUME NEW b \in Nat, b # a, UnwMemHashRead(h, b).found
      PROVE  UnwMemHashRead(g, b) = UnwMemHashRead(h, b)
  BY <1>0, <1>6, OthersAreRead
<1>7. \A c \in g.used : UnwMemHashRead(g, g.a[c]).found
  <2> SUFFICES ASSUME NEW c \in g.used PROVE UnwMemHashRead(g, g.a[c]).found
    OBVIOUS
  <2>1. CASE g.a[c] = a
    BY <1>5, <2>1
  <2>2. CASE g.a[c] # a
    <3>1. c \in h.used /\ g.a[c] = h.a[c] /\ h.a[c] \in Nat
      BY <1>4, <2>2
    <3>2. UnwMemHashRead(h, h.a[c]).found
      BY <3>1, UsedIsFound
    <3> QED
      BY <1>6, <2>2, <3>1, <3>2
  <2> QED
    BY <2>1, <2>2
<1>8. ~Lost(g)
  BY <1>7 DEF UnwMemHashRead, Lost
<1>9. ASSUME NEW b \in Nat
      PROVE  IF UnwMemHashRead(g, b).found
             THEN UnwMemHashRead(g, b).tracked => UnwMemHashRead(g, b).data = At(mm, b)
             ELSE b \in DOMAIN data => data[b] = At(mm, b)
  <2>0. b \in Nat
    OBVIOUS
  <2>1. CASE b = a
    BY <1>5, <2>1
  <2>2. CASE b # a /\ UnwMemHashRead(h, b).found
    <3>1. UnwMemHashRead(g, b) = UnwMemHashRead(h, b)
      BY <1>6, <2>0, <2>2
    <3>2. UnwMemHashRead(h, b).tracked => UnwMemHashRead(h, b).data = At(m, b)
      BY <2>2 DEF Agrees
    <3> QED
      BY <2>2, <3>1, <3>2
  <2>3. CASE b # a /\ ~UnwMemHashRead(h, b).found
    <3>1. ~UnwMemHashRead(g, b).found
      <4>1. SUFFICES ASSUME UnwMemHashRead(g, b).found PROVE FALSE
        OBVIOUS
      <4>0. IsHash(g)
        BY <1>2
      <4>2. PICK c \in g.used : g.a[c] = b
        BY <2>0, <4>0, <4>1, FoundIsUsed
      <4>3. c \in h.used /\ h.a[c] = b
        BY <1>4, <2>3, <4>2
      <4> QED
        BY <2>3, <4>3, UsedIsFound
    <3>2. b \in DOMAIN data => data[b] = At(m, b)
      BY <2>3 DEF Agrees
    <3> QED
      BY <2>3, <3>1, <3>2
  <2> QED
    BY <2>1, <2>2, <2>3
<1> QED
  BY <1>2, <1>8, <1>9 DEF Agrees

----------------------------------------------------------------------------
(***************************************************************************)
(* One instruction on both sides: the unwinder follows the processor.      *)
(***************************************************************************)

(* Registers are values with an origin.                                    *)
IsRegisters(rs) == rs = [r \in Regs |-> [v |-> rs[r].v, o |-> rs[r].o]]

Words(m) == \A a \in DOMAIN m : m[a] \in WordSet

(* What is known of the unwinder beside the processor, as long as it is    *)
(* not misled.                                                             *)
Follows(rs, h, m, rl, mm, data) ==
  /\ IsRegisters(rs)
  /\ rl \in [Regs -> WordSet]
  /\ \A r \in Regs : Valid(rs[r].o) => rs[r].v = rl[r]
  /\ DOMAIN data \subseteq DOMAIN mm /\ Words(mm)
  /\ Valid(rs[15].o) => m = ModeOf(rl[15])
  /\ Valid(rs[13].o) => IsHash(h) /\ ~Overran(h) /\ ~Lost(h) /\ Agrees(data, h, mm)

Follower == Follows(regData, memData, mode, real, mem, image.data)

(* An instruction is interpreted.                                          *)
Before ==
  /\ image \in Images
  /\ mode \in {"thumb", "arm"}
  /\ IsSeq(frames) /\ Interpretable
  /\ Follower

(* The end of an instruction of the processor, which has taken the         *)
(* registers to rl and the memory to mm.                                   *)
Does(rl, mm) ==
  LET kept == {a \in DOMAIN mm : a >= rl[13]}
  IN  /\ real' = rl
      /\ mem' = [a \in kept \cup DOMAIN image.data |-> IF a \in kept THEN mm[a] ELSE image.data[a]]

(* The unwinder has followed the instruction, but for register 15.         *)
Ready(rs, h, rl, mm) ==
  /\ IsRegisters(rs)
  /\ rl \in [Regs -> WordSet]
  /\ \A r \in Regs \ {15} : Valid(rs[r].o) => rs[r].v = rl[r]
  /\ DOMAIN image.data \subseteq DOMAIN mm /\ Words(mm)
  /\ Valid(rs[13].o) => IsHash(h) /\ Agrees(image.data, h, mm)

(* It does not notice that it is misled.                                   *)
Led == /\ image' = image
       /\ ~Overran(memData') /\ ~Lost(memData') /\ ~Stale(memData', regData'[13].v)

(* What an instruction is to keep up.                                      *)
Sound ==
  /\ result' = "RUNNING" => Follower'
  /\ frames' # frames => Last(frames') = real'[15]

(* The memory after the words below the stack pointer are given up.        *)
LEMMA TrimmedMemory ==
  ASSUME image \in Images, NEW rl \in [Regs -> WordSet], NEW mm, Does(rl, mm),
         DOMAIN image.data \subseteq DOMAIN mm, Words(mm)
  PROVE  /\ DOMAIN image.data \subseteq DOMAIN mem' /\ Words(mem')
         /\ \A a \in Nat : At(mem', a) = IF a >= rl[13] THEN At(mm, a) ELSE At(image.data, a)
<1> DEFINE kept == {a \in DOMAIN mm : a >= rl[13]}
<1>1. mem' = [a \in kept \cup DOMAIN image.data |-> IF a \in kept THEN mm[a] ELSE image.data[a]]
  BY DEF Does
<1>2. \A a \in DOMAIN image.data : image.data[a] \in WordSet
  BY ImageAssumption
<1>3. \A a \in kept : mm[a] \in WordSet
  BY DEF Words
<1>4. Words(mem')
  BY <1>1, <1>2, <1>3 DEF Words
<1>5. ASSUME NEW a \in Nat
      PROVE  At(mem', a) = IF a >= rl[13] THEN At(mm, a) ELSE At(image.data, a)
  <2>1. CASE a >= rl[13] /\ a \in DOMAIN mm
    BY <1>1, <2>1 DEF At
  <2>2. CASE a >= rl[13] /\ a \notin DOMAIN mm
    BY <1>1, <2>2 DEF At
  <2>3. CASE ~(a >= rl[13])
    BY <1>1, <2>3 DEF At
  <2> QED
    BY <2>1, <2>2, <2>3
<1> QED
  BY <1>1, <1>4, <1>5

(* An instruction is done with.                                            *)
LEMMA Settled ==
  ASSUME image \in Images, image' = image,
         NEW rs, NEW h, NEW rl, NEW mm, Ready(rs, h, rl, mm), Does(rl, mm),
         NEW x, regData' = [rs EXCEPT ![15].v = x],
         Valid(rs[15].o) => x = rl[15] /\ mode' = ModeOf(rl[15]),
         Valid(rs[13].o) => memData' = UnwMemHashGC(h, rl[13]),
         ~Overran(memData'), ~Lost(memData')
  PROVE  Follower'
<1>0. rl \in [Regs -> WordSet] /\ 13 \in Regs /\ 15 \in Regs
  BY DEF Ready, Regs
<1>1. /\ DOMAIN image.data \subseteq DOMAIN mem' /\ Words(mem')
      /\ \A a \in Nat : At(mem', a) = IF a >= rl[13] THEN At(mm, a) ELSE At(image.data, a)
  BY <1>0, TrimmedMemory DEF Ready
<1>2. \A r \in Regs : rs[r] = [v |-> rs[r].v, o |-> rs[r].o]
  BY DEF Ready, IsRegisters
<1>3. DOMAIN rs = Regs
  BY DEF Ready, IsRegisters
<1>4. \A r \in Regs : /\ regData'[r].o = rs[r].o
                      /\ regData'[r].v = IF r = 15 THEN x ELSE rs[r].v
                      /\ regData'[r] = [v |-> regData'[r].v, o |-> regData'[r].o]
  BY <1>0, <1>2, <1>3
<1>5. IsRegisters(regData')
  BY <1>3, <1>4 DEF IsRegisters
<1>6. real' = rl
  BY DEF Does
<1>7. \A r \in Regs : Valid(regData'[r].o) => regData'[r].v = rl[r]
  BY <1>4 DEF Ready
<1>8. ASSUME Valid(rs[13].o)
      PROVE  IsHash(memData') /\ Agrees(image.data, memData', mem')
  <2>1. rl[13] \in Nat
    BY <1>0, WordFacts
  <2>2. IsHash(h) /\ Agrees(image.data, h, mm) /\ DOMAIN image.data \subseteq DOMAIN mm
    BY <1>8 DEF Ready
  <2>3. memData' = UnwMemHashGC(h, rl[13])
    BY <1>8
  <2> QED
    BY <1>1, <2>1, <2>2, <2>3, FreedAgrees
<1> QED
  BY <1>0, <1>1, <1>4, <1>5, <1>6, <1>7, <1>8 DEF Follower, Follows

(* The width of an instruction. *)
Wide == IF mode = "thumb" THEN 2 ELSE 4

(* At the end of an instruction the unwinder still follows the processor,  *)
(* if its register 15, moved on, is where the processor is.                *)
LEMMA EndOfLoopFollows ==
  ASSUME image \in Images, Led,
         NEW rs, NEW h, NEW rl, NEW mm, Ready(rs, h, rl, mm), Does(rl, mm), EndOfLoop(rs, h),
         Valid(rs[15].o) => Word(rs[15].v + Wide) = rl[15] /\ mode = ModeOf(rl[15])
  PROVE  result' = "RUNNING" => Follower'
<1> SUFFICES ASSUME result' = "RUNNING" PROVE Follower'
  OBVIOUS
<1> DEFINE x == Word(rs[15].v + Wide)
<1>1. mode' = mode /\ memData' = UnwMemHashGC(h, rs[13].v)
      /\ regData' = [rs EXCEPT ![15].v = Word(@ + Wide)]
  BY DEF EndOfLoop, Stop, Wide
<1>2. regData' = [rs EXCEPT ![15].v = x]
  <2>1. rs[15] = [v |-> rs[15].v, o |-> rs[15].o]
    BY DEF Ready, IsRegisters, Regs
  <2> QED
    BY <1>1, <2>1
<1>3. Valid(rs[13].o) => rs[13].v = rl[13]
  BY DEF Ready, Regs
<1>4. Valid(rs[15].o) => x = rl[15] /\ mode' = ModeOf(rl[15])
  BY <1>1
<1>5. Valid(rs[13].o) => memData' = UnwMemHashGC(h, rl[13])
  BY <1>1, <1>3
<1>6. image' = image /\ ~Overran(memData') /\ ~Lost(memData')
  BY DEF Led
<1> HIDE DEF x
<1> QED
  BY <1>2, <1>4, <1>5, <1>6, Settled

(* On entering a half of the unwinder (which does not move register 15) it *)
(* still follows, if the half is the one for the processor's mode.         *)
LEMMA EnterFollows ==
  ASSUME image \in Images, Led,
         NEW rs, NEW h, NEW rl, NEW mm, Ready(rs, h, rl, mm), Does(rl, mm),
         NEW m, Enter(m, rs, h),
         Valid(rs[15].o) => rs[15].v = rl[15] /\ m = ModeOf(rl[15])
  PROVE  Follower'
<1>1. mode' = m /\ memData' = h /\ regData' = rs
  BY DEF Enter
<1>2. rs = [rs EXCEPT ![15].v = rs[15].v]
  <2>1. rs = [r \in Regs |-> [v |-> rs[r].v, o |-> rs[r].o]]
    BY DEF Ready, IsRegisters
  <2> QED
    BY <2>1
<1>3. ASSUME Valid(rs[13].o) PROVE h = UnwMemHashGC(h, rl[13])
  <2>1. IsHash(h) /\ rs[13].v = rl[13] /\ rl[13] \in Nat
    BY <1>3, WordFacts DEF Ready, Regs
  <2>2. \A c \in h.used : c = Overrun \/ h.a[c] >= rl[13]
    <3> SUFFICES ASSUME NEW c \in h.used, c # Overrun PROVE h.a[c] >= rl[13]
      OBVIOUS
    <3>1. ~(h.a[c] < rl[13])
      BY <1>1, <2>1 DEF Led, Stale
    <3>2. h.a[c] \in Nat
      BY <2>1 DEF IsHash
    <3> QED
      BY <2>1, <3>1, <3>2
  <2>3. h.used = {c \in h.used : c = Overrun \/ h.a[c] >= rl[13]}
    BY <2>2
  <2> QED
    BY <2>1, <2>3 DEF UnwMemHashGC, IsHash
<1> QED
  BY <1>1, <1>2, <1>3, Settled DEF Led

(* What is known before an instruction.                                    *)
LEMMA BeforeFacts ==
  ASSUME Before
  PROVE  /\ Bits \in Nat /\ Wide \in {2, 4} /\ Width = Wide
         /\ \A r \in Regs : regData[r] = [v |-> regData[r].v, o |-> regData[r].o]
         /\ regData = [r \in Regs |-> regData[r]]
         /\ real \in [Regs -> WordSet]
         /\ \A r \in Regs : Tracked(r) => regData[r].v = real[r]
         /\ Tracked(13) /\ Tracked(15) /\ Sp = real[13] /\ Pc = real[15]
         /\ mode = "thumb" <=> real[15] % 2 = 1
         /\ DOMAIN image.data \subseteq DOMAIN mem /\ Words(mem)
         /\ IsHash(memData) /\ ~Overran(memData) /\ ~Lost(memData) /\ Agrees(image.data, memData, mem)
<1>1. Follows(regData, memData, mode, real, mem, image.data) /\ Interpretable
      /\ mode \in {"thumb", "arm"}
  BY DEF Before, Follower
<1>2. Tracked(13) /\ Tracked(15) /\ 13 \in Regs /\ 15 \in Regs
  BY <1>1 DEF Interpretable, Tracked, Regs
<1>3. /\ real \in [Regs -> WordSet] /\ IsRegisters(regData)
      /\ \A r \in Regs : Tracked(r) => regData[r].v = real[r]
      /\ DOMAIN image.data \subseteq DOMAIN mem /\ Words(mem)
      /\ mode = ModeOf(real[15])
      /\ IsHash(memData) /\ ~Overran(memData) /\ ~Lost(memData) /\ Agrees(image.data, memData, mem)
  BY <1>1, <1>2 DEF Follows, Tracked
<1>4. /\ \A r \in Regs : regData[r] = [v |-> regData[r].v, o |-> regData[r].o]
      /\ regData = [r \in Regs |-> regData[r]]
  BY <1>3 DEF IsRegisters
<1>5. mode = "thumb" <=> real[15] % 2 = 1
  BY <1>3 DEF ModeOf
<1>6. Wide \in {2, 4} /\ Width = Wide
  BY <1>5 DEF Wide, Width, InThumb
<1>7. Sp = real[13] /\ Pc = real[15]
  BY <1>2, <1>3 DEF Sp, Pc
<1> QED
  BY <1>2, <1>3, <1>4, <1>5, <1>6, <1>7, ModulusFacts

(* The next instruction is one of the same half.                           *)
LEMMA NextPc ==
  ASSUME Before, NEW x \in Int, x % 2 = real[15] % 2
  PROVE  Word(x) \in WordSet /\ mode = ModeOf(Word(x))
<1>1. Word(x) % 2 = real[15] % 2
  BY WordParity
<1>2. mode \in {"thumb", "arm"}
  BY DEF Before
<1> QED
  BY <1>1, <1>2, BeforeFacts, WordFacts DEF ModeOf

(* The next instruction is the same one for both, and in the same mode.    *)
LEMMA PcOnwards ==
  ASSUME Before
  PROVE  /\ Word(regData[15].v + Wide) = Word(real[15] + Width)
         /\ Word(real[15] + Width) \in WordSet /\ mode = ModeOf(Word(real[15] + Width))
<1>1. regData[15].v = real[15] /\ Width = Wide /\ Wide \in {2, 4}
  BY BeforeFacts DEF Pc
<1>2. real[15] \in Nat
  BY BeforeFacts, WordFacts DEF Regs
<1>3. real[15] + Width \in Int /\ (real[15] + Width) % 2 = real[15] % 2
  BY <1>1, <1>2
<1> QED
  BY <1>1, <1>3, NextPc

(* An instruction that goes on to the next.                                *)
LEMMA ContinueSound ==
  ASSUME Before, Led,
         NEW rs, NEW h, NEW rl, NEW mm, Ready(rs, h, rl, mm), Does(rl, mm), Continue(rs, h),
         Valid(rs[15].o) => Word(rs[15].v + Wide) = rl[15] /\ mode = ModeOf(rl[15])
  PROVE  Sound
<1>1. EndOfLoop(rs, h) /\ frames' = frames
  BY DEF Continue
<1> QED
  BY <1>1, EndOfLoopFollows DEF Before, Sound

(* One that ends the walk.                                                 *)
LEMMA StopSound ==
  ASSUME NEW r, r # "RUNNING", Stop(r), UNCHANGED frames
  PROVE  Sound
BY DEF Stop, Sound

(* What is appended is last.                                               *)
LEMMA AppendedIsLast ==
  ASSUME Before, NEW a, Report(a)
  PROVE  Last(frames') = a
<1>1. PICK S : frames \in Seq(S)
  BY DEF Before, IsSeq
<1>2. frames \in Seq(S \cup {a}) /\ a \in S \cup {a}
  BY <1>1
<1>3. Append(frames, a)[Len(Append(frames, a))] = a
  BY <1>2
<1> QED
  BY <1>3 DEF Report, Last

(* One that sets a register other than 15.                                 *)
LEMMA SetSound ==
  ASSUME Before, Led, NEW r \in Regs \ {15}, NEW v, NEW o, NEW y \in Int,
         Continue([regData EXCEPT ![r] = [v |-> v, o |-> o]], memData), Does(Set(r, y), mem),
         Valid(o) => v = Word(y)
  PROVE  Sound
<1> DEFINE rs == [regData EXCEPT ![r] = [v |-> v, o |-> o]]
           rl == Set(r, y)
<1>0. /\ real \in [Regs -> WordSet] /\ regData = [q \in Regs |-> regData[q]]
      /\ \A q \in Regs : regData[q] = [v |-> regData[q].v, o |-> regData[q].o]
      /\ \A q \in Regs : Valid(regData[q].o) => regData[q].v = real[q]
  BY BeforeFacts DEF Tracked
<1>1. Word(y) \in WordSet /\ Word(real[15] + Width) \in WordSet
  BY WordFacts, PcOnwards
<1>2. rl = [real EXCEPT ![r] = Word(y), ![15] = Word(real[15] + Width)]
  BY <1>0 DEF Set, Onwards, Regs
<1>3. /\ rl \in [Regs -> WordSet] /\ rl[15] = Word(real[15] + Width) /\ rl[r] = Word(y)
      /\ \A q \in Regs \ {r, 15} : rl[q] = real[q]
  BY <1>0, <1>1, <1>2 DEF Regs
<1>4. /\ rs[r] = [v |-> v, o |-> o] /\ rs[15] = regData[15] /\ DOMAIN rs = Regs
      /\ \A q \in Regs \ {r} : rs[q] = regData[q]
  BY <1>0 DEF Regs
<1>5. rs = [q \in Regs |-> [v |-> rs[q].v, o |-> rs[q].o]]
  BY <1>0, <1>4
<1>6. \A q \in Regs \ {15} : Valid(rs[q].o) => rs[q].v = rl[q]
  <2> SUFFICES ASSUME NEW q \in Regs \ {15}, Valid(rs[q].o) PROVE rs[q].v = rl[q]
    OBVIOUS
  <2>1. CASE q = r
    BY <1>3, <1>4, <2>1
  <2>2. CASE q # r
    BY <1>0, <1>3, <1>4, <2>2
  <2> QED
    BY <2>1, <2>2
<1> HIDE DEF rs, rl
<1>7. Ready(rs, memData, rl, mem)
  BY <1>3, <1>5, <1>6, BeforeFacts DEF Ready, IsRegisters
<1>8. Word(rs[15].v + Wide) = rl[15] /\ mode = ModeOf(rl[15])
  BY <1>3, <1>4, PcOnwards
<1> QED
  BY <1>7, <1>8, ContinueSound DEF rs, rl

(* One that tracks fewer registers, and leaves those that it tracks.       *)
LEMMA KeepSound ==
  ASSUME Before, Led, NEW rs, NEW rl \in [Regs -> WordSet],
         Continue(rs, memData), Does(rl, mem), IsRegisters(rs),
         \A r \in Regs \ {15} : Valid(rs[r].o) => Tracked(r) /\ rs[r].v = regData[r].v /\ rl[r] = real[r],
         Valid(rs[15].o) => rs[15].v = regData[15].v /\ rl[15] = Word(real[15] + Width)
  PROVE  Sound
<1>1. \A r \in Regs \ {15} : Valid(rs[r].o) => rs[r].v = rl[r]
  BY BeforeFacts
<1>2. Ready(rs, memData, rl, mem)
  BY <1>1, BeforeFacts DEF Ready
<1>3. Valid(rs[15].o) => Word(rs[15].v + Wide) = rl[15] /\ mode = ModeOf(rl[15])
  BY PcOnwards
<1> QED
  BY <1>2, <1>3, ContinueSound

(* The registers as they are when only register 15 moves on.               *)
LEMMA OnwardsFacts ==
  ASSUME Before, NEW rl \in [Regs -> WordSet], rl[15] = real[15]
  PROVE  /\ Onwards(rl) \in [Regs -> WordSet] /\ Onwards(rl)[15] = Word(real[15] + Width)
         /\ \A r \in Regs \ {15} : Onwards(rl)[r] = rl[r]
<1>1. Word(real[15] + Width) \in WordSet
  BY PcOnwards
<1> QED
  BY <1>1 DEF Onwards, Regs

----------------------------------------------------------------------------
(***************************************************************************)
(* The instructions of the Thumb half.                                     *)
(***************************************************************************)

(* An instruction that does not transfer registers leaves the memory.      *)
LEMMA ExecuteDoes ==
  ASSUME NEW i, Execute(i, image.data), IsDataProcessing(i)
  PROVE  IF i.op \in {"PUSH", "POP", "LDM", "STM"}
         THEN Does(Transfer(Block(i)).real, Transfer(Block(i)).mem) ELSE Does(Result(i), mem)
BY DEF Execute, Does

(* The fields of the instructions.                                         *)
LEMMA ThumbFields ==
  ASSUME NEW i \in ThumbInstruction
  PROVE  /\ i.op = "SHIFT" => /\ i.kind \in {"LSL", "LSR", "ASR"} /\ i.n \in 0..31
                              /\ i.rd \in 0..7 /\ i.rs \in 0..7
         /\ i.op = "ADDSUB" => i.kind \in {"ADD", "SUB"} /\ i.rd \in 0..7 /\ i.rs \in 0..7 /\ i.rn \in 0..7
         /\ i.op = "ADDSUB3" => i.kind \in {"ADD", "SUB"} /\ i.rd \in 0..7 /\ i.rs \in 0..7 /\ i.n \in 0..7
         /\ i.op = "IMM8" => i.kind \in {"MOV", "CMP", "ADD", "SUB"} /\ i.rd \in 0..7 /\ i.n \in 0..255
         /\ i.op = "ALU" => i.rd \in 0..7 /\ i.rs \in 0..7
              /\ i.kind \in {"AND", "EOR", "LSL", "LSR", "ASR", "ROR", "NEG", "ORR", "MUL", "BIC", "MVN",
                             "ADC", "SBC", "TST", "CMP", "CMN"}
         /\ i.op = "HI" => i.kind \in {"ADD", "CMP", "MOV"} /\ i.rd \in Regs /\ i.rs \in Regs
         /\ i.op = "BX" => i.rs \in Regs
         /\ i.op = "LDRPC" => i.rd \in 0..7 /\ i.n \in 0..255
         /\ i.op = "ADDSP" => i.kind \in {"ADD", "SUB"} /\ i.n \in 0..127
         /\ i.op = "POP" => i.list \subseteq 0..7 /\ i.pc \in BOOLEAN
         /\ i.op = "PUSH" => i.list \subseteq 0..7 /\ i.lr \in BOOLEAN
         /\ i.op = "B" => i.f \in 0..2047
BY DEF ThumbInstruction

(* A low register is one of those that can be set.                         *)
LEMMA LowRegister ==
  ASSUME NEW r \in 0..7
  PROVE  r \in Regs \ {15} /\ r # 13 /\ r \in Regs
BY DEF Regs

(* Origins that are valid.                                                 *)
LEMMA Origins ==
  /\ \A o : Valid(o \cup Arithmetic) <=> Valid(o)
  /\ ~Valid({}) /\ Valid(FromStack) /\ Valid(FromConst) /\ Valid(FromMemory)
  /\ \A o, q : Valid(o \cup q) <=> Valid(o) \/ Valid(q)
BY DEF Valid, Arithmetic, FromStack, FromConst, FromMemory

(* A Thumb shift is followed (LSL and LSR: UnwStartThumb, format 1).       *)
LEMMA ThumbShiftSound ==
  ASSUME Before, mode = "thumb", Led, NEW i \in ThumbInstruction, i.op = "SHIFT",
         ThumbShift(i), Does(Result(i), mem), ~Misread(i)
  PROVE  Sound
<1>1. i.kind \in {"LSL", "LSR"} /\ i.rd \in 0..7 /\ i.rs \in 0..7 /\ i.n \in 0..31
      /\ ~(i.kind = "LSR" /\ i.n = 0)
  BY ThumbFields DEF Misread
<1> DEFINE s == regData[i.rs]
           y == Shifted(i.kind, real[i.rs], i.n)
           v == Shifted(i.kind, s.v, i.n)
           w == Word(v)
           o == s.o \cup Arithmetic
<1>2. Result(i) = Set(i.rd, y)
  BY <1>1 DEF Result, Distance
<1>3. y \in Int
  <2>1. real[i.rs] \in WordSet /\ i.kind \in Shift
    BY <1>1, LowRegister, BeforeFacts DEF Shift
  <2> QED
    BY <1>1, <2>1, WordFacts, ShiftIsNumber
<1>4. Continue([regData EXCEPT ![i.rd] = [v |-> w, o |-> o]], memData)
  <2>1. ShiftedByThumb(i.kind, s.v, i.n) = v
    BY <1>1 DEF ShiftedByThumb
  <2> QED
    BY <2>1 DEF ThumbShift, Put
<1>5. Valid(o) => w = Word(y)
  <2>1. Valid(s.o) => s.v = real[i.rs]
    BY <1>1, LowRegister, BeforeFacts DEF Tracked
  <2> QED
    BY <2>1, Origins
<1>6. i.rd \in Regs \ {15} /\ Does(Set(i.rd, y), mem)
  BY <1>1, <1>2, LowRegister
<1> HIDE DEF y, v, w, o
<1> QED
  BY <1>3, <1>4, <1>5, <1>6, SetSound

(* Sums, differences and what is moved; words are not told apart from what *)
(* they are cut from.                                                      *)
LEMMA AluAdds ==
  ASSUME NEW a, NEW b
  PROVE  /\ Alu("ADD", a, b) = Word(a + b) /\ Alu("SUB", a, b) = Word(a - b) /\ Alu("MOV", a, b) = b
         /\ a \in Int /\ b \in Int => /\ Alu("ADD", a, b) \in WordSet /\ Alu("SUB", a, b) \in WordSet
                                      /\ Word(Alu("ADD", a, b)) = Alu("ADD", a, b)
                                      /\ Word(Alu("SUB", a, b)) = Alu("SUB", a, b)
<1>1. Alu("ADD", a, b) = Word(a + b) /\ Alu("SUB", a, b) = Word(a - b) /\ Alu("MOV", a, b) = b
  BY DEF Alu
<1> QED
  BY <1>1, WordFacts

(* A Thumb addition or subtraction of registers is followed.               *)
LEMMA ThumbAddSubSound ==
  ASSUME Before, Led, NEW i \in ThumbInstruction, i.op = "ADDSUB",
         ThumbAddSub(i), Does(Result(i), mem), ~Misread(i)
  PROVE  Sound
<1>1. i.kind \in {"ADD", "SUB"} /\ i.rd \in 0..7 /\ i.rs \in 0..7 /\ i.rn \in 0..7 /\ Tracked(i.rn)
  BY ThumbFields DEF Misread
<1> DEFINE s == regData[i.rs]
           n == regData[i.rn]
           put == Put(i.rd, Alu(i.kind, s.v, n.v), {})
           o == IF \A r \in {i.rs, i.rn} : put[r].v % 128 # 0 THEN s.o \cup Arithmetic ELSE {}
           y == Alu(i.kind, real[i.rs], real[i.rn])
           v == Alu(i.kind, s.v, n.v)
<1>2. Result(i) = Set(i.rd, y)
  BY DEF Result
<1>3. y \in Int
  <2>1. real[i.rs] \in Int /\ real[i.rn] \in Int
    BY <1>1, LowRegister, BeforeFacts, WordFacts
  <2> QED
    BY <1>1, <2>1, AluAdds, WordFacts
<1>4. Continue([regData EXCEPT ![i.rd] = [v |-> Word(v), o |-> o]], memData)
  BY DEF ThumbAddSub, Put
<1>5. Valid(o) => Word(v) = Word(y)
  <2>1. Valid(s.o) => s.v = real[i.rs]
    BY <1>1, LowRegister, BeforeFacts DEF Tracked
  <2>2. n.v = real[i.rn]
    BY <1>1, LowRegister, BeforeFacts
  <2>3. Valid(o) => Valid(s.o)
    BY Origins
  <2> QED
    BY <2>1, <2>2, <2>3
<1> HIDE DEF y, v, o
<1> QED
  BY <1>1, <1>2, <1>3, <1>4, <1>5, LowRegister, SetSound

(* A Thumb addition or subtraction of 3 bits is followed.                  *)
LEMMA ThumbAddSub3Sound ==
  ASSUME Before, Led, NEW i \in ThumbInstruction, i.op = "ADDSUB3",
         ThumbAddSub3(i), Does(Result(i), mem)
  PROVE  Sound
<1>1. i.kind \in {"ADD", "SUB"} /\ i.rd \in 0..7 /\ i.rs \in 0..7 /\ i.n \in 0..7
  BY ThumbFields
<1> DEFINE s == regData[i.rs]
           y == Alu(i.kind, real[i.rs], i.n)
           v == Word(Alu(i.kind, s.v, i.n))
           o == s.o \cup Arithmetic
<1>2. Result(i) = Set(i.rd, y)
  BY DEF Result
<1>3. y \in Int
  <2>1. real[i.rs] \in Int /\ i.n \in Int
    BY <1>1, LowRegister, BeforeFacts, WordFacts
  <2> QED
    BY <1>1, <2>1, AluAdds, WordFacts
<1>4. Continue([regData EXCEPT ![i.rd] = [v |-> v, o |-> o]], memData)
  BY DEF ThumbAddSub3, Put
<1>5. Valid(o) => v = Word(y)
  <2>1. Valid(s.o) => s.v = real[i.rs]
    BY <1>1, LowRegister, BeforeFacts DEF Tracked
  <2> QED
    BY <2>1, Origins
<1> HIDE DEF y, v, o
<1> QED
  BY <1>1, <1>2, <1>3, <1>4, <1>5, LowRegister, SetSound

(* Nothing but register 15 changes.                                        *)
LEMMA IdleSound ==
  ASSUME Before, Led, Continue(regData, memData), Does(Onwards(real), mem)
  PROVE  Sound
<1>1. Onwards(real) \in [Regs -> WordSet] /\ Onwards(real)[15] = Word(real[15] + Width)
      /\ \A r \in Regs \ {15} : Onwards(real)[r] = real[r]
  BY OnwardsFacts, BeforeFacts
<1>2. IsRegisters(regData)
  BY DEF Before, Follower, Follows
<1> QED
  BY <1>1, <1>2, KeepSound DEF Tracked

(* A Thumb move, comparison or addition of 8 bits is followed.             *)
LEMMA ThumbImmediateSound ==
  ASSUME Before, Led, NEW i \in ThumbInstruction, i.op = "IMM8",
         ThumbImmediate(i), Does(Result(i), mem), ~Misread(i)
  PROVE  Sound
<1>1. i.kind \in {"MOV", "CMP", "ADD"} /\ i.rd \in 0..7 /\ i.n \in 0..255
  BY ThumbFields DEF Misread
<1> DEFINE d == regData[i.rd]
<1>2. CASE i.kind = "CMP"
  <2>1. Result(i) = Onwards(real)
    BY <1>2 DEF Result
  <2>2. Continue(regData, memData)
    BY <1>2 DEF ThumbImmediate
  <2> QED
    BY <2>1, <2>2, IdleSound
<1>3. CASE i.kind = "MOV"
  <2>1. Result(i) = Set(i.rd, i.n)
    BY <1>3, AluAdds DEF Result
  <2>2. Continue([regData EXCEPT ![i.rd] = [v |-> Word(i.n), o |-> FromConst]], memData)
    BY <1>3 DEF ThumbImmediate, Put
  <2>3. i.n \in Int
    BY <1>1
  <2> QED
    BY <1>1, <2>1, <2>2, <2>3, LowRegister, SetSound
<1>4. CASE i.kind = "ADD"
  <2> DEFINE y == Alu("ADD", real[i.rd], i.n)
             v == Word(d.v + i.n)
             o == d.o \cup Arithmetic
  <2>1. Result(i) = Set(i.rd, y)
    BY <1>4 DEF Result
  <2>2. Continue([regData EXCEPT ![i.rd] = [v |-> v, o |-> o]], memData)
    BY <1>4 DEF ThumbImmediate, Put
  <2>3. real[i.rd] \in Int /\ i.n \in Int
    BY <1>1, LowRegister, BeforeFacts, WordFacts
  <2>4. y \in Int /\ Word(y) = y /\ y = Word(real[i.rd] + i.n)
    BY <2>3, AluAdds, WordFacts
  <2>5. Valid(o) => v = Word(y)
    <3>1. Valid(d.o) => d.v = real[i.rd]
      BY <1>1, LowRegister, BeforeFacts DEF Tracked
    <3> QED
      BY <2>4, <3>1, Origins
  <2> HIDE DEF y, v, o
  <2> QED
    BY <1>1, <2>1, <2>2, <2>4, <2>5, LowRegister, SetSound
<1> QED
  BY <1>1, <1>2, <1>3, <1>4

(* A carry that is not known.                                              *)
LEMMA CarrySound ==
  ASSUME Before, Led, NEW r \in Regs \ {15}, NEW v, Does(Set(r, Another(real[r])), mem),
         Continue([regData EXCEPT ![r] = [v |-> v, o |-> {}]], memData)
  PROVE  Sound
<1>1. Another(real[r]) \in Int
  <2>1. real[r] \in Int
    BY BeforeFacts, WordFacts
  <2> QED
    BY <2>1, WordFacts DEF Another
<1> DEFINE y == Another(real[r])
           o == {}
<1>2. Continue([regData EXCEPT ![r] = [v |-> v, o |-> o]], memData) /\ ~Valid(o) /\ y \in Int
      /\ Does(Set(r, y), mem)
  BY <1>1, Origins
<1> HIDE DEF y, o
<1> QED
  BY <1>2, SetSound

(* A Thumb operation of the arithmetic unit is followed.                   *)
LEMMA ThumbAluSound ==
  ASSUME Before, Led, NEW i \in ThumbInstruction, i.op = "ALU",
         ThumbAlu(i), Does(Result(i), mem), ~Misread(i)
  PROVE  Sound
<1>1. i.kind \in {"AND", "EOR", "LSL", "LSR", "NEG", "ORR", "MUL", "ADC", "SBC", "TST", "CMP", "CMN"}
      /\ i.rd \in 0..7 /\ i.rs \in 0..7
  BY ThumbFields DEF Misread
<1> DEFINE d == regData[i.rd]
           s == regData[i.rs]
<1>2. CASE i.kind \in Comparing
  <2>1. Result(i) = Onwards(real)
    BY <1>2 DEF Result, Comparing, Carrying
  <2>0. i.kind \notin Carrying
    BY <1>2 DEF Carrying, Comparing
  <2>2. Continue(regData, memData)
    BY <1>2, <2>0 DEF ThumbAlu
  <2> QED
    BY <2>1, <2>2, IdleSound
<1>3. CASE i.kind \in Carrying
  <2>1. Result(i) = Set(i.rd, Another(real[i.rd]))
    BY <1>3 DEF Result
  <2>2. i.kind \notin Comparing
    BY <1>3 DEF Carrying, Comparing
  <2>3. Continue([regData EXCEPT ![i.rd] = [v |-> Word(d.v), o |-> {}]], memData)
    BY <1>3, <2>2 DEF ThumbAlu, Put
  <2> QED
    BY <1>1, <2>1, <2>3, LowRegister, CarrySound
<1>4. CASE i.kind \notin Comparing \cup Carrying
  <2>0. i.kind \in {"AND", "EOR", "LSL", "LSR", "NEG", "ORR", "MUL"}
    BY <1>1, <1>4 DEF Comparing, Carrying
  <2> DEFINE o == IF Valid(s.o) \/ i.kind \in {"NEG", "MVN"} THEN s.o \cup Arithmetic ELSE {}
             y == Alu(i.kind, real[i.rd], real[i.rs])
             v == Alu(i.kind, d.v, s.v)
  <2>1. Result(i) = Set(i.rd, y)
    BY <1>4 DEF Result
  <2>2. AluOfThumb(i.kind, d.v, s.v) = v
    BY <2>0 DEF AluOfThumb
  <2>3. Continue([regData EXCEPT ![i.rd] = [v |-> Word(v), o |-> o]], memData)
    <3>1. i.kind \notin Comparing /\ i.kind \notin Carrying
      BY <1>4
    <3> HIDE DEF v, o
    <3>2. Continue(Put(i.rd, AluOfThumb(i.kind, d.v, s.v), o), memData)
      BY <3>1 DEF ThumbAlu, o
    <3> QED
      BY <2>2, <3>2 DEF Put
  <2>4. y \in Int
    <3>1. real[i.rd] \in WordSet /\ real[i.rs] \in WordSet
      BY <1>1, LowRegister, BeforeFacts
    <3>2. i.kind \in Kinds
      BY <2>0 DEF Kinds, BitOperations, Shift
    <3> QED
      BY <3>1, <3>2, AluIsNumber
  <2>5. Valid(o) => Word(v) = Word(y)
    <3> SUFFICES ASSUME Valid(o) PROVE v = y
      OBVIOUS
    <3>1. s.v = real[i.rs]
      <4>1. Valid(s.o)
        BY Origins
      <4> QED
        BY <1>1, <4>1, LowRegister, BeforeFacts DEF Tracked
    <3>2. CASE i.kind = "NEG"
      BY <3>1, <3>2 DEF Alu
    <3>3. CASE i.kind # "NEG"
      <4>1. d.v = real[i.rd]
        <5>1. Tracked(i.rd)
          BY <1>4, <3>3 DEF Misread
        <5> QED
          BY <1>1, <5>1, LowRegister, BeforeFacts
      <4> QED
        BY <3>1, <4>1
    <3> QED
      BY <3>2, <3>3
  <2> HIDE DEF y, v, o
  <2> QED
    BY <1>1, <2>1, <2>3, <2>4, <2>5, LowRegister, SetSound
<1> QED
  BY <1>2, <1>3, <1>4

(* The unwinder need not have set register 15.                             *)
LEMMA ReadyAnywhere ==
  ASSUME NEW rs, NEW h, NEW rl, NEW mm, Ready(rs, h, rl, mm), NEW x
  PROVE  /\ Ready([rs EXCEPT ![15].v = x], h, rl, mm)
         /\ [rs EXCEPT ![15].v = x][15].v = x
<1> DEFINE qs == [rs EXCEPT ![15].v = x]
<1>1. rs = [r \in Regs |-> [v |-> rs[r].v, o |-> rs[r].o]] /\ 15 \in Regs /\ 13 \in Regs
  BY DEF Ready, IsRegisters, Regs
<1>2. DOMAIN rs = Regs /\ rs[15] = [v |-> rs[15].v, o |-> rs[15].o]
  BY <1>1
<1>3. DOMAIN qs = Regs /\ qs[15] = [v |-> x, o |-> rs[15].o] /\ \A r \in Regs \ {15} : qs[r] = rs[r]
  BY <1>2, <1>1
<1>4. \A r \in Regs : qs[r] = [v |-> qs[r].v, o |-> qs[r].o]
  BY <1>1, <1>3
<1> HIDE DEF qs
<1>5. IsRegisters(qs)
  <2>1. qs = [r \in Regs |-> qs[r]]
    BY <1>3 DEF qs
  <2> QED
    BY <1>4, <2>1 DEF IsRegisters
<1>6. qs[13] = rs[13]
  BY <1>1, <1>3
<1> QED
  BY <1>3, <1>5, <1>6 DEF Ready, qs

(* A jump to where the processor has gone, in this half or in the other.   *)
LEMMA JumpFollows ==
  ASSUME Before, Led, NEW rs, NEW h, NEW rl, NEW mm, Ready(rs, h, rl, mm), Does(rl, mm),
         NEW to, to = rl[15], NEW m, m = ModeOf(to),
         \/ EndOfLoop([rs EXCEPT ![15].v = Word(to - Wide)], h) /\ mode = m
         \/ Enter(m, [rs EXCEPT ![15].v = to], h)
  PROVE  result' = "RUNNING" => Follower'
<1>1. to \in Int /\ Wide \in Int /\ Word(to) = to /\ image \in Images
  BY BeforeFacts, WordFacts DEF Ready, Regs, Before
<1>2. CASE EndOfLoop([rs EXCEPT ![15].v = Word(to - Wide)], h) /\ mode = m
  <2> DEFINE qs == [rs EXCEPT ![15].v = Word(to - Wide)]
  <2>1. Ready(qs, h, rl, mm) /\ qs[15].v = Word(to - Wide)
    BY ReadyAnywhere
  <2>2. Word(qs[15].v + Wide) = rl[15]
    <3>1. to - Wide \in Int /\ (to - Wide) + Wide = to
      BY <1>1
    <3>2. Word(Word(to - Wide) + Wide) = Word((to - Wide) + Wide)
      BY <1>1, <3>1, WordAdds
    <3> QED
      BY <1>1, <2>1, <3>1, <3>2
  <2> HIDE DEF qs
  <2> QED
    BY <1>1, <1>2, <2>1, <2>2, EndOfLoopFollows DEF qs
<1>3. CASE Enter(m, [rs EXCEPT ![15].v = to], h)
  <2> DEFINE qs == [rs EXCEPT ![15].v = to]
  <2>1. Ready(qs, h, rl, mm) /\ qs[15].v = to
    BY ReadyAnywhere
  <2> HIDE DEF qs
  <2> QED
    BY <1>1, <1>3, <2>1, EnterFollows DEF qs
<1> QED
  BY <1>2, <1>3

(* A return is reported, and there the processor goes.                     *)
LEMMA ReportSound ==
  ASSUME Before, NEW a, Report(a), a = real'[15], result' = "RUNNING" => Follower'
  PROVE  Sound
BY AppendedIsLast DEF Sound

(* The registers as they are, with the memory as it is.                    *)
LEMMA ReadyAsIs ==
  ASSUME Before, NEW y \in WordSet
  PROVE  Ready(regData, memData, [real EXCEPT ![15] = y], mem)
<1>1. [real EXCEPT ![15] = y] \in [Regs -> WordSet]
      /\ \A r \in Regs \ {15} : [real EXCEPT ![15] = y][r] = real[r]
  BY BeforeFacts
<1>2. IsRegisters(regData)
  BY DEF Before, Follower, Follows
<1> QED
  BY <1>1, <1>2, BeforeFacts DEF Ready, Tracked

(* A branch to an address that is near.                                    *)
LEMMA BranchSound ==
  ASSUME Before, Led, NEW x \in Int, (x + Wide) % 2 = real[15] % 2,
         Continue([regData EXCEPT ![15].v = Word(x)], memData), Does(Going(x + Wide), mem)
  PROVE  Sound
<1> DEFINE rs == [regData EXCEPT ![15].v = Word(x)]
           y == Word(x + Wide)
           rl == [real EXCEPT ![15] = y]
<1>1. Wide \in Int /\ x + Wide \in Int
  BY BeforeFacts
<1>2. y \in WordSet /\ mode = ModeOf(y)
  BY <1>1, NextPc
<1>3. Going(x + Wide) = rl /\ rl[15] = y
  BY BeforeFacts DEF Going, Regs
<1>4. Word(Word(x) + Wide) = y
  BY <1>1, WordAdds
<1> HIDE DEF y
<1>5. Ready(regData, memData, rl, mem)
  BY <1>2, ReadyAsIs
<1> HIDE DEF rl
<1>6. Ready(rs, memData, rl, mem) /\ rs[15].v = Word(x)
  BY <1>5, ReadyAnywhere
<1> HIDE DEF rs
<1>7. Word(rs[15].v + Wide) = rl[15] /\ mode = ModeOf(rl[15])
  BY <1>2, <1>3, <1>4, <1>6
<1> QED
  BY <1>3, <1>6, <1>7, ContinueSound DEF rs

(* An operation on the high registers is followed.                         *)
LEMMA ThumbHighSound ==
  ASSUME Before, Led, NEW i \in ThumbInstruction, i.op = "HI",
         ThumbHigh(i), Does(Result(i), mem), ~Misread(i)
  PROVE  Sound
<1>1. i.kind \in {"ADD", "CMP", "MOV"} /\ i.rd \in Regs /\ i.rs \in Regs
  BY ThumbFields
<1> DEFINE d == regData[i.rd]
           s == regData[i.rs]
<1>2. CASE i.rd < 8 /\ i.rs < 8
  BY <1>2, StopSound DEF ThumbHigh
<1>3. CASE ~(i.rd < 8 /\ i.rs < 8) /\ i.kind = "CMP"
  <2>1. Result(i) = Onwards(real)
    BY <1>3 DEF Result
  <2>2. Continue(regData, memData)
    BY <1>3 DEF ThumbHigh
  <2> QED
    BY <2>1, <2>2, IdleSound
<1>4. CASE ~(i.rd < 8 /\ i.rs < 8) /\ i.kind = "ADD"
  <2> DEFINE y == Alu("ADD", real[i.rd], real[i.rs])
             v == Word(d.v + s.v)
             o == s.o \cup Arithmetic
  <2>1. i.rd # 15 /\ i.rs # 15 /\ Tracked(i.rd)
    BY <1>4 DEF Misread
  <2>2. Result(i) = Set(i.rd, y)
    BY <1>4, <2>1 DEF Result, Read
  <2>3. Continue([regData EXCEPT ![i.rd] = [v |-> v, o |-> o]], memData)
    BY <1>4 DEF ThumbHigh, Put
  <2>4. y \in Int /\ y = Word(real[i.rd] + real[i.rs]) /\ Word(y) = y
    <3>1. real[i.rd] \in Int /\ real[i.rs] \in Int
      BY <1>1, BeforeFacts, WordFacts
    <3> QED
      BY <3>1, AluAdds, WordFacts
  <2>5. Valid(o) => v = Word(y)
    <3>1. Valid(s.o) => s.v = real[i.rs]
      BY <1>1, BeforeFacts DEF Tracked
    <3>2. d.v = real[i.rd]
      BY <1>1, <2>1, BeforeFacts
    <3> QED
      BY <2>4, <3>1, <3>2, Origins
  <2>6. i.rd \in Regs \ {15}
    BY <1>1, <2>1
  <2> HIDE DEF y, v, o
  <2> QED
    BY <2>2, <2>3, <2>4, <2>5, <2>6, SetSound
<1>5. CASE ~(i.rd < 8 /\ i.rs < 8) /\ i.kind = "MOV"
  <2> DEFINE y == Read(i.rs, 4)
             v == Word(d.v + s.v)
             o == d.o
  <2>1. ~Tracked(i.rd)
    BY <1>5 DEF Misread
  <2>2. Result(i) = Set(i.rd, y)
    BY <1>5, AluAdds DEF Result
  <2>3. Continue([regData EXCEPT ![i.rd] = [v |-> v, o |-> o]], memData)
    BY <1>5 DEF ThumbHigh, Put
  <2>4. y \in Int
    <3>1. real[i.rs] \in Int /\ real[15] \in Int
      BY <1>1, BeforeFacts, WordFacts DEF Regs
    <3> QED
      BY <3>1, WordFacts DEF Read
  <2>5. ~Valid(o)
    BY <2>1 DEF Tracked
  <2>6. i.rd \in Regs \ {15}
    BY <1>1, <2>1, BeforeFacts
  <2> HIDE DEF y, v, o
  <2> QED
    BY <2>2, <2>3, <2>4, <2>5, <2>6, SetSound
<1> QED
  BY <1>1, <1>2, <1>3, <1>4, <1>5

(* A Thumb branch to a register is followed: a return is reported or ends  *)
(* the unwinding, another one goes where the processor goes.               *)
LEMMA ThumbBxSound ==
  ASSUME Before, mode = "thumb", Led, NEW i \in ThumbInstruction, i.op = "BX",
         ThumbBx(i), Does(Result(i), mem), ~Misread(i)
  PROVE  Sound
<1> DEFINE s == regData[i.rs]
<1>1. i.rs \in Regs /\ i.rs # 15
  BY ThumbFields DEF Misread
<1>2. CASE s.o # FromStack
  BY <1>2, StopSound DEF ThumbBx
<1>3. CASE s.o = FromStack
  <2>0. Valid(s.o)
    BY <1>3, Origins
  <2>1. s.v = real[i.rs] /\ real[i.rs] \in WordSet
    BY <1>1, <2>0, BeforeFacts DEF Tracked
  <2> DEFINE a == real[i.rs]
             rl == [real EXCEPT ![15] = a]
  <2>2. Result(i) = rl
    <3>1. Result(i) = [real EXCEPT ![15] = Word(a)]
      BY <1>1 DEF Result, Read, Going
    <3> QED
      BY <2>1, <3>1, WordFacts
  <2>3. rl[15] = a
    BY BeforeFacts DEF Regs
  <2>4. Ready(regData, memData, rl, mem)
    BY <2>1, ReadyAsIs
  <2>5. Report(a)
    BY <1>3, <2>1 DEF ThumbBx
  <2>6. real' = rl
    BY <2>2 DEF Does
  <2>7. result' = "RUNNING" => Follower'
    <3> SUFFICES ASSUME result' = "RUNNING" PROVE Follower'
      OBVIOUS
    <3>1. CliReport
      BY <1>3 DEF ThumbBx, Stop
    <3>2. CASE a % 2 = 1
      <4>1. EndOfLoop([regData EXCEPT ![15].v = Word(a - 2)], memData)
        BY <1>3, <2>1, <3>1, <3>2 DEF ThumbBx
      <4>2. Wide = 2 /\ mode = ModeOf(a)
        BY <3>2 DEF Wide, ModeOf
      <4> HIDE DEF rl, a
      <4> QED
        BY <2>2, <2>3, <2>4, <4>1, <4>2, JumpFollows
    <3>3. CASE a % 2 # 1
      <4>1. Enter("arm", [regData EXCEPT ![15].v = a], memData)
        BY <1>3, <2>1, <3>1, <3>3 DEF ThumbBx
      <4>2. "arm" = ModeOf(a)
        BY <3>3 DEF ModeOf
      <4> HIDE DEF rl, a
      <4> QED
        BY <2>2, <2>3, <2>4, <4>1, <4>2, JumpFollows
    <3> QED
      BY <3>2, <3>3
  <2> HIDE DEF rl, a
  <2> QED
    BY <2>3, <2>5, <2>6, <2>7, ReportSound
<1> QED
  BY <1>2, <1>3

(* What is read of the memory.                                             *)
LEMMA MemoryAgrees ==
  ASSUME NEW h, NEW m, Agrees(image.data, h, m), NEW a \in Nat
  PROVE  LET x == UnwMemReadRegister(h, a)
         IN  x.ok /\ Valid(x.o) => x.v = At(m, a)
<1> DEFINE e == UnwMemHashRead(h, a)
<1> HIDE DEF e
<1>1. IF e.found THEN e.tracked => e.data = At(m, a)
                 ELSE a \in DOMAIN image.data => image.data[a] = At(m, a)
  BY DEF Agrees, e
<1>2. CASE e.found
  <2>1. UnwMemReadRegister(h, a) =
          [ok |-> TRUE, v |-> e.data, o |-> IF e.tracked THEN FromMemory ELSE {}]
    BY <1>2 DEF UnwMemReadRegister, e
  <2> QED
    BY <1>1, <1>2, <2>1, Origins
<1>3. CASE ~e.found
  <2>1. UnwMemReadRegister(h, a) =
          IF a \in DOMAIN image.data THEN [ok |-> TRUE, v |-> image.data[a], o |-> FromMemory]
          ELSE [ok |-> FALSE, v |-> 0, o |-> {}]
    BY <1>3 DEF UnwMemReadRegister, e
  <2> QED
    BY <1>1, <1>3, <2>1
<1> QED
  BY <1>2, <1>3

(* What is read for a register is what the processor has there.            *)
LEMMA ReadAgrees ==
  ASSUME NEW h, NEW m, Agrees(image.data, h, m), NEW a \in WordSet
  PROVE  LET x == UnwMemReadRegister(h, a)
         IN  x.ok /\ Valid(x.o) => x.v = At(m, a)
<1>1. a \in Nat
  BY WordFacts
<1> QED
  BY <1>1, MemoryAgrees

(* What a register is loaded with.                                         *)
LEMMA LoadedRegister ==
  ASSUME NEW m, NEW r, NEW a, NEW fromStack
  PROVE  LET x == UnwMemReadRegister(m.hash, a)
             o == IF fromStack /\ Valid(x.o) THEN FromStack ELSE x.o
         IN  /\ LoadRegister(m, r, a, fromStack) =
                  IF x.ok THEN [m EXCEPT !.regs[r] = [v |-> x.v, o |-> o]] ELSE [m EXCEPT !.ok = FALSE]
             /\ Valid(o) <=> Valid(x.o)
BY Origins DEF LoadRegister

(* A memory of words gives words.                                          *)
LEMMA MemoryIsWords ==
  ASSUME NEW m, Words(m), NEW a
  PROVE  At(m, a) \in WordSet
<1>1. 0 \in WordSet
  <2>1. Word(0) \in WordSet
    BY WordFacts
  <2> QED
    BY <2>1, ModulusFacts DEF WordSet
<1> QED
  BY <1>1 DEF At, Words

(* A load from the literals of the code is followed.                       *)
LEMMA ThumbLoadSound ==
  ASSUME Before, Led, NEW i \in ThumbInstruction, i.op = "LDRPC",
         ThumbLoad(i), Does(Result(i), mem)
  PROVE  Sound
<1>1. i.rd \in 0..7 /\ i.n \in 0..255
  BY ThumbFields
<1> DEFINE a == Word(4 * (Pc \div 4) + 4 + 4 * i.n)
           m == LoadRegister(Transferring, i.rd, a, FALSE)
           x == UnwMemReadRegister(memData, a)
           y == At(mem, a)
<1>2. Result(i) = Set(i.rd, y)
  BY BeforeFacts DEF Result, Load, At
<1>3. a \in WordSet
  <2>1. Pc \in Int
    BY BeforeFacts, WordFacts DEF Regs
  <2>2. 4 * (Pc \div 4) + 4 + 4 * i.n \in Int
    BY <1>1, <2>1
  <2> QED
    BY <2>2, WordFacts
<1> HIDE DEF a
<1>4. y \in Int /\ Word(y) = y
  BY BeforeFacts, MemoryIsWords, WordFacts
<1>5. Transferring.hash = memData /\ Transferring.regs = regData /\ Transferring.ok
      /\ Transferring = [regs |-> regData, hash |-> memData, ok |-> TRUE]
  BY DEF Transferring
<1>6. CASE ~x.ok
  <2>1. m = [Transferring EXCEPT !.ok = FALSE]
    BY <1>5, <1>6 DEF LoadRegister
  <2>2. ~m.ok
    BY <1>5, <2>1
  <2> QED
    BY <2>2, StopSound DEF ThumbLoad, a
<1>7. CASE x.ok
  <2> DEFINE o == x.o
             v == x.v
  <2>1. m = [Transferring EXCEPT !.regs[i.rd] = [v |-> v, o |-> o]]
    BY <1>5, <1>7 DEF LoadRegister
  <2> HIDE DEF x, o, v
  <2>2. m.ok /\ m.regs = [regData EXCEPT ![i.rd] = [v |-> v, o |-> o]]
    BY <1>5, <2>1
  <2> HIDE DEF m
  <2>3. Continue([regData EXCEPT ![i.rd] = [v |-> v, o |-> o]], memData)
    BY <2>2 DEF ThumbLoad, a, m
  <2>4. Valid(o) => v = Word(y)
    BY <1>3, <1>4, <1>7, BeforeFacts, ReadAgrees DEF x, o, v
  <2> HIDE DEF y
  <2> QED
    BY <1>1, <1>2, <1>4, <2>3, <2>4, LowRegister, SetSound
<1> QED
  BY <1>6, <1>7

(* An adjustment of the stack pointer is followed.                         *)
LEMMA ThumbAddSpSound ==
  ASSUME Before, Led, NEW i \in ThumbInstruction, i.op = "ADDSP",
         ThumbAddSp(i), Does(Result(i), mem), ~Misread(i)
  PROVE  Sound
<1>1. i.kind \in {"ADD", "SUB"} /\ i.n \in 0..127 /\ ~(4 * i.n > 255)
  BY ThumbFields DEF Misread
<1>2. (4 * i.n) % 256 = 4 * i.n
  BY <1>1
<1> DEFINE y == Alu(i.kind, real[13], 4 * i.n)
           v == Word(Alu(i.kind, Sp, 4 * i.n))
           o == regData[13].o
<1>3. Result(i) = Set(13, y)
  BY DEF Result
<1>4. Continue([regData EXCEPT ![13] = [v |-> v, o |-> o]], memData)
  BY <1>2 DEF ThumbAddSp, Put
<1>5. y \in Int
  <2>1. real[13] \in Int /\ 4 * i.n \in Int
    BY <1>1, BeforeFacts, WordFacts DEF Regs
  <2> QED
    BY <1>1, <2>1, AluAdds, WordFacts
<1>6. v = Word(y)
  BY BeforeFacts
<1>7. 13 \in Regs \ {15}
  BY DEF Regs
<1> HIDE DEF y, v, o
<1> QED
  BY <1>3, <1>4, <1>5, <1>6, <1>7, SetSound

(* A field that has a sign.                                                *)
LEMMA SignedIsNumber ==
  ASSUME NEW f \in Nat, NEW bits \in 1..24
  PROVE  SignedField(f, bits) \in Int
<1>1. bits - 1 \in 0..24 /\ bits \in 0..24
  OBVIOUS
<1>2. 2^bits \in Nat \ {0}
  BY <1>1, PowersAssumption, BitsAssumption
<1> QED
  BY <1>2 DEF SignedField

(* A Thumb branch is followed.                                             *)
LEMMA ThumbBranchSound ==
  ASSUME Before, mode = "thumb", Led, NEW i \in ThumbInstruction, i.op = "B",
         ThumbBranch(i), Does(Result(i), mem)
  PROVE  Sound
<1>0. i.f \in Nat
  <2>1. PICK k \in 0..2047 : i.f = k
    BY ThumbFields
  <2>2. k \in Nat
    OBVIOUS
  <2> QED
    BY <2>1, <2>2
<1> DEFINE f == SignedField(i.f, 11)
           p == real[15]
           x == (p + 2 * f) + 2
<1>1. f \in Int
  BY <1>0, SignedIsNumber
<1>2. p \in Int /\ Pc = p /\ Wide = 2 /\ InThumb
  BY BeforeFacts, WordFacts DEF Regs, Wide, InThumb
<1> HIDE DEF f, p
<1>3. x \in Int /\ x + Wide = p + (4 + 2 * f) /\ (x + Wide) % 2 = p % 2
  BY <1>1, <1>2
<1>4. Does(Going(x + Wide), mem)
  <2>1. Result(i) = Going(p + (4 + 2 * f))
    BY <1>2 DEF Result, f, p
  <2> QED
    BY <1>3, <2>1
<1>5. Continue([regData EXCEPT ![15].v = Word(x)], memData)
  <2>1. ThumbBranch(i) <=> Continue([regData EXCEPT ![15].v = Word(@ + 2 * f + 2)], memData)
    BY DEF ThumbBranch, f
  <2>2. [regData EXCEPT ![15].v = Word(@ + 2 * f + 2)] = [regData EXCEPT ![15].v = Word(p + 2 * f + 2)]
    BY <1>2, BeforeFacts DEF Pc, Regs
  <2> QED
    BY <2>1, <2>2
<1> HIDE DEF x
<1> QED
  BY <1>3, <1>4, <1>5, BranchSound DEF p

(* An instruction of either half that is not known.                        *)
LEMMA UnknownSound ==
  ASSUME Before, Led, NEW i, i.op = "UNKNOWN",
         Continue(UnwInvalidateRegisterFile(regData), memData), Does(Result(i), mem), ~Misread(i)
  PROVE  Sound
<1> DEFINE rs == UnwInvalidateRegisterFile(regData)
           changed == [r \in Regs |-> IF r \in 0..12 \cup {14} THEN Another(real[r]) ELSE real[r]]
           rl == Onwards(changed)
<1>1. Result(i) = rl
  BY BeforeFacts DEF Result
<1>2. changed \in [Regs -> WordSet]
  <2>1. \A r \in Regs : real[r] \in Int /\ real[r] \in WordSet
    BY BeforeFacts, WordFacts
  <2>2. \A r \in Regs : Another(real[r]) \in WordSet
    <3>1. \A r \in Regs : real[r] + 1 \in Int
      BY <2>1
    <3> QED
      BY <3>1, WordFacts DEF Another
  <2> QED
    BY <2>1, <2>2
<1>3. changed[15] = real[15] /\ changed[13] = real[13]
  BY DEF Regs
<1> HIDE DEF changed
<1>4. rl \in [Regs -> WordSet] /\ rl[15] = Word(real[15] + Width)
      /\ \A r \in Regs \ {15} : rl[r] = changed[r]
  BY <1>2, <1>3, OnwardsFacts
<1>5. rs = [r \in Regs |-> IF r < 13 THEN [v |-> regData[r].v, o |-> {}] ELSE regData[r]]
  <2>1. \A r \in Regs : regData[r] = [v |-> regData[r].v, o |-> regData[r].o]
    BY BeforeFacts
  <2>2. \A r \in Regs : [regData[r] EXCEPT !.o = {}] = [v |-> regData[r].v, o |-> {}]
    <3>1. ASSUME NEW y, y = [v |-> y.v, o |-> y.o] PROVE [y EXCEPT !.o = {}] = [v |-> y.v, o |-> {}]
      BY <3>1
    <3> QED
      BY <2>1, <3>1
  <2>3. rs = [r \in Regs |-> IF r < 13 THEN [regData[r] EXCEPT !.o = {}] ELSE regData[r]]
    BY DEF UnwInvalidateRegisterFile
  <2> HIDE DEF rs
  <2> QED
    BY <2>2, <2>3
<1> HIDE DEF rs, rl
<1>6. \A r \in Regs : rs[r] = [v |-> rs[r].v, o |-> rs[r].o]
  BY <1>5, BeforeFacts
<1>7. IsRegisters(rs)
  BY <1>5, <1>6 DEF IsRegisters
<1>8. ~Tracked(14)
  BY DEF Misread
<1>9. \A r \in Regs \ {15} : Valid(rs[r].o) => Tracked(r) /\ rs[r].v = regData[r].v /\ rl[r] = real[r]
  <2> SUFFICES ASSUME NEW r \in Regs \ {15}, Valid(rs[r].o)
               PROVE  Tracked(r) /\ rs[r].v = regData[r].v /\ rl[r] = real[r]
    OBVIOUS
  <2>1. ~(r < 13)
    BY <1>5, Origins
  <2>2. rs[r] = regData[r]
    BY <1>5, <2>1
  <2>3. Tracked(r)
    BY <2>2 DEF Tracked
  <2>4. r = 13
    BY <1>8, <2>1, <2>3 DEF Regs
  <2> QED
    BY <1>3, <1>4, <2>2, <2>3, <2>4
<1>10. rs[15].v = regData[15].v
  BY <1>5 DEF Regs
<1> QED
  BY <1>1, <1>4, <1>7, <1>9, <1>10, KeepSound DEF rs

----------------------------------------------------------------------------
(***************************************************************************)
(* The instructions of the ARM half.                                       *)
(***************************************************************************)

(* The fields of the ARM instructions.                                     *)
LEMMA ArmFields ==
  ASSUME NEW i \in ArmInstruction
  PROVE  /\ i.op = "BX" => i.rs \in Regs
         /\ i.op = "B" => \E k \in Nat : i.f = k
         /\ i.op = "MRS" => i.rd \in Regs
         /\ i.op = "DP" => i.rd \in Regs /\ i.rn \in Regs /\ i.op2 \in Operand
              /\ i.kind \in {"AND", "EOR", "SUB", "RSB", "ADD", "ORR", "MOV", "BIC", "MVN",
                             "ADC", "SBC", "RSC", "TST", "TEQ", "CMP", "CMN"}
         /\ i.op \in {"LDM", "STM"} => i.base \in Regs /\ i.list \subseteq Regs
              /\ i.p \in BOOLEAN /\ i.u \in BOOLEAN /\ i.w \in BOOLEAN
<1> DEFINE n == 2^24 - 1
<1>1. n \in Int
  BY PowersAssumption, BitsAssumption
<1> HIDE DEF n
<1>2. \A k \in 0..n : k \in Nat
  BY <1>1
<1>3. i.op = "B" => i.f \in 0..n
  BY DEF ArmInstruction, n
<1> QED
  BY <1>2, <1>3 DEF ArmInstruction

(* The fields of the second operands.                                      *)
LEMMA OperandFields ==
  ASSUME NEW x \in Operand
  PROVE  /\ x.type \in {"imm", "reg", "regshift", "rrx"}
         /\ x.type = "imm" => x.n \in WordSet
         /\ x.type = "reg" => x.rm \in Regs /\ x.shift \in Shift /\ x.n \in 0..32
         /\ x.type = "regshift" => x.rm \in Regs /\ x.shift \in Shift /\ x.rs \in Regs
BY DEF Operand

(* A jump of the ARM half goes where the processor goes.                   *)
LEMMA GoToFollows ==
  ASSUME Before, mode = "arm", Led, NEW rs, NEW h, NEW rl, NEW mm,
         Ready(rs, h, rl, mm), Does(rl, mm), NEW to, to = rl[15], GoTo(rs, h, to)
  PROVE  result' = "RUNNING" => Follower'
<1>1. CASE to % 2 = 1
  <2>1. Enter("thumb", [rs EXCEPT ![15].v = to], h) /\ "thumb" = ModeOf(to)
    BY <1>1 DEF GoTo, ModeOf
  <2> QED
    BY <2>1, JumpFollows
<1>2. CASE to % 2 # 1
  <2>1. Wide = 4 /\ "arm" = ModeOf(to)
    BY <1>2 DEF Wide, ModeOf
  <2>2. EndOfLoop([rs EXCEPT ![15].v = Word(to - Wide)], h)
    BY <1>2, <2>1 DEF GoTo
  <2> QED
    BY <2>1, <2>2, JumpFollows
<1> QED
  BY <1>1, <1>2

(* An ARM branch to a register is followed, into the Thumb half too.       *)
LEMMA ArmBxSound ==
  ASSUME Before, mode = "arm", Led, NEW i \in ArmInstruction, i.op = "BX",
         ArmBx(i), Does(Result(i), mem), ~Misread(i)
  PROVE  Sound
<1> DEFINE s == regData[i.rs]
<1>1. i.rs \in Regs /\ i.rs # 15
  BY ArmFields DEF Misread
<1>2. CASE ~Valid(s.o)
  <2>1. s.o # FromStack
    BY <1>2, Origins
  <2> QED
    BY <1>2, <2>1, StopSound DEF ArmBx
<1>3. CASE Valid(s.o)
  <2>1. s.v = real[i.rs] /\ real[i.rs] \in WordSet
    BY <1>1, <1>3, BeforeFacts DEF Tracked
  <2> DEFINE a == real[i.rs]
             rl == [real EXCEPT ![15] = a]
  <2>2. Result(i) = rl
    <3>1. Result(i) = [real EXCEPT ![15] = Word(a)]
      BY <1>1 DEF Result, Read, Going
    <3> QED
      BY <2>1, <3>1, WordFacts
  <2>3. rl[15] = a
    BY BeforeFacts DEF Regs
  <2>4. Ready(regData, memData, rl, mem)
    BY <2>1, ReadyAsIs
  <2>5. real' = rl
    BY <2>2 DEF Does
  <2>6. ASSUME GoTo(regData, memData, s.v) PROVE result' = "RUNNING" => Follower'
    <3>1. s.v = a
      BY <2>1
    <3> HIDE DEF a, rl
    <3> QED
      BY <2>2, <2>3, <2>4, <2>6, <3>1, GoToFollows
  <2>7. CASE s.o # FromStack
    <3>1. GoTo(regData, memData, s.v) /\ frames' = frames
      BY <1>3, <2>7 DEF ArmBx
    <3> QED
      BY <2>6, <3>1 DEF Sound
  <2>8. CASE s.o = FromStack
    <3>1. Report(a) /\ (result' = "RUNNING" => GoTo(regData, memData, s.v))
      BY <1>3, <2>1, <2>8 DEF ArmBx, Stop
    <3>2. a = real'[15]
      BY <2>3, <2>5
    <3> HIDE DEF a
    <3> QED
      BY <2>6, <3>1, <3>2, ReportSound
  <2> QED
    BY <2>7, <2>8
<1> QED
  BY <1>2, <1>3

(* An ARM branch is followed.                                              *)
LEMMA ArmBranchSound ==
  ASSUME Before, mode = "arm", Led, NEW i \in ArmInstruction, i.op = "B",
         ArmBranch(i), Does(Result(i), mem)
  PROVE  Sound
<1>0. i.f \in Nat
  <2>1. PICK k \in Nat : i.f = k
    BY ArmFields
  <2> QED
    BY <2>1
<1> DEFINE f == SignedField(i.f, 24)
           p == real[15]
           x == (p + 4 * f) + 4
<1>1. f \in Int
  BY <1>0, SignedIsNumber
<1>2. p \in Int /\ Pc = p /\ Wide = 4 /\ ~InThumb
  BY BeforeFacts, WordFacts DEF Regs, Wide, InThumb
<1> HIDE DEF f, p
<1>3. x \in Int /\ x + Wide = p + (8 + 4 * f) /\ (x + Wide) % 2 = p % 2
  BY <1>1, <1>2
<1>4. Does(Going(x + Wide), mem)
  <2>1. Result(i) = Going(p + (8 + 4 * f))
    BY <1>2 DEF Result, f, p
  <2> QED
    BY <1>3, <2>1
<1>5. Continue([regData EXCEPT ![15].v = Word(x)], memData)
  <2>1. ArmBranch(i) <=> Continue([regData EXCEPT ![15].v = Word(@ + 4 * f + 4)], memData)
    BY DEF ArmBranch, f
  <2>2. [regData EXCEPT ![15].v = Word(@ + 4 * f + 4)] = [regData EXCEPT ![15].v = Word(p + 4 * f + 4)]
    BY <1>2, BeforeFacts DEF Pc, Regs
  <2> QED
    BY <2>1, <2>2
<1> HIDE DEF x
<1> QED
  BY <1>3, <1>4, <1>5, BranchSound DEF p

(* A register that is no longer tracked.                                   *)
LEMMA Forgotten ==
  ASSUME NEW r \in Regs, NEW rs, IsRegisters(rs)
  PROVE  [rs EXCEPT ![r].o = {}] = [rs EXCEPT ![r] = [v |-> rs[r].v, o |-> {}]]
<1>1. ASSUME NEW y, y = [v |-> y.v, o |-> y.o] PROVE [y EXCEPT !.o = {}] = [v |-> y.v, o |-> {}]
  BY <1>1
<1>2. rs[r] = [v |-> rs[r].v, o |-> rs[r].o]
  BY DEF IsRegisters
<1>3. [rs[r] EXCEPT !.o = {}] = [v |-> rs[r].v, o |-> {}]
  BY <1>1, <1>2
<1>4. [rs EXCEPT ![r].o = {}] = [rs EXCEPT ![r] = [rs[r] EXCEPT !.o = {}]]
  OBVIOUS
<1> QED
  BY <1>3, <1>4

(* A register gets a value that is not known.                              *)
LEMMA UnknownValueSound ==
  ASSUME Before, Led, NEW r \in Regs, Does(Set(r, Another(real[r])), mem),
         Continue([regData EXCEPT ![r].o = {}], memData)
  PROVE  Sound
<1>1. CASE r # 15
  <2>2. [regData EXCEPT ![r].o = {}] = [regData EXCEPT ![r] = [v |-> regData[r].v, o |-> {}]]
    BY Forgotten DEF Before, Follower, Follows
  <2>3. r \in Regs \ {15}
    BY <1>1
  <2> QED
    BY <2>2, <2>3, CarrySound
<1>2. CASE r = 15
  <2> DEFINE rs == [regData EXCEPT ![15].o = {}]
             y == Word(Another(real[15]))
             rl == [real EXCEPT ![15] = y]
  <2>1. Set(r, Another(real[r])) = rl
    BY <1>2 DEF Set, Going
  <2>2. y \in WordSet
    <3>1. real[15] \in Int
      BY BeforeFacts, WordFacts DEF Regs
    <3>2. Another(real[15]) \in Int
      BY <3>1, WordFacts DEF Another
    <3> QED
      BY <3>2, WordFacts
  <2> HIDE DEF y
  <2>3. rl \in [Regs -> WordSet] /\ \A q \in Regs \ {15} : rl[q] = real[q]
    BY <2>2, BeforeFacts
  <2>4. rs = [q \in Regs |-> IF q = 15 THEN [v |-> regData[15].v, o |-> {}] ELSE regData[q]]
    <3>1. regData = [q \in Regs |-> regData[q]] /\ 15 \in Regs
      BY BeforeFacts DEF Regs
    <3>2. rs = [regData EXCEPT ![15] = [v |-> regData[15].v, o |-> {}]]
      BY <3>1, Forgotten DEF Before, Follower, Follows
    <3> HIDE DEF rs
    <3> QED
      BY <3>1, <3>2
  <2> HIDE DEF rs, rl
  <2>5. IsRegisters(rs)
    <3>1. \A q \in Regs : rs[q] = [v |-> rs[q].v, o |-> rs[q].o]
      BY <2>4, BeforeFacts
    <3> QED
      BY <2>4, <3>1 DEF IsRegisters
  <2>6. ~Valid(rs[15].o)
    BY <2>4, Origins DEF Regs
  <2>7. \A q \in Regs \ {15} : Valid(rs[q].o) => Tracked(q) /\ rs[q].v = regData[q].v /\ rl[q] = real[q]
    BY <2>3, <2>4 DEF Tracked
  <2> QED
    BY <1>2, <2>1, <2>3, <2>5, <2>6, <2>7, KeepSound DEF rs
<1> QED
  BY <1>1, <1>2

(* A register loaded with the flags is not known any more.                 *)
LEMMA ArmMrsSound ==
  ASSUME Before, Led, NEW i \in ArmInstruction, i.op = "MRS", ArmMrs(i), Does(Result(i), mem)
  PROVE  Sound
<1>1. i.rd \in Regs
  BY ArmFields
<1>2. Result(i) = Set(i.rd, Another(real[i.rd]))
  BY DEF Result
<1>3. Continue([regData EXCEPT ![i.rd].o = {}], memData)
  BY DEF ArmMrs
<1> QED
  BY <1>1, <1>2, <1>3, UnknownValueSound

(* Setting the flags changes no register.                                  *)
LEMMA ArmMsrSound ==
  ASSUME Before, Led, NEW i, i.op = "MSR", ArmMsr, Does(Result(i), mem)
  PROVE  Sound
<1>1. Result(i) = Onwards(real)
  BY DEF Result
<1> QED
  BY <1>1, IdleSound DEF ArmMsr

(* For distances of a byte the unwinder's shifter is the processor's.      *)
LEMMA ArmShift ==
  ASSUME NEW kind \in Shift, NEW v \in WordSet, NEW n \in 0..255
  PROVE  ShiftedByArm(kind, v, n) = Shifted(kind, v, n)
<1>1. CASE ~(kind = "ASR" /\ Negative(v) /\ n >= Bits)
  BY <1>1 DEF ShiftedByArm
<1>2. CASE kind = "ASR" /\ Negative(v) /\ n >= Bits
  <2>1. ShiftedByArm(kind, v, n) = Modulus - 1
    BY <1>2 DEF ShiftedByArm
  <2>2. n % 256 = n /\ Bits \in Nat
    BY ModulusFacts
  <2>3. Shifted(kind, v, n) = v \div 2^Bits + (Modulus - 2^(Bits - Bits))
    <3>1. (IF kind = "ROR" THEN (n % 256) % Bits ELSE IF n % 256 > Bits THEN Bits ELSE n % 256) = Bits
      BY <1>2, <2>2
    <3> DEFINE d == IF kind = "ROR" THEN (n % 256) % Bits ELSE IF n % 256 > Bits THEN Bits ELSE n % 256
    <3>2. Shifted(kind, v, n) = v \div 2^d + (IF Negative(v) THEN Modulus - 2^(Bits - d) ELSE 0)
      BY <1>2 DEF Shifted
    <3> HIDE DEF d
    <3>3. d = Bits
      BY <3>1 DEF d
    <3> QED
      BY <1>2, <3>2, <3>3
  <2>4. Bits - Bits = 0 /\ 2^0 = 1
    BY <2>2, PowersAssumption
  <2>5. v \div 2^Bits = 0
    <3>1. Modulus \in Nat \ {0} /\ v \in 0..(Modulus - 1) /\ 2^Bits = Modulus
      BY ModulusFacts DEF WordSet, Modulus
    <3> DEFINE m == Modulus
    <3> HIDE DEF m
    <3>2. m \in Nat \ {0} /\ v \in 0..(m - 1)
      BY <3>1 DEF m
    <3>3. v \div m = 0
      BY <3>2
    <3> QED
      BY <3>1, <3>3 DEF m
  <2>6. Modulus - 1 \in Int
    BY ModulusFacts
  <2>7. 2^(Bits - Bits) = 1
    BY <2>4
  <2> DEFINE q == v \div 2^Bits
             p == 2^(Bits - Bits)
             m == Modulus
  <2> HIDE DEF q, p, m
  <2>8. q + (m - p) = m - 1
    BY <2>5, <2>6, <2>7 DEF q, p, m
  <2> QED
    BY <2>1, <2>3, <2>8 DEF q, p, m
<1> QED
  BY <1>1, <1>2

(* The second operand, if its origin is valid, is the processor's.         *)
LEMMA SecondOperandTrue ==
  ASSUME Before, NEW i \in ArmInstruction, i.op = "DP", ~Misread(i)
  PROVE  /\ SecondOperand(i.op2) \in Int
         /\ Valid(Origin2(i.op2)) => Operand2(i.op2) = SecondOperand(i.op2)
<1> DEFINE x == i.op2
<1>1. x \in Operand
  BY ArmFields
<1> HIDE DEF x
<1>2. CASE x.type = "imm"
  <2>1. Operand2(x) = x.n /\ SecondOperand(x) = x.n /\ x.n \in WordSet
    BY <1>1, <1>2, OperandFields DEF Operand2, SecondOperand
  <2> QED
    BY <2>1, WordFacts DEF x
<1>3. CASE x.type = "reg"
  <2>1. x.rm \in Regs /\ x.shift \in Shift /\ x.n \in 0..32 /\ x.rm # 15
    BY <1>1, <1>3, OperandFields DEF Misread, x
  <2> DEFINE w == real[x.rm]
  <2>2. Operand2(x) = ShiftedByArm(x.shift, regData[x.rm].v, x.n)
    BY <1>3 DEF Operand2
  <2>3. SecondOperand(x) = Shifted(x.shift, w, x.n)
    BY <1>3, <2>1 DEF SecondOperand, Read
  <2>4. w \in WordSet /\ w \in Int /\ x.n \in Nat /\ x.n \in 0..255
    BY <2>1, BeforeFacts, WordFacts
  <2>5. Valid(Origin2(x)) => regData[x.rm].v = w
    <3>1. Valid(Origin2(x)) => Valid(regData[x.rm].o)
      BY <1>3, Origins DEF Origin2
    <3> QED
      BY <2>1, <3>1, BeforeFacts DEF Tracked
  <2> HIDE DEF w
  <2>6. Shifted(x.shift, w, x.n) \in Int
    BY <2>1, <2>4, ShiftIsNumber
  <2>7. ShiftedByArm(x.shift, w, x.n) = Shifted(x.shift, w, x.n)
    BY <2>1, <2>4, ArmShift
  <2> QED
    BY <2>2, <2>3, <2>5, <2>6, <2>7 DEF x
<1>4. CASE x.type = "regshift"
  <2>1. x.rm \in Regs /\ x.shift \in Shift /\ x.rs \in Regs /\ x.rm # 15
        /\ ~(x.shift = "ASR" /\ regData[x.rs].v > 255)
    BY <1>1, <1>4, OperandFields DEF Misread, x
  <2> DEFINE w == real[x.rm]
             n == real[x.rs]
  <2>2. Operand2(x) = ShiftedByArm(x.shift, regData[x.rm].v, regData[x.rs].v)
    BY <1>4 DEF Operand2
  <2>3. SecondOperand(x) = Shifted(x.shift, w, n)
    BY <1>4, <2>1 DEF SecondOperand, Read
  <2>4. w \in WordSet /\ w \in Int /\ n \in Nat
    BY <2>1, BeforeFacts, WordFacts
  <2>5. Valid(Origin2(x)) => regData[x.rm].v = w /\ regData[x.rs].v = n
    <3>1. Valid(Origin2(x)) => Valid(regData[x.rm].o) /\ Valid(regData[x.rs].o)
      BY <1>4, Origins DEF Origin2
    <3> QED
      BY <2>1, <3>1, BeforeFacts DEF Tracked
  <2> HIDE DEF w, n
  <2>6. Valid(Origin2(x)) => ShiftedByArm(x.shift, w, n) = Shifted(x.shift, w, n)
    <3> SUFFICES ASSUME Valid(Origin2(x)) PROVE ShiftedByArm(x.shift, w, n) = Shifted(x.shift, w, n)
      OBVIOUS
    <3>1. CASE x.shift = "ASR"
      <4>1. n \in 0..255
        BY <2>1, <2>4, <2>5, <3>1
      <4> QED
        BY <2>1, <2>4, <4>1, ArmShift
    <3>2. CASE x.shift # "ASR"
      BY <3>2 DEF ShiftedByArm
    <3> QED
      BY <3>1, <3>2
  <2> QED
    BY <2>1, <2>2, <2>3, <2>4, <2>5, <2>6, ShiftIsNumber DEF x
<1>5. CASE x.type = "rrx"
  <2>1. SecondOperand(x) = 0
    BY <1>5 DEF SecondOperand
  <2>2. Origin2(x) = {}
    BY <1>5, Origins DEF Origin2
  <2> QED
    BY <2>1, <2>2, Origins DEF x
<1> QED
  BY <1>1, <1>2, <1>3, <1>4, <1>5, OperandFields DEF x

(* The origin of a result is valid if those of the operands are.           *)
LEMMA ResultOrigin ==
  ASSUME NEW i, Valid(OriginOf(i))
  PROVE  /\ Valid(Origin2(i.op2))
         /\ i.kind \notin {"MOV", "MVN"} => Valid(regData[i.rn].o)
BY Origins DEF OriginOf

(* An ARM operation of the arithmetic unit is followed.                    *)
LEMMA ArmDataProcessingSound ==
  ASSUME Before, mode = "arm", Led, NEW i \in ArmInstruction, i.op = "DP",
         ArmDataProcessing(i), Does(Result(i), mem), ~Misread(i)
  PROVE  Sound
<1>1. /\ i.rd \in Regs /\ i.rn \in Regs /\ i.op2 \in Operand /\ i.rd # 15
      /\ i.kind \in {"AND", "EOR", "SUB", "RSB", "ADD", "ORR", "MOV", "BIC", "MVN",
                     "ADC", "SBC", "RSC", "TST", "TEQ", "CMP", "CMN"}
  BY ArmFields DEF Misread
<1>2. CASE Illegal(i.op2)
  BY <1>2, StopSound DEF ArmDataProcessing
<1>3. CASE ~Illegal(i.op2)
  <2> DEFINE ahead == Prefetch(i)
             value == Alu(i.kind, Word(regData[i.rn].v + ahead), Operand2(i.op2))
  <2>1. Continue(CASE i.kind \in Comparing -> regData
                   [] i.kind \in Carrying  -> [regData EXCEPT ![i.rd].o = {}]
                   [] OTHER -> [regData EXCEPT ![i.rd] = [v |-> Word(value), o |-> OriginOf(i)]],
                 memData)
    BY <1>1, <1>3 DEF ArmDataProcessing
  <2> HIDE DEF value
  <2>2. CASE i.kind \in Comparing
    <3>1. Result(i) = Onwards(real)
      BY <2>2 DEF Result, Comparing, Carrying
    <3>2. i.kind \notin Carrying
      BY <2>2 DEF Comparing, Carrying
    <3>3. Continue(regData, memData)
      BY <2>1, <2>2, <3>2
    <3> QED
      BY <3>1, <3>3, IdleSound
  <2>3. CASE i.kind \in Carrying
    <3>1. Result(i) = Set(i.rd, Another(real[i.rd]))
      BY <2>3 DEF Result
    <3>2. i.kind \notin Comparing
      BY <2>3 DEF Comparing, Carrying
    <3>3. Continue([regData EXCEPT ![i.rd].o = {}], memData)
      BY <2>1, <2>3, <3>2
    <3> QED
      BY <1>1, <3>1, <3>3, UnknownValueSound
  <2>4. CASE i.kind \notin Comparing \cup Carrying
    <3> DEFINE first == Read(i.rn, Ahead(i.op2))
               second == SecondOperand(i.op2)
               y == Alu(i.kind, first, second)
               o == OriginOf(i)
    <3>1. Result(i) = Set(i.rd, y)
      BY <2>4 DEF Result
    <3>2. Continue([regData EXCEPT ![i.rd] = [v |-> Word(value), o |-> o]], memData)
      BY <2>1, <2>4
    <3>3. /\ first \in WordSet /\ second \in Int
          /\ Valid(Origin2(i.op2)) => Operand2(i.op2) = second
      <4>1. real[i.rn] \in WordSet /\ real[15] \in Int /\ Ahead(i.op2) \in Int
        BY <1>1, BeforeFacts, WordFacts DEF Regs, Ahead
      <4>2. first \in WordSet
        BY <4>1, WordFacts DEF Read
      <4> QED
        BY <1>3, <4>2, SecondOperandTrue
    <3>4. Valid(regData[i.rn].o) => Word(regData[i.rn].v + ahead) = first
      <4> SUFFICES ASSUME Valid(regData[i.rn].o) PROVE Word(regData[i.rn].v + ahead) = first
        OBVIOUS
      <4>1. regData[i.rn].v = real[i.rn] /\ real[i.rn] \in WordSet
        BY <1>1, BeforeFacts DEF Tracked
      <4>2. CASE i.rn = 15
        <5>1. ahead = Ahead(i.op2)
          BY <4>2 DEF Prefetch, Ahead
        <5> QED
          BY <4>1, <4>2, <5>1 DEF Read
      <4>3. CASE i.rn # 15
        <5>1. ahead = 0
          BY <4>3 DEF Prefetch
        <5>2. first = real[i.rn]
          BY <4>3 DEF Read
        <5>3. real[i.rn] + 0 = real[i.rn] /\ Word(real[i.rn]) = real[i.rn]
          BY <4>1, WordFacts
        <5> QED
          BY <4>1, <5>1, <5>2, <5>3
      <4> QED
        BY <4>2, <4>3
    <3>5. y \in Int
      <4>1. i.kind \in Kinds \ Shift
        BY <1>1, <2>4 DEF Kinds, BitOperations, Shift, Comparing, Carrying
      <4>2. first \in WordSet /\ second \in Int
        BY <3>3
      <4> HIDE DEF first, second
      <4> QED
        BY <4>1, <4>2, AluOfNumbers
    <3>6. Valid(o) => Word(value) = Word(y)
      <4> SUFFICES ASSUME Valid(o) PROVE value = y
        OBVIOUS
      <4>1. Valid(Origin2(i.op2)) /\ (i.kind \notin {"MOV", "MVN"} => Valid(regData[i.rn].o))
        BY ResultOrigin
      <4>2. value = Alu(i.kind, Word(regData[i.rn].v + ahead), second)
        <5>1. Operand2(i.op2) = second
          BY <3>3, <4>1
        <5> HIDE DEF second, ahead
        <5> QED
          BY <5>1 DEF value
      <4>3. CASE i.kind \notin {"MOV", "MVN"}
        BY <3>4, <4>1, <4>2, <4>3
      <4>4. CASE i.kind \in {"MOV", "MVN"}
        BY <4>2, <4>4 DEF Alu
      <4> QED
        BY <4>3, <4>4
    <3>7. i.rd \in Regs \ {15}
      BY <1>1
    <3> DEFINE v == Word(value)
    <3> HIDE DEF y, v, o
    <3> QED
      BY <3>1, <3>2, <3>5, <3>6, <3>7, SetSound DEF v
  <2> QED
    BY <2>2, <2>3, <2>4
<1> QED
  BY <1>2, <1>3

----------------------------------------------------------------------------
(***************************************************************************)
(* Transfers of several registers, one register at a time.                 *)
(***************************************************************************)

(* A transfer w: what is done with a register, the registers to transfer   *)
(* and the order.                                                          *)
TransferOf(what, list, up) ==
  [what |-> what, list |-> list, up |-> up]

Register(w, m, r) ==
  CASE w.what = "pop"   -> PopRegister(m, r)
    [] w.what = "push"  -> PushRegister(m, r)
    [] w.what = "block" -> BlockRegister(m, r)

(* The register whose turn it is after k registers.                        *)
Turn(w, k) == IF w.up THEN k ELSE 15 - k

NextStates(w, k, S) ==
  UNION {IF m.ok /\ Turn(w, k) \in w.list THEN Register(w, m, Turn(w, k)) ELSE {m} : m \in S}

(* f has the states that a transfer may be in after each register, up to n *)
(* of them.                                                                *)
Course(w, start, f, n) ==
  f[0] = {start} /\ \A k \in 0..(n - 1) : f[k + 1] = NextStates(w, k, f[k])

(* Every transfer has a course.                                            *)
LEMMA CourseExists ==
  ASSUME NEW w, NEW start
  PROVE  \E f : f = [k \in 0..16 |-> f[k]] /\ Course(w, start, f, 16)
<1> DEFINE P == {n \in 0..16 : \E f : Course(w, start, f, n)}
<1>1. 0 \in P
  <2> DEFINE f == [x \in {0} |-> {start}]
  <2>1. Course(w, start, f, 0)
    BY DEF Course
  <2> QED
    BY <2>1
<1>2. ASSUME NEW n \in 0..(16 - 1), n \in P PROVE n + 1 \in P
  <2>1. PICK f : Course(w, start, f, n)
    BY <1>2
  <2> DEFINE h == [x \in 0..16 |-> IF x = n + 1 THEN NextStates(w, n, f[n]) ELSE f[x]]
  <2>2. h[n + 1] = NextStates(w, n, f[n]) /\ \A x \in 0..n : h[x] = f[x]
    OBVIOUS
  <2> HIDE DEF h
  <2>3. \A k \in 0..((n + 1) - 1) : h[k + 1] = NextStates(w, k, h[k])
    <3> SUFFICES ASSUME NEW k \in 0..n PROVE h[k + 1] = NextStates(w, k, h[k])
      OBVIOUS
    <3>1. h[k] = f[k]
      BY <2>2
    <3>2. CASE k = n
      BY <2>2, <3>1, <3>2
    <3>3. CASE k # n
      <4>1. k \in 0..(n - 1) /\ k + 1 \in 0..n
        BY <3>3
      <4> QED
        BY <2>1, <2>2, <3>1, <4>1 DEF Course
    <3> QED
      BY <3>2, <3>3
  <2>4. h[0] = {start}
    BY <2>1, <2>2 DEF Course
  <2>5. Course(w, start, h, n + 1)
    BY <2>3, <2>4 DEF Course
  <2> QED
    BY <2>5
<1> HIDE DEF P
<1>3. 16 \in Nat /\ 16 \in 0..16
  OBVIOUS
<1>4. 16 \in P
  <2> DEFINE n == 16
  <2>1. n \in Nat /\ \A k \in 0..(n - 1) : k \in P => k + 1 \in P
    BY <1>2
  <2> HIDE DEF n
  <2>2. 0..n \subseteq P
    BY <1>1, <2>1, UpTo
  <2> QED
    BY <1>3, <2>2 DEF n
<1>5. PICK g : Course(w, start, g, 16)
  BY <1>4 DEF P
<1> DEFINE f == [k \in 0..16 |-> g[k]]
<1>6. f[0] = g[0] /\ \A k \in 0..(16 - 1) : f[k] = g[k] /\ f[k + 1] = g[k + 1]
  OBVIOUS
<1>7. Course(w, start, f, 16)
  BY <1>5, <1>6 DEF Course
<1> QED
  BY <1>7

(* What a transfer may lead to are the states after all registers.         *)
LEMMA PopCourse ==
  ASSUME NEW start, NEW list,
         NEW m \in Transfers(start, PopRegister, list, TRUE)
  PROVE  \E f : Course(TransferOf("pop", list, TRUE), start, f, 16) /\ m \in f[16]
<1> DEFINE w == TransferOf("pop", list, TRUE)
           T(k) == IF TRUE THEN k - 1 ELSE 16 - k
           G(S, r) == UNION {IF q.ok /\ r \in list THEN PopRegister(q, r) ELSE {q} : q \in S}
           F(f) == [k \in 0..16 |-> IF k = 0 THEN {start} ELSE G(f[k - 1], T(k))]
<1>1. /\ w.list = list /\ \A k \in 0..15 : Turn(w, k) = T(k + 1)
      /\ \A q, r : Register(w, q, r) = PopRegister(q, r)
  BY DEF TransferOf, Turn, Register
<1> HIDE DEF w, T
<1>2. \A S : \A k \in 0..15 : NextStates(w, k, S) = G(S, T(k + 1))
  BY <1>1 DEF NextStates
<1> HIDE DEF G
<1>3. PICK g : g = [k \in 0..16 |-> g[k]] /\ Course(w, start, g, 16)
  BY CourseExists
<1>4. g = F(g)
  <2>1. \A k \in 0..16 : g[k] = F(g)[k]
    <3> SUFFICES ASSUME NEW k \in 0..16 PROVE g[k] = F(g)[k]
      OBVIOUS
    <3>1. CASE k = 0
      BY <1>3, <3>1 DEF Course
    <3>2. CASE k # 0
      <4>1. k - 1 \in 0..15 /\ (k - 1) + 1 = k
        BY <3>2
      <4>2. g[k] = NextStates(w, k - 1, g[k - 1])
        BY <1>3, <4>1 DEF Course
      <4>3. NextStates(w, k - 1, g[k - 1]) = G(g[k - 1], T(k))
        BY <1>2, <4>1
      <4> QED
        BY <3>2, <4>2, <4>3
    <3> QED
      BY <3>1, <3>2
  <2>2. F(g) = [k \in 0..16 |-> F(g)[k]]
    OBVIOUS
  <2> HIDE DEF F
  <2> QED
    BY <1>3, <2>1, <2>2
<1> DEFINE after == CHOOSE f : f = F(f)
<1>5. after = F(after)
  <2> HIDE DEF F
  <2> QED
    BY <1>4
<1>6. Transfers(start, PopRegister, list, TRUE) = after[16]
  BY DEF Transfers, G, T
<1> HIDE DEF after
<1>7. Course(w, start, after, 16)
  <2>1. after[0] = {start}
    BY <1>5
  <2>2. ASSUME NEW k \in 0..15 PROVE after[k + 1] = NextStates(w, k, after[k])
    <3>1. k + 1 \in 0..16 /\ k + 1 # 0 /\ (k + 1) - 1 = k
      OBVIOUS
    <3>2. after[k + 1] = F(after)[k + 1]
      BY <1>5
    <3>3. F(after)[k + 1] = G(after[k], T(k + 1))
      BY <3>1
    <3> QED
      BY <1>2, <3>2, <3>3
  <2> QED
    BY <2>1, <2>2 DEF Course
<1> QED
  BY <1>6, <1>7 DEF w

(* So it is for a push. *)
LEMMA PushCourse ==
  ASSUME NEW start, NEW list,
         NEW m \in Transfers(start, PushRegister, list, FALSE)
  PROVE  \E f : Course(TransferOf("push", list, FALSE), start, f, 16) /\ m \in f[16]
<1> DEFINE w == TransferOf("push", list, FALSE)
           T(k) == IF FALSE THEN k - 1 ELSE 16 - k
           G(S, r) == UNION {IF q.ok /\ r \in list THEN PushRegister(q, r) ELSE {q} : q \in S}
           F(f) == [k \in 0..16 |-> IF k = 0 THEN {start} ELSE G(f[k - 1], T(k))]
<1>1. /\ w.list = list /\ \A k \in 0..15 : Turn(w, k) = T(k + 1)
      /\ \A q, r : Register(w, q, r) = PushRegister(q, r)
  BY DEF TransferOf, Turn, Register
<1> HIDE DEF w, T
<1>2. \A S : \A k \in 0..15 : NextStates(w, k, S) = G(S, T(k + 1))
  BY <1>1 DEF NextStates
<1> HIDE DEF G
<1>3. PICK g : g = [k \in 0..16 |-> g[k]] /\ Course(w, start, g, 16)
  BY CourseExists
<1>4. g = F(g)
  <2>1. \A k \in 0..16 : g[k] = F(g)[k]
    <3> SUFFICES ASSUME NEW k \in 0..16 PROVE g[k] = F(g)[k]
      OBVIOUS
    <3>1. CASE k = 0
      BY <1>3, <3>1 DEF Course
    <3>2. CASE k # 0
      <4>1. k - 1 \in 0..15 /\ (k - 1) + 1 = k
        BY <3>2
      <4>2. g[k] = NextStates(w, k - 1, g[k - 1])
        BY <1>3, <4>1 DEF Course
      <4>3. NextStates(w, k - 1, g[k - 1]) = G(g[k - 1], T(k))
        BY <1>2, <4>1
      <4> QED
        BY <3>2, <4>2, <4>3
    <3> QED
      BY <3>1, <3>2
  <2>2. F(g) = [k \in 0..16 |-> F(g)[k]]
    OBVIOUS
  <2> HIDE DEF F
  <2> QED
    BY <1>3, <2>1, <2>2
<1> DEFINE after == CHOOSE f : f = F(f)
<1>5. after = F(after)
  <2> HIDE DEF F
  <2> QED
    BY <1>4
<1>6. Transfers(start, PushRegister, list, FALSE) = after[16]
  BY DEF Transfers, G, T
<1> HIDE DEF after
<1>7. Course(w, start, after, 16)
  <2>1. after[0] = {start}
    BY <1>5
  <2>2. ASSUME NEW k \in 0..15 PROVE after[k + 1] = NextStates(w, k, after[k])
    <3>1. k + 1 \in 0..16 /\ k + 1 # 0 /\ (k + 1) - 1 = k
      OBVIOUS
    <3>2. after[k + 1] = F(after)[k + 1]
      BY <1>5
    <3>3. F(after)[k + 1] = G(after[k], T(k + 1))
      BY <3>1
    <3> QED
      BY <1>2, <3>2, <3>3
  <2> QED
    BY <2>1, <2>2 DEF Course
<1> QED
  BY <1>6, <1>7 DEF w

(* And for the transfer of a block. *)
LEMMA BlockCourse ==
  ASSUME NEW start, NEW list, NEW up \in BOOLEAN,
         NEW m \in Transfers(start, BlockRegister, list, up)
  PROVE  \E f : Course(TransferOf("block", list, up), start, f, 16) /\ m \in f[16]
<1> DEFINE w == TransferOf("block", list, up)
           T(k) == IF up THEN k - 1 ELSE 16 - k
           G(S, r) == UNION {IF q.ok /\ r \in list THEN BlockRegister(q, r) ELSE {q} : q \in S}
           F(f) == [k \in 0..16 |-> IF k = 0 THEN {start} ELSE G(f[k - 1], T(k))]
<1>1. /\ w.list = list /\ \A k \in 0..15 : Turn(w, k) = T(k + 1)
      /\ \A q, r : Register(w, q, r) = BlockRegister(q, r)
  BY DEF TransferOf, Turn, Register
<1> HIDE DEF w, T
<1>2. \A S : \A k \in 0..15 : NextStates(w, k, S) = G(S, T(k + 1))
  BY <1>1 DEF NextStates
<1> HIDE DEF G
<1>3. PICK g : g = [k \in 0..16 |-> g[k]] /\ Course(w, start, g, 16)
  BY CourseExists
<1>4. g = F(g)
  <2>1. \A k \in 0..16 : g[k] = F(g)[k]
    <3> SUFFICES ASSUME NEW k \in 0..16 PROVE g[k] = F(g)[k]
      OBVIOUS
    <3>1. CASE k = 0
      BY <1>3, <3>1 DEF Course
    <3>2. CASE k # 0
      <4>1. k - 1 \in 0..15 /\ (k - 1) + 1 = k
        BY <3>2
      <4>2. g[k] = NextStates(w, k - 1, g[k - 1])
        BY <1>3, <4>1 DEF Course
      <4>3. NextStates(w, k - 1, g[k - 1]) = G(g[k - 1], T(k))
        BY <1>2, <4>1
      <4> QED
        BY <3>2, <4>2, <4>3
    <3> QED
      BY <3>1, <3>2
  <2>2. F(g) = [k \in 0..16 |-> F(g)[k]]
    OBVIOUS
  <2> HIDE DEF F
  <2> QED
    BY <1>3, <2>1, <2>2
<1> DEFINE after == CHOOSE f : f = F(f)
<1>5. after = F(after)
  <2> HIDE DEF F
  <2> QED
    BY <1>4
<1>6. Transfers(start, BlockRegister, list, up) = after[16]
  BY DEF Transfers, G, T
<1> HIDE DEF after
<1>7. Course(w, start, after, 16)
  <2>1. after[0] = {start}
    BY <1>5
  <2>2. ASSUME NEW k \in 0..15 PROVE after[k + 1] = NextStates(w, k, after[k])
    <3>1. k + 1 \in 0..16 /\ k + 1 # 0 /\ (k + 1) - 1 = k
      OBVIOUS
    <3>2. after[k + 1] = F(after)[k + 1]
      BY <1>5
    <3>3. F(after)[k + 1] = G(after[k], T(k + 1))
      BY <3>1
    <3> QED
      BY <1>2, <3>2, <3>3
  <2> QED
    BY <2>1, <2>2 DEF Course
<1> QED
  BY <1>6, <1>7 DEF w

(* How many registers of a list have a lower number than k.                *)
Count(list, k) == Cardinality({q \in list : q < k})

(* Counting the registers of a list from register 0 on.                    *)
LEMMA Counting ==
  ASSUME NEW list, list \subseteq Regs
  PROVE  /\ Cardinality(list) \in 0..16 /\ Count(list, 0) = 0 /\ Count(list, 16) = Cardinality(list)
         /\ \A k \in Int : Count(list, k) \in 0..16
         /\ \A k \in Int : Count(list, k + 1) = Count(list, k) + (IF k \in list THEN 1 ELSE 0)
         /\ \A r \in list, k \in Int : r < k => Count(list, r) + 1 <= Count(list, k)
<1>0. \A q \in list : q \in Int /\ 0 <= q /\ q < 16
  BY DEF Regs
<1>1. IsFiniteSet(Regs) /\ Cardinality(Regs) = 16
  <2>1. 0 \in Int /\ 15 \in Int /\ ~(0 > 15) /\ 15 - 0 + 1 = 16
    OBVIOUS
  <2>2. IsFiniteSet(0..15) /\ Cardinality(0..15) = IF 0 > 15 THEN 0 ELSE 15 - 0 + 1
    BY ONLY <2>1, FS_Interval, Zenon
  <2> QED
    BY <2>1, <2>2 DEF Regs
<1>2. ASSUME NEW S, S \subseteq list PROVE IsFiniteSet(S) /\ Cardinality(S) \in 0..16
  <2>1. IsFiniteSet(S) /\ Cardinality(S) <= 16
    BY <1>1, <1>2, FS_Subset
  <2>2. Cardinality(S) \in Nat
    BY <2>1, FS_CardinalityType
  <2> QED
    BY <2>1, <2>2
<1>3. Cardinality(list) \in 0..16
  BY <1>2
<1>4. Count(list, 0) = 0
  <2>1. {q \in list : q < 0} = {}
    <3>1. \A q \in list : ~(q < 0)
      BY <1>0
    <3> QED
      BY <3>1
  <2> QED
    BY <2>1, FS_EmptySet DEF Count
<1>5. Count(list, 16) = Cardinality(list)
  <2>1. {q \in list : q < 16} = list
    BY <1>0
  <2> QED
    BY <2>1 DEF Count
<1>6. \A k \in Int : Count(list, k) \in 0..16
  <2> SUFFICES ASSUME NEW k \in Int PROVE Count(list, k) \in 0..16
    OBVIOUS
  <2> DEFINE S == {q \in list : q < k}
  <2>1. S \subseteq list
    OBVIOUS
  <2>2. Cardinality(S) \in 0..16
    BY <1>2, <2>1
  <2> QED
    BY <2>2 DEF Count
<1>7. ASSUME NEW k \in Int PROVE Count(list, k + 1) = Count(list, k) + (IF k \in list THEN 1 ELSE 0)
  <2> DEFINE S == {q \in list : q < k}
  <2>0. S \subseteq list /\ k \notin S
    OBVIOUS
  <2>1. IsFiniteSet(S) /\ Cardinality(S) \in 0..16
    BY <1>2, <2>0
  <2>2. CASE k \in list
    <3>1. \A q \in list : q < k + 1 <=> q < k \/ q = k
      BY <1>0
    <3>2. {q \in list : q < k + 1} = S \cup {k}
      BY <2>2, <3>1
    <3> HIDE DEF S
    <3>3. Cardinality(S \cup {k}) = Cardinality(S) + 1
      BY <2>0, <2>1, FS_AddElement
    <3> QED
      BY <2>2, <3>2, <3>3 DEF Count, S
  <2>3. CASE k \notin list
    <3>1. {q \in list : q < k + 1} = S
      BY <1>0, <2>3
    <3>2. Count(list, k + 1) = Cardinality(S) /\ Count(list, k) = Cardinality(S)
      BY <3>1 DEF Count
    <3> HIDE DEF S
    <3> QED
      BY <2>1, <2>3, <3>2
  <2> QED
    BY <2>2, <2>3
<1>8. ASSUME NEW r \in list, NEW k \in Int, r < k PROVE Count(list, r) + 1 <= Count(list, k)
  <2> DEFINE S == {q \in list : q < r}
             T == {q \in list : q < k}
  <2>0. S \subseteq list /\ T \subseteq list /\ r \notin S /\ r \in Int
    BY <1>0
  <2>1. IsFiniteSet(S) /\ IsFiniteSet(T) /\ Cardinality(S) \in 0..16
    BY <1>2, <2>0
  <2>2. S \cup {r} \in SUBSET T
    BY <1>0, <1>8
  <2>3. Count(list, r) = Cardinality(S) /\ Count(list, k) = Cardinality(T)
    BY DEF Count
  <2> HIDE DEF S, T
  <2>4. Cardinality(S \cup {r}) = Cardinality(S) + 1
    BY <2>0, <2>1, FS_AddElement
  <2>5. Cardinality(S \cup {r}) <= Cardinality(T)
    BY <2>1, <2>2, FS_Subset
  <2> QED
    BY <2>3, <2>4, <2>5
<1> QED
  BY <1>3, <1>4, <1>5, <1>6, <1>7, <1>8

(* The same of one register.                                               *)
LEMMA CountsOf ==
  ASSUME NEW list, list \subseteq Regs, NEW k \in Regs
  PROVE  /\ k \in Int /\ Count(list, k) \in Int /\ Count(list, k) \in 0..16
         /\ Count(list, k + 1) = Count(list, k) + (IF k \in list THEN 1 ELSE 0)
         /\ k \in list => Count(list, k) + 1 <= Cardinality(list)
         /\ Cardinality(list) \in Int
<1>1. k \in Int /\ 16 \in Int /\ k < 16
  BY DEF Regs
<1>2. Count(list, k) \in 0..16
  BY <1>1, Counting
<1>3. Count(list, k + 1) = Count(list, k) + (IF k \in list THEN 1 ELSE 0)
  BY <1>1, Counting
<1>4. k \in list => Count(list, k) + 1 <= Count(list, 16)
  BY <1>1, Counting
<1>5. Count(list, 16) = Cardinality(list) /\ Cardinality(list) \in 0..16
  BY Counting
<1> QED
  BY <1>1, <1>2, <1>3, <1>4, <1>5

(* What a transfer changes of its record.                                  *)
LEMMA RecordWrites ==
  ASSUME NEW regs, NEW h, NEW r, NEW y, NEW k, NEW m,
         m = [regs |-> regs, hash |-> h, ok |-> k]
  PROVE  /\ [m EXCEPT !.regs[r] = y] = [regs |-> [regs EXCEPT ![r] = y], hash |-> h, ok |-> k]
         /\ m.regs = regs /\ m.hash = h /\ m.ok = k
<1>1. m.regs = regs /\ m.hash = h /\ m.ok = k
  OBVIOUS
<1> DEFINE z == [regs EXCEPT ![r] = y]
<1>2. [m EXCEPT !.regs[r] = y] = [m EXCEPT !.regs = z]
  BY <1>1
<1> HIDE DEF z
<1>3. [m EXCEPT !.regs = z] = [regs |-> z, hash |-> h, ok |-> k]
  OBVIOUS
<1> QED
  BY <1>1, <1>2, <1>3 DEF z

(* A step of a transfer.                                                   *)
LEMMA CourseStep ==
  ASSUME NEW w, NEW start, NEW f, Course(w, start, f, 16), NEW k \in 0..15, NEW q \in f[k + 1]
  PROVE  \E m \in f[k] : /\ m.ok /\ Turn(w, k) \in w.list => q \in Register(w, m, Turn(w, k))
                         /\ ~(m.ok /\ Turn(w, k) \in w.list) => q = m
<1>1. f[k + 1] = NextStates(w, k, f[k])
  BY DEF Course
<1>2. PICK m \in f[k] :
        q \in IF m.ok /\ Turn(w, k) \in w.list THEN Register(w, m, Turn(w, k)) ELSE {m}
  BY <1>1 DEF NextStates
<1> QED
  BY <1>2

(* The registers of a pop, when those below k have been popped.            *)
Popped(m, list, k) ==
  /\ m = [regs |-> m.regs, hash |-> memData, ok |-> TRUE]
  /\ IsRegisters(m.regs)
  /\ m.regs[13] = [v |-> Word(real[13] + 4 * Count(list, k)), o |-> regData[13].o]
  /\ \A r \in Regs \ {13} :
       IF r \in list /\ r < k
       THEN Valid(m.regs[r].o) => m.regs[r].v = At(mem, Word(real[13] + 4 * Count(list, r)))
       ELSE m.regs[r] = regData[r]

(* One register more is popped.                                            *)
LEMMA PopStep ==
  ASSUME Before, NEW list, list \subseteq 0..7, NEW k \in 0..15, k \in list,
         NEW m, Popped(m, list, k), NEW q \in PopRegister(m, k), q.ok
  PROVE  Popped(q, list, k + 1)
<1> DEFINE a == m.regs[13].v
           x == UnwMemReadRegister(memData, a)
           o == IF TRUE /\ Valid(x.o) THEN FromStack ELSE x.o
           n == LoadRegister(m, k, a, TRUE)
<1>0. list \subseteq Regs /\ k \in Regs /\ k \in Regs \ {13} /\ 13 \in Regs /\ k # 13
  BY DEF Regs
<1>1. /\ m = [regs |-> m.regs, hash |-> memData, ok |-> TRUE]
      /\ m.regs = [r \in Regs |-> [v |-> m.regs[r].v, o |-> m.regs[r].o]]
      /\ a = Word(real[13] + 4 * Count(list, k)) /\ m.regs[13].o = regData[13].o
  BY DEF Popped, IsRegisters
<1>2. Count(list, k) \in Int /\ Count(list, k + 1) = Count(list, k) + 1 /\ real[13] \in Int
  <2>1. real[13] \in Int
    BY <1>0, BeforeFacts, WordFacts
  <2>2. Count(list, k) \in Int /\ Count(list, k + 1) = Count(list, k) + 1
    BY <1>0, CountsOf
  <2> QED
    BY <2>1, <2>2
<1>3. a \in WordSet
  BY <1>1, <1>2, WordFacts
<1>4. Word(a + 4) = Word(real[13] + 4 * Count(list, k + 1))
  <2> DEFINE c == real[13] + 4 * Count(list, k)
  <2>1. c \in Int /\ c + 4 = real[13] + 4 * Count(list, k + 1)
    BY <1>2
  <2> HIDE DEF c
  <2>2. Word(Word(c) + 4) = Word(c + 4)
    BY <2>1, WordAdds
  <2> QED
    BY <1>1, <2>1, <2>2 DEF c
<1> HIDE DEF a
<1>5. q = IF n.ok THEN [n EXCEPT !.regs[13].v = Word(@ + 4)] ELSE n
  BY DEF PopRegister, a
<1>6. m.hash = memData
  BY <1>1
<1>7. n = IF x.ok THEN [m EXCEPT !.regs[k] = [v |-> x.v, o |-> o]] ELSE [m EXCEPT !.ok = FALSE]
  BY <1>6 DEF LoadRegister
<1>8. x.ok
  BY <1>1, <1>5, <1>7
<1>9. Valid(o) => x.v = At(mem, a)
  BY <1>3, <1>8, BeforeFacts, ReadAgrees
<1> DEFINE v == x.v
<1>10. Valid(o) => v = At(mem, a)
  BY <1>9
<1>11. n = [m EXCEPT !.regs[k] = [v |-> v, o |-> o]]
  BY <1>7, <1>8
<1> HIDE DEF v, o, x, n
<1> DEFINE ns == [m.regs EXCEPT ![k] = [v |-> v, o |-> o]]
           qs == [ns EXCEPT ![13].v = Word(@ + 4)]
<1>12. n = [regs |-> ns, hash |-> memData, ok |-> TRUE]
  <2> DEFINE y == [v |-> v, o |-> o]
             ms == m.regs
  <2>1. n = [m EXCEPT !.regs[k] = y] /\ m = [regs |-> ms, hash |-> memData, ok |-> TRUE]
        /\ ns = [ms EXCEPT ![k] = y]
    BY <1>1, <1>11
  <2> HIDE DEF y, ms, ns
  <2>2. n = [regs |-> [ms EXCEPT ![k] = y], hash |-> memData, ok |-> TRUE]
    BY <2>1, RecordWrites
  <2> QED
    BY <2>1, <2>2
<1>13. q = [regs |-> qs, hash |-> memData, ok |-> TRUE]
  <2>1. n.ok /\ n.regs = ns
    BY <1>12
  <2>2. q = [n EXCEPT !.regs[13].v = Word(@ + 4)]
    BY <1>5, <2>1
  <2>3. q = [n EXCEPT !.regs[13] = [ns[13] EXCEPT !.v = Word(@ + 4)]]
    BY <2>1, <2>2
  <2> DEFINE y == [ns[13] EXCEPT !.v = Word(@ + 4)]
  <2>4. qs = [ns EXCEPT ![13] = y]
    OBVIOUS
  <2>5. q = [n EXCEPT !.regs[13] = y]
    BY <2>3
  <2> HIDE DEF y, ns, qs
  <2>6. q = [regs |-> [ns EXCEPT ![13] = y], hash |-> memData, ok |-> TRUE]
    BY <1>12, <2>5, RecordWrites
  <2> QED
    BY <2>4, <2>6
<1>14. DOMAIN ns = Regs /\ ns[k] = [v |-> v, o |-> o] /\ \A r \in Regs \ {k} : ns[r] = m.regs[r]
  BY <1>0, <1>1
<1>15. \A r \in Regs : ns[r] = [v |-> ns[r].v, o |-> ns[r].o]
  BY <1>1, <1>14
<1> HIDE DEF ns
<1>16. /\ DOMAIN qs = Regs /\ qs[13] = [v |-> Word(a + 4), o |-> regData[13].o]
       /\ \A r \in Regs \ {13} : qs[r] = ns[r]
  <2>1. ns[13] = [v |-> a, o |-> regData[13].o]
    BY <1>0, <1>1, <1>14 DEF a
  <2> QED
    BY <1>0, <1>14, <2>1
<1>17. qs = [r \in Regs |-> qs[r]]
  BY <1>16
<1> HIDE DEF qs
<1>18. \A r \in Regs : qs[r] = [v |-> qs[r].v, o |-> qs[r].o]
  BY <1>15, <1>16
<1>19. IsRegisters(qs)
  BY <1>17, <1>18 DEF IsRegisters
<1>20. ASSUME NEW r \in Regs \ {13}
       PROVE  IF r \in list /\ r < k + 1
              THEN Valid(qs[r].o) => qs[r].v = At(mem, Word(real[13] + 4 * Count(list, r)))
              ELSE qs[r] = regData[r]
  <2>1. CASE r = k
    <3>1. qs[r] = [v |-> v, o |-> o]
      BY <1>0, <1>14, <1>16, <2>1
    <3> QED
      BY <1>1, <1>10, <2>1, <3>1
  <2>2. CASE r # k
    <3>1. qs[r] = m.regs[r]
      BY <1>14, <1>16, <2>2
    <3>2. r < k + 1 <=> r < k
      BY <2>2 DEF Regs
    <3> QED
      BY <3>1, <3>2 DEF Popped
  <2> QED
    BY <2>1, <2>2
<1> QED
  BY <1>4, <1>13, <1>16, <1>19, <1>20 DEF Popped

(* What is left when all registers of the list have been popped.           *)
LEMMA PopFollows ==
  ASSUME Before, NEW list, list \subseteq 0..7,
         NEW m \in Transfers(Transferring, PopRegister, list, TRUE), m.ok
  PROVE  Popped(m, list, 16)
<1> DEFINE w == TransferOf("pop", list, TRUE)
<1>1. PICK f : Course(w, Transferring, f, 16) /\ m \in f[16]
  BY PopCourse
<1>2. w.list = list /\ (\A k : Turn(w, k) = k) /\ \A q, r : Register(w, q, r) = PopRegister(q, r)
  BY DEF TransferOf, Turn, Register
<1> HIDE DEF w
<1>3. list \subseteq Regs
  BY DEF Regs
<1> DEFINE P == {k \in 0..16 : \A q \in f[k] : q.ok => Popped(q, list, k)}
<1>4. 0 \in P
  <2>1. f[0] = {Transferring}
    BY <1>1 DEF Course
  <2>2. Transferring = [regs |-> regData, hash |-> memData, ok |-> TRUE] /\ Transferring.regs = regData
    BY DEF Transferring
  <2>3. IsRegisters(regData) /\ real[13] \in Int /\ Word(real[13]) = real[13]
        /\ regData[13] = [v |-> real[13], o |-> regData[13].o]
    BY BeforeFacts, WordFacts DEF Before, Follower, Follows, Sp, Regs
  <2>4. Count(list, 0) = 0 /\ real[13] + 4 * 0 = real[13]
    <3>1. Count(list, 0) = 0
      BY <1>3, Counting, Zenon
    <3> QED
      BY <2>3, <3>1
  <2>5. \A r \in Regs : ~(r < 0)
    BY DEF Regs
  <2>6. Popped(Transferring, list, 0)
    BY <2>2, <2>3, <2>4, <2>5 DEF Popped
  <2> QED
    BY <2>1, <2>6
<1>5. ASSUME NEW k \in 0..15, k \in P PROVE k + 1 \in P
  <2> SUFFICES ASSUME NEW q \in f[k + 1], q.ok PROVE Popped(q, list, k + 1)
    OBVIOUS
  <2>1. PICK n \in f[k] : /\ n.ok /\ k \in list => q \in PopRegister(n, k)
                          /\ ~(n.ok /\ k \in list) => q = n
    BY <1>1, <1>2, CourseStep
  <2>2. n.ok => Popped(n, list, k)
    BY <1>5
  <2>3. CASE n.ok /\ k \in list
    BY <2>1, <2>2, <2>3, PopStep
  <2>4. CASE ~(n.ok /\ k \in list)
    <3>1. q = n /\ k \notin list /\ Popped(n, list, k)
      BY <2>1, <2>2, <2>4
    <3>2. Count(list, k + 1) = Count(list, k)
      <4>1. k \in Regs
        BY DEF Regs
      <4>2. Count(list, k) \in Int /\ Count(list, k + 1) = Count(list, k) + 0
        BY <1>3, <3>1, <4>1, CountsOf
      <4> QED
        BY <4>2
    <3>3. \A r \in Regs : r \in list /\ r < k + 1 <=> r \in list /\ r < k
      BY <3>1 DEF Regs
    <3> QED
      BY <3>1, <3>2, <3>3 DEF Popped
  <2> QED
    BY <2>3, <2>4
<1> HIDE DEF P
<1>6. 16 \in P
  <2> DEFINE n == 16
  <2>1. n \in Nat /\ n \in 0..n /\ \A k \in 0..(n - 1) : k \in P => k + 1 \in P
    BY <1>5
  <2> HIDE DEF n
  <2>2. 0..n \subseteq P
    BY <1>4, <2>1, UpTo
  <2> QED
    BY <2>1, <2>2 DEF n
<1> QED
  BY <1>1, <1>6 DEF P

----------------------------------------------------------------------------
(***************************************************************************)
(* POP.                                                                    *)
(***************************************************************************)

(* The registers after the processor has loaded a block.                   *)
LEMMA LoadedFacts ==
  ASSUME Before, NEW b, b.base \in Regs, b.list \subseteq Regs
  PROVE  /\ Size(b) = 4 * Cardinality(b.list) /\ Size(b) \in Int /\ Lowest(b) \in Int
         /\ \A r \in Regs : /\ Place(b, r) = Word(Lowest(b) + 4 * Count(b.list, r))
                            /\ Place(b, r) \in WordSet
         /\ Moved(b) \in [Regs -> WordSet]
         /\ \A r \in Regs \ {b.base} : Moved(b)[r] = real[r]
         /\ Moved(b)[b.base] = IF b.w THEN Word(real[b.base] + (IF b.u THEN Size(b) ELSE -Size(b)))
                               ELSE real[b.base]
         /\ Loaded(b) \in [Regs -> WordSet]
         /\ \A r \in Regs : Loaded(b)[r] = IF r \in b.list THEN At(mem, Place(b, r)) ELSE Moved(b)[r]
<1>1. /\ real \in [Regs -> WordSet] /\ Words(mem) /\ real[b.base] \in WordSet
      /\ real[b.base] \in Int
  BY BeforeFacts, WordFacts
<1>2. Cardinality(b.list) \in Int
  <2>1. Cardinality(b.list) \in 0..16
    BY Counting, Zenon
  <2> QED
    BY <2>1
<1>3. Size(b) = 4 * Cardinality(b.list) /\ Size(b) \in Int
  BY <1>2 DEF Size
<1>4. Lowest(b) \in Int
  BY <1>1, <1>3 DEF Lowest
<1>5. ASSUME NEW r \in Regs
      PROVE  Place(b, r) = Word(Lowest(b) + 4 * Count(b.list, r)) /\ Place(b, r) \in WordSet
  <2>1. Count(b.list, r) \in Int
    BY CountsOf
  <2>2. Lowest(b) + 4 * Count(b.list, r) \in Int
    BY <1>4, <2>1
  <2>3. Place(b, r) = Word(Lowest(b) + 4 * Count(b.list, r))
    BY DEF Place, Count
  <2> QED
    BY <2>2, <2>3, WordFacts
<1> DEFINE y == IF b.w THEN Word(real[b.base] + (IF b.u THEN Size(b) ELSE -Size(b)))
                ELSE real[b.base]
<1>6. y \in WordSet
  <2>1. real[b.base] + (IF b.u THEN Size(b) ELSE -Size(b)) \in Int
    BY <1>1, <1>3
  <2> QED
    BY <1>1, <2>1, WordFacts
<1>7. Moved(b) = [real EXCEPT ![b.base] = y]
  BY DEF Moved
<1> HIDE DEF y
<1>8. /\ Moved(b) \in [Regs -> WordSet] /\ Moved(b)[b.base] = y
      /\ \A r \in Regs \ {b.base} : Moved(b)[r] = real[r]
  BY <1>1, <1>6, <1>7
<1>9. \A a : Load(a) = At(mem, a)
  BY DEF Load, At
<1>10. \A r \in Regs : Loaded(b)[r] = IF r \in b.list THEN At(mem, Place(b, r)) ELSE Moved(b)[r]
  BY <1>1, <1>9 DEF Loaded
<1>11. \A r \in Regs : (IF r \in b.list THEN At(mem, Place(b, r)) ELSE Moved(b)[r]) \in WordSet
  BY <1>1, <1>8, MemoryIsWords
<1>12. Loaded(b) \in [Regs -> WordSet]
  BY <1>1, <1>9, <1>11 DEF Loaded
<1> QED
  BY <1>3, <1>4, <1>5, <1>8, <1>10, <1>12 DEF y

(* A register that is loaded may be register 15: it does not count before  *)
(* the others.                                                             *)
LEMMA CountWithPc ==
  ASSUME NEW list, list \subseteq 0..14, NEW r \in Regs
  PROVE  /\ Count(list \cup {15}, r) = Count(list, r)
         /\ Count(list, 15) = Cardinality(list)
         /\ Cardinality(list \cup {15}) = Cardinality(list) + 1
<1>1. list \subseteq Regs /\ 15 \in Regs /\ list \cup {15} \subseteq Regs /\ 15 \notin list
  BY DEF Regs
<1>2. {q \in list \cup {15} : q < r} = {q \in list : q < r}
  <2>1. ~(15 < r)
    BY DEF Regs
  <2> QED
    BY <2>1
<1>3. {q \in list : q < 15} = list
  <2>1. \A q \in list : q < 15
    OBVIOUS
  <2> QED
    BY <2>1
<1>4. IsFiniteSet(list) /\ Cardinality(list \cup {15}) = Cardinality(list) + 1
  <2>1. IsFiniteSet(0..14)
    <3>1. 0 \in Int /\ 14 \in Int
      OBVIOUS
    <3> QED
      BY ONLY <3>1, FS_Interval, Zenon
  <2>2. IsFiniteSet(list)
    BY <2>1, FS_Subset
  <2> QED
    BY <1>1, <2>2, FS_AddElement
<1> QED
  BY <1>2, <1>3, <1>4 DEF Count

(* The fields of the block that a pop is.                                  *)
LEMMA PopBlock ==
  ASSUME NEW i \in ThumbInstruction, i.op = "POP", NEW b, b = Block(i)
  PROVE  /\ b.load = TRUE /\ b.base = 13 /\ b.p = FALSE /\ b.u = TRUE /\ b.w = TRUE
         /\ b.list = i.list \cup (IF i.pc THEN {15} ELSE {})
BY DEF Block

(* POP is followed, with a return when it loads register 15.               *)
LEMMA ThumbPopSound ==
  ASSUME Before, mode = "thumb", Led, NEW i \in ThumbInstruction, i.op = "POP",
         ThumbPop(i), Does(Transfer(Block(i)).real, Transfer(Block(i)).mem)
  PROVE  Sound
<1> DEFINE list == i.list
           b == Block(i)
           n == Cardinality(list)
<1>1. list \subseteq 0..7 /\ i.pc \in BOOLEAN
  BY ThumbFields
<1>2. /\ b.load = TRUE /\ b.base = 13 /\ b.p = FALSE /\ b.u = TRUE /\ b.w = TRUE
      /\ b.list = list \cup (IF i.pc THEN {15} ELSE {})
  BY PopBlock, Zenon
<1> HIDE DEF b
<1>3. list \subseteq Regs /\ list \subseteq 0..14 /\ 13 \in Regs /\ 15 \in Regs
      /\ b.list \subseteq Regs /\ b.base \in Regs /\ 13 \notin b.list /\ 13 \notin list /\ 15 \notin list
  BY <1>1, <1>2 DEF Regs
<1>4. n \in Int /\ real[13] \in Int /\ real[13] \in WordSet
  <2>1. n \in Int
    BY <1>3, CountsOf
  <2> QED
    BY <1>3, <2>1, BeforeFacts, WordFacts
<1>5. PICK m \in Transfers(Transferring, PopRegister, list, TRUE) :
        LET x == UnwMemReadRegister(m.hash, m.regs[13].v)
            returned == [m.regs EXCEPT ![13].v = Word(@ + 4), ![15] = [v |-> Word(x.v - 2), o |-> x.o]]
        IN  \/ ~i.pc /\ m.ok /\ Continue(m.regs, memData)
            \/ /\ ~m.ok \/ (i.pc /\ (~x.ok \/ ~Valid(x.o) \/ x.v % 2 = 0))
               /\ Stop(IF ~m.ok \/ ~x.ok THEN "DREAD_W_FAIL"
                       ELSE IF ~Valid(x.o) THEN "FAILURE" ELSE "INCONSISTENT")
               /\ UNCHANGED frames
            \/ /\ i.pc /\ m.ok /\ x.ok /\ Valid(x.o) /\ x.v % 2 = 1
               /\ Report(x.v)
               /\ IF CliReport THEN EndOfLoop(returned, memData) ELSE Stop("TRUNCATED")
  BY DEF ThumbPop
<1> DEFINE x == UnwMemReadRegister(m.hash, m.regs[13].v)
           ms == m.regs
           returned == [ms EXCEPT ![13].v = Word(@ + 4), ![15] = [v |-> Word(x.v - 2), o |-> x.o]]
<1>6. CASE ~m.ok \/ (i.pc /\ (~x.ok \/ ~Valid(x.o) \/ x.v % 2 = 0))
  <2>1. \E r : r # "RUNNING" /\ Stop(r) /\ UNCHANGED frames
    BY <1>5, <1>6
  <2> QED
    BY <2>1, StopSound
<1>7. ASSUME m.ok
      PROVE  /\ m.hash = memData /\ IsRegisters(ms)
             /\ ms[13] = [v |-> Word(real[13] + 4 * n), o |-> regData[13].o]
             /\ ms[15] = regData[15]
             /\ \A r \in Regs \ {13} :
                  Valid(ms[r].o) => ms[r].v = IF r \in list
                                              THEN At(mem, Word(real[13] + 4 * Count(list, r))) ELSE real[r]
  <2>1. Popped(m, list, 16)
    BY <1>1, <1>7, PopFollows
  <2>2. m.hash = memData
    BY <2>1 DEF Popped
  <2>3. Count(list, 16) = n
    BY <1>3, Counting, Zenon
  <2>4. /\ ms[13] = [v |-> Word(real[13] + 4 * n), o |-> regData[13].o] /\ IsRegisters(ms)
        /\ \A r \in Regs \ {13} :
             IF r \in list /\ r < 16
             THEN Valid(ms[r].o) => ms[r].v = At(mem, Word(real[13] + 4 * Count(list, r)))
             ELSE ms[r] = regData[r]
    BY <2>1, <2>3 DEF Popped
  <2>5. \A r \in Regs : r < 16
    BY DEF Regs
  <2>6. ms[15] = regData[15]
    BY <1>3, <2>4
  <2> QED
    BY <2>2, <2>4, <2>5, <2>6, BeforeFacts DEF Tracked
<1>8. /\ Lowest(b) = real[13] /\ Loaded(b) \in [Regs -> WordSet]
      /\ \A r \in Regs : r \in b.list =>
           Loaded(b)[r] = At(mem, Word(real[13] + 4 * Count(b.list, r)))
      /\ \A r \in Regs \ {13} : r \notin b.list => Loaded(b)[r] = real[r]
      /\ Loaded(b)[13] = Word(real[13] + 4 * Cardinality(b.list))
  <2>1. Lowest(b) = real[13]
    BY <1>2, <1>4 DEF Lowest
  <2>2. /\ Size(b) = 4 * Cardinality(b.list) /\ Loaded(b) \in [Regs -> WordSet]
        /\ \A r \in Regs : Place(b, r) = Word(Lowest(b) + 4 * Count(b.list, r))
        /\ \A r \in Regs \ {13} : Moved(b)[r] = real[r]
        /\ Moved(b)[13] = IF b.w THEN Word(real[13] + (IF b.u THEN Size(b) ELSE -Size(b))) ELSE real[13]
        /\ \A r \in Regs : Loaded(b)[r] = IF r \in b.list THEN At(mem, Place(b, r)) ELSE Moved(b)[r]
    <3>1. b.base = 13
      BY <1>2
    <3>2. b.base \in Regs /\ b.list \subseteq Regs
      BY <1>3
    <3> DEFINE Facts(base) ==
          /\ Size(b) = 4 * Cardinality(b.list) /\ Loaded(b) \in [Regs -> WordSet]
          /\ \A r \in Regs : Place(b, r) = Word(Lowest(b) + 4 * Count(b.list, r))
          /\ \A r \in Regs \ {base} : Moved(b)[r] = real[r]
          /\ Moved(b)[base] = IF b.w THEN Word(real[base] + (IF b.u THEN Size(b) ELSE -Size(b)))
                              ELSE real[base]
          /\ \A r \in Regs : Loaded(b)[r] = IF r \in b.list THEN At(mem, Place(b, r)) ELSE Moved(b)[r]
    <3>3. Facts(b.base)
      BY <3>2, LoadedFacts
    <3>4. Facts(13)
      <4> HIDE DEF Facts
      <4> QED
        BY <3>1, <3>3
    <3> QED
      BY <3>4
  <2>3. Moved(b)[13] = Word(real[13] + 4 * Cardinality(b.list))
    BY <1>2, <2>2
  <2> QED
    BY <1>3, <2>1, <2>2, <2>3
<1>9. CASE ~i.pc /\ m.ok
  <2> DEFINE rl == Onwards(Loaded(b))
  <2>1. b.list = list /\ 15 \notin b.list
    BY <1>2, <1>3, <1>9
  <2>2. Transfer(b).real = rl /\ Transfer(b).mem = mem
    BY <1>2, <2>1 DEF Transfer
  <2>3. Loaded(b)[15] = real[15]
    BY <1>3, <1>8, <2>1
  <2>4. /\ rl \in [Regs -> WordSet] /\ rl[15] = Word(real[15] + Width)
        /\ \A r \in Regs \ {15} : rl[r] = Loaded(b)[r]
    BY <1>8, <2>3, OnwardsFacts
  <2> HIDE DEF rl, ms
  <2>5. \A r \in Regs \ {15} : Valid(ms[r].o) => ms[r].v = rl[r]
    <3> SUFFICES ASSUME NEW r \in Regs \ {15}, Valid(ms[r].o) PROVE ms[r].v = rl[r]
      OBVIOUS
    <3>1. CASE r = 13
      BY <1>7, <1>8, <1>9, <2>1, <2>4, <3>1
    <3>2. CASE r # 13
      BY <1>7, <1>8, <1>9, <2>1, <2>4, <3>2
    <3> QED
      BY <3>1, <3>2
  <2>6. Ready(ms, memData, rl, mem)
    BY <1>7, <1>9, <2>4, <2>5, BeforeFacts DEF Ready
  <2>7. Word(ms[15].v + Wide) = rl[15] /\ mode = ModeOf(rl[15])
    BY <1>7, <1>9, <2>4, PcOnwards
  <2>8. Continue(ms, memData)
    BY <1>5, <1>9 DEF ms
  <2>9. Does(rl, mem)
    BY <2>2 DEF b
  <2> QED
    BY <2>6, <2>7, <2>8, <2>9, ContinueSound
<1>10. CASE i.pc /\ m.ok /\ x.ok /\ Valid(x.o) /\ x.v % 2 # 0
  <2> DEFINE rl == Loaded(b)
             to == x.v
             top == Word(real[13] + 4 * n)
  <2>1. b.list = list \cup {15} /\ 15 \in b.list
    BY <1>2, <1>10
  <2>2. Transfer(b).real = rl /\ Transfer(b).mem = mem
    BY <1>2, <2>1 DEF Transfer
  <2>3. /\ \A r \in Regs : Count(b.list, r) = Count(list, r)
        /\ Count(list, 15) = n /\ Cardinality(b.list) = n + 1
    BY <1>3, <2>1, CountWithPc
  <2>4. rl[15] = At(mem, top)
    <3>1. rl[15] = At(mem, Word(real[13] + 4 * Count(b.list, 15)))
      BY <1>3, <1>8, <2>1
    <3>2. Count(b.list, 15) = n
      BY <1>3, <2>3
    <3> QED
      BY <3>1, <3>2
  <2>5. rl[13] = Word(top + 4)
    <3> DEFINE c == real[13] + 4 * n
    <3>1. c \in Int /\ real[13] + 4 * (n + 1) = c + 4
      BY <1>4
    <3>2. rl[13] = Word(real[13] + 4 * (n + 1))
      BY <1>8, <2>3
    <3> HIDE DEF c
    <3>3. Word(Word(c) + 4) = Word(c + 4)
      BY <3>1, WordAdds
    <3> QED
      BY <3>1, <3>2, <3>3 DEF c
  <2>6. to = rl[15]
    <3>1. real[13] + 4 * n \in Int
      BY <1>4
    <3>2. top \in WordSet
      BY <3>1, WordFacts
    <3>3. x = UnwMemReadRegister(memData, top)
      BY <1>7, <1>10
    <3> HIDE DEF top, rl
    <3>4. Agrees(image.data, memData, mem)
      BY BeforeFacts
    <3> HIDE DEF x
    <3> QED
      BY <1>10, <2>4, <3>2, <3>3, <3>4, ReadAgrees
  <2>7. Report(to) /\ IF CliReport THEN EndOfLoop(returned, memData) ELSE Stop("TRUNCATED")
    BY <1>5, <1>10
  <2>8. Does(rl, mem)
    BY <2>2 DEF b
  <2>9. real' = rl
    BY <2>8 DEF Does
  <2> DEFINE y == [v |-> Word(to - 2), o |-> x.o]
  <2>10. /\ DOMAIN returned = Regs /\ returned[15] = y
         /\ returned[13] = [v |-> Word(top + 4), o |-> regData[13].o]
         /\ \A r \in Regs \ {13, 15} : returned[r] = ms[r]
    <3>1. DOMAIN ms = Regs /\ ms[13] = [v |-> top, o |-> regData[13].o]
      BY <1>7, <1>10 DEF IsRegisters
    <3>2. returned = [ms EXCEPT ![13] = [ms[13] EXCEPT !.v = Word(ms[13].v + 4)], ![15] = y]
      OBVIOUS
    <3>3. [ms[13] EXCEPT !.v = Word(ms[13].v + 4)] = [v |-> Word(top + 4), o |-> regData[13].o]
      BY <3>1
    <3> HIDE DEF ms, y, top, returned
    <3> QED
      BY <1>3, <3>1, <3>2, <3>3
  <2>11. to % 2 = 1 /\ mode = ModeOf(to)
    <3>1. to \in Nat
      BY <1>3, <1>8, <2>6, WordFacts
    <3>2. to % 2 = 1
      BY <1>10, <3>1
    <3> QED
      BY <3>2 DEF ModeOf
  <2>12. \A r \in Regs : returned[r] = [v |-> returned[r].v, o |-> returned[r].o]
    <3>1. \A r \in Regs : ms[r] = [v |-> ms[r].v, o |-> ms[r].o]
      BY <1>7, <1>10 DEF IsRegisters
    <3> HIDE DEF ms, returned
    <3> QED
      BY <2>10, <3>1
  <2>13. returned = [r \in Regs |-> returned[r]]
    <3>1. ms = [r \in Regs |-> ms[r]]
      BY <1>7, <1>10 DEF IsRegisters
    <3> HIDE DEF ms
    <3> QED
      BY <3>1
  <2> HIDE DEF returned, rl, ms
  <2>14. \A r \in Regs \ {15} : Valid(returned[r].o) => returned[r].v = rl[r]
    <3> SUFFICES ASSUME NEW r \in Regs \ {15}, Valid(returned[r].o) PROVE returned[r].v = rl[r]
      OBVIOUS
    <3>1. CASE r = 13
      BY <2>5, <2>10, <3>1
    <3>2. CASE r # 13
      <4>1. r \in b.list <=> r \in list
        BY <2>1
      <4>2. returned[r] = ms[r] /\ Count(b.list, r) = Count(list, r)
        BY <2>3, <2>10, <3>2
      <4> QED
        BY <1>7, <1>8, <1>10, <3>2, <4>1, <4>2 DEF rl
    <3> QED
      BY <3>1, <3>2
  <2>15. IsRegisters(returned)
    BY <2>12, <2>13 DEF IsRegisters
  <2>16. Ready(returned, memData, rl, mem)
    <3>1. rl \in [Regs -> WordSet]
      BY <1>8 DEF rl
    <3> QED
      BY <2>14, <2>15, <3>1, BeforeFacts DEF Ready
  <2>17. returned = [returned EXCEPT ![15].v = Word(to - Wide)]
    <3>1. Wide = 2
      BY DEF Wide
    <3>2. [y EXCEPT !.v = Word(to - 2)] = y
      OBVIOUS
    <3> HIDE DEF y
    <3>3. returned = [returned EXCEPT ![15] = y]
      BY <1>3, <2>10, <2>13
    <3>4. [returned EXCEPT ![15].v = Word(to - 2)]
            = [returned EXCEPT ![15] = [returned[15] EXCEPT !.v = Word(to - 2)]]
      OBVIOUS
    <3> QED
      BY <2>10, <3>1, <3>2, <3>3, <3>4
  <2> HIDE DEF to, y, x
  <2>18. CliReport => (result' = "RUNNING" => Follower')
    <3> SUFFICES ASSUME CliReport PROVE result' = "RUNNING" => Follower'
      OBVIOUS
    <3>1. EndOfLoop([returned EXCEPT ![15].v = Word(to - Wide)], memData)
      BY <2>7, <2>17
    <3> QED
      BY <2>6, <2>8, <2>11, <2>16, <3>1, JumpFollows
  <2>19. ~CliReport => result' # "RUNNING"
    BY <2>7 DEF Stop
  <2> QED
    BY <2>6, <2>7, <2>9, <2>18, <2>19, ReportSound
<1>11. CASE i.pc /\ m.ok /\ x.ok /\ Valid(x.o) /\ x.v % 2 = 0
  BY <1>6, <1>11
<1> QED
  BY <1>1, <1>6, <1>9, <1>10, <1>11

----------------------------------------------------------------------------
(***************************************************************************)
(* PUSH.                                                                   *)
(***************************************************************************)

(* The words of a block are in different places.                           *)
LEMMA PlacesApart ==
  ASSUME Before, NEW b, b.base \in Regs, b.list \subseteq Regs,
         NEW q \in b.list, NEW r \in b.list, Place(b, q) = Place(b, r)
  PROVE  q = r
<1> DEFINE x == Lowest(b)
           c == Count(b.list, q)
           d == Count(b.list, r)
<1>1. q \in Regs /\ r \in Regs
  OBVIOUS
<1>2. /\ c \in 0..16 /\ d \in 0..16 /\ x \in Int /\ Word(x + 4 * c) = Word(x + 4 * d)
  <2>1. c \in 0..16 /\ d \in 0..16
    BY <1>1, CountsOf
  <2>2. x \in Int /\ Place(b, q) = Word(x + 4 * c) /\ Place(b, r) = Word(x + 4 * d)
    BY <1>1, LoadedFacts
  <2> QED
    BY <2>1, <2>2
<1>3. (q < r => c + 1 <= d) /\ (r < q => d + 1 <= c)
  <2>1. q \in Int /\ r \in Int
    BY <1>1 DEF Regs
  <2> QED
    BY <2>1, Counting
<1> HIDE DEF c, d, x
<1>4. x + 4 * c = x + 4 * d
  <2> DEFINE y == x + 4 * c
             z == x + 4 * d
  <2>1. y \in Int /\ z \in Int /\ y - z < 256 /\ z - y < 256
    BY <1>2
  <2>2. Word(y) = Word(z)
    BY <1>2
  <2> HIDE DEF y, z
  <2>3. Modulus \in Nat /\ Modulus > 255
    BY ModulusFacts
  <2>4. y - z < Modulus /\ z - y < Modulus
    BY <2>1, <2>3
  <2>5. y = z
    BY <2>1, <2>2, <2>4, WordsApart
  <2> QED
    BY <2>5 DEF y, z
<1>5. c = d /\ c \in Int
  BY <1>2, <1>4
<1>6. ~(q < r) /\ ~(r < q)
  BY <1>3, <1>5
<1> QED
  BY <1>1, <1>6 DEF Regs

(* The memory when the registers of a block from k on have been stored.    *)
StoredFrom(b, k) ==
  LET places == {Place(b, r) : r \in {q \in b.list : q >= k}}
  IN  [a \in DOMAIN mem \cup places |->
         IF a \in places THEN real[CHOOSE r \in b.list : Place(b, r) = a] ELSE mem[a]]

(* Storing the registers from the highest down to register 0 stores all.   *)
LEMMA StoringRegisters ==
  ASSUME Before, NEW b, b.base \in Regs, b.list \subseteq Regs
  PROVE  /\ StoredFrom(b, 0) = Stored(b)
         /\ \A a : At(StoredFrom(b, 16), a) = At(mem, a)
         /\ \A k \in Regs \ b.list : StoredFrom(b, k) = StoredFrom(b, k + 1)
         /\ \A a : \A k \in b.list :
              At(StoredFrom(b, k), a) = IF a = Place(b, k) THEN real[k] ELSE At(StoredFrom(b, k + 1), a)
<1> DEFINE from(k) == {q \in b.list : q >= k}
<1>0. \A r \in b.list : r \in Int /\ r >= 0 /\ r < 16
  BY DEF Regs
<1>1. from(0) = b.list /\ from(16) = {}
  BY <1>0
<1>2. ASSUME NEW k \in Regs \ b.list PROVE from(k) = from(k + 1)
  <2>1. \A r \in b.list : r >= k <=> r >= k + 1
    BY <1>0, <1>2 DEF Regs
  <2> QED
    BY <2>1
<1>3. ASSUME NEW k \in b.list PROVE from(k) = from(k + 1) \cup {k}
  <2>1. \A r \in b.list : r >= k <=> r >= k + 1 \/ r = k
    BY <1>0
  <2>2. k >= k
    BY <1>0
  <2> QED
    BY <2>1, <2>2
<1>4. StoredFrom(b, 0) = Stored(b)
  BY <1>1 DEF StoredFrom, Stored
<1>5. ASSUME NEW a PROVE At(StoredFrom(b, 16), a) = At(mem, a)
  <2>1. {Place(b, r) : r \in from(16)} = {}
    BY <1>1
  <2> QED
    BY <2>1 DEF StoredFrom, At
<1>6. ASSUME NEW k \in Regs \ b.list PROVE StoredFrom(b, k) = StoredFrom(b, k + 1)
  BY <1>2 DEF StoredFrom
<1>7. ASSUME NEW k \in b.list, NEW a
      PROVE  At(StoredFrom(b, k), a) = IF a = Place(b, k) THEN real[k] ELSE At(StoredFrom(b, k + 1), a)
  <2> DEFINE P == {Place(b, r) : r \in from(k)}
             Q == {Place(b, r) : r \in from(k + 1)}
             word(x) == real[CHOOSE r \in b.list : Place(b, r) = x]
  <2>1. P = Q \cup {Place(b, k)}
    <3> HIDE DEF from
    <3> QED
      BY <1>3
  <2>2. /\ StoredFrom(b, k) = [x \in DOMAIN mem \cup P |-> IF x \in P THEN word(x) ELSE mem[x]]
        /\ StoredFrom(b, k + 1) = [x \in DOMAIN mem \cup Q |-> IF x \in Q THEN word(x) ELSE mem[x]]
    BY DEF StoredFrom
  <2>3. word(Place(b, k)) = real[k]
    <3>1. \A r \in b.list : Place(b, r) = Place(b, k) => r = k
      BY PlacesApart
    <3> DEFINE c == CHOOSE r \in b.list : Place(b, r) = Place(b, k)
    <3>2. c \in b.list /\ Place(b, c) = Place(b, k)
      OBVIOUS
    <3> HIDE DEF c
    <3>3. c = k
      BY <3>1, <3>2
    <3> QED
      BY <3>3 DEF c
  <2> HIDE DEF P, Q, word
  <2>4. CASE a = Place(b, k)
    BY <2>1, <2>2, <2>3, <2>4 DEF At
  <2>5. CASE a # Place(b, k)
    BY <2>1, <2>2, <2>5 DEF At
  <2> QED
    BY <2>4, <2>5
<1> QED
  BY <1>4, <1>5, <1>6, <1>7

(* The memory after a store has words, and has what it had before.         *)
LEMMA StoredWords ==
  ASSUME Before, NEW b, b.base \in Regs, b.list \subseteq Regs
  PROVE  DOMAIN image.data \subseteq DOMAIN Stored(b) /\ Words(Stored(b))
<1> DEFINE places == {Place(b, r) : r \in b.list}
<1>1. Stored(b) = [a \in DOMAIN mem \cup places |->
                     IF a \in places THEN real[CHOOSE r \in b.list : Place(b, r) = a] ELSE mem[a]]
  BY DEF Stored
<1>2. DOMAIN image.data \subseteq DOMAIN mem /\ Words(mem) /\ real \in [Regs -> WordSet]
  BY BeforeFacts
<1>3. ASSUME NEW a \in places PROVE real[CHOOSE r \in b.list : Place(b, r) = a] \in WordSet
  <2> DEFINE c == CHOOSE r \in b.list : Place(b, r) = a
  <2>1. \E r \in b.list : Place(b, r) = a
    BY <1>3
  <2>2. c \in b.list
    BY <2>1
  <2> HIDE DEF c
  <2>3. real[c] \in WordSet
    BY <1>2, <2>2
  <2> QED
    BY <2>3 DEF c
<1>4. \A a \in DOMAIN mem : mem[a] \in WordSet
  BY <1>2 DEF Words
<1> HIDE DEF places
<1> QED
  BY <1>1, <1>2, <1>3, <1>4 DEF Words

(* Once the cell after the arrays is used, writes leave it used.           *)
LEMMA OverrunStays ==
  ASSUME NEW h, NEW a, NEW val, NEW valid, NEW g \in UnwMemHashWrite(h, a, val, valid), Overrun \notin g.used
  PROVE  memHashIndex(h, a) # Overrun /\ Overrun \notin h.used
<1> DEFINE i == memHashIndex(h, a)
<1>1. \E bits \in IF i = Overrun THEN SUBSET (0..(HashSize - 1)) ELSE {h.used} : g.used = bits \cup {i}
  BY DEF UnwMemHashWrite
<1> QED
  BY <1>1

(* The registers and the hash of a push of list, when those from k on have *)
(* been pushed.                                                            *)
Pushed(m, b, k) ==
  /\ m = [regs |-> m.regs, hash |-> m.hash, ok |-> TRUE]
  /\ IsRegisters(m.regs) /\ "used" \in DOMAIN m.hash
  /\ m.regs[13] = [v |-> Word(Lowest(b) + 4 * Count(b.list, k)), o |-> regData[13].o]
  /\ \A r \in Regs \ {13} : m.regs[r] = regData[r]
  /\ Overrun \notin m.hash.used =>
       IsHash(m.hash) /\ ~Lost(m.hash) /\ Agrees(image.data, m.hash, StoredFrom(b, k))

(* One register more is pushed.                                            *)
LEMMA PushStep ==
  ASSUME Before, NEW b, b.base \in Regs, b.list \subseteq Regs \ {13}, NEW k \in b.list,
         NEW m, Pushed(m, b, k + 1), NEW q \in PushRegister(m, k), q.ok
  PROVE  Pushed(q, b, k)
<1> DEFINE ms == m.regs
           h == m.hash
           y == [ms[13] EXCEPT !.v = Word(@ - 4)]
           ds == [ms EXCEPT ![13] = y]
           down == [m EXCEPT !.regs[13].v = Word(@ - 4)]
           a == Place(b, k)
           reg == regData[k]
<1>0. b.list \subseteq Regs /\ 13 \in Regs /\ k \in Regs \ {13} /\ k \in Regs /\ k # 13
  BY DEF Regs
<1>1. m = [regs |-> ms, hash |-> h, ok |-> TRUE] /\ IsRegisters(ms)
      /\ ms[13] = [v |-> Word(Lowest(b) + 4 * Count(b.list, k + 1)), o |-> regData[13].o]
      /\ \A r \in Regs \ {13} : ms[r] = regData[r]
  BY DEF Pushed
<1>2. a = Word(Lowest(b) + 4 * Count(b.list, k)) /\ a \in WordSet
      /\ Lowest(b) \in Int /\ Count(b.list, k) \in Int /\ Count(b.list, k + 1) = Count(b.list, k) + 1
  BY <1>0, LoadedFacts, CountsOf
<1>3. y = [v |-> a, o |-> regData[13].o]
  <2> DEFINE x == Lowest(b) + 4 * Count(b.list, k + 1)
  <2>1. x \in Int /\ x - 4 = Lowest(b) + 4 * Count(b.list, k)
    BY <1>2
  <2> HIDE DEF x
  <2>2. Word(Word(x) - 4) = Word(x - 4)
    BY <2>1, WordAdds
  <2>3. ms[13] = [v |-> Word(x), o |-> regData[13].o]
    BY <1>1 DEF x
  <2> QED
    BY <1>2, <2>1, <2>2, <2>3
<1>4. down = [regs |-> ds, hash |-> h, ok |-> TRUE]
  <2>1. down = [m EXCEPT !.regs[13] = y] /\ ds = [ms EXCEPT ![13] = y]
    OBVIOUS
  <2>2. m = [regs |-> ms, hash |-> h, ok |-> TRUE]
    BY <1>1
  <2> HIDE DEF y, ms, h, down, ds
  <2>3. down = [regs |-> [ms EXCEPT ![13] = y], hash |-> h, ok |-> TRUE]
    BY <2>1, <2>2, RecordWrites
  <2> QED
    BY <2>1, <2>3
<1> HIDE DEF y
<1>5. /\ ds[13] = [v |-> a, o |-> regData[13].o] /\ DOMAIN ds = Regs
      /\ \A r \in Regs \ {13} : ds[r] = regData[r]
  <2>1. DOMAIN ms = Regs
    BY <1>1 DEF IsRegisters
  <2> HIDE DEF ms
  <2> QED
    BY <1>0, <1>1, <1>3, <2>1
<1>6. ds = [r \in Regs |-> ds[r]]
  <2>1. ms = [r \in Regs |-> ms[r]]
    BY <1>1 DEF IsRegisters
  <2> HIDE DEF ms
  <2> QED
    BY <2>1
<1> HIDE DEF ds, down
<1>7. IsRegisters(ds)
  <2>1. \A r \in Regs : ds[r] = [v |-> ds[r].v, o |-> ds[r].o]
    BY <1>5, BeforeFacts
  <2> QED
    BY <1>6, <2>1 DEF IsRegisters
<1>8. q \in StoreRegister(down, k, down.regs[13].v)
  BY DEF PushRegister, down
<1>9. down.hash = h /\ down.regs = ds /\ down.regs[13].v = a /\ down.regs[k] = reg
  BY <1>0, <1>4, <1>5
<1> HIDE DEF a, h
<1>10. q \in IF Full(h, a) THEN {[down EXCEPT !.ok = FALSE]}
             ELSE {[down EXCEPT !.hash = g] : g \in UnwMemHashWrite(h, a, reg.v, Valid(reg.o))}
  BY <1>8, <1>9 DEF StoreRegister, UnwMemWriteRegister
<1>11. ~Full(h, a)
  <2>1. [down EXCEPT !.ok = FALSE].ok = FALSE
    BY <1>4
  <2> QED
    BY <1>10, <2>1
<1>12. PICK g \in UnwMemHashWrite(h, a, reg.v, Valid(reg.o)) : q = [down EXCEPT !.hash = g]
  BY <1>10, <1>11
<1>13. q = [regs |-> ds, hash |-> g, ok |-> TRUE]
  BY <1>4, <1>12
<1>14. ASSUME Overrun \notin g.used
       PROVE  IsHash(g) /\ ~Lost(g) /\ Agrees(image.data, g, StoredFrom(b, k))
  <2>1. memHashIndex(h, a) \notin {-1, Overrun} /\ Overrun \notin h.used
    BY <1>11, <1>14, OverrunStays DEF Full
  <2>2. IsHash(h) /\ ~Lost(h) /\ Agrees(image.data, h, StoredFrom(b, k + 1))
    BY <2>1 DEF Pushed, h
  <2>3. \A x \in Nat : At(StoredFrom(b, k), x)
                             = IF x = a THEN real[k] ELSE At(StoredFrom(b, k + 1), x)
    BY <1>0, StoringRegisters DEF a
  <2>4. real[k] \in Nat
    BY <1>0, BeforeFacts, WordFacts
  <2> DEFINE mm == StoredFrom(b, k)
             n == StoredFrom(b, k + 1)
             w == real[k]
             data == image.data
  <2>5. a \in WordSet
    BY <1>2
  <2>6. \A x \in Nat : At(mm, x) = IF x = a THEN w ELSE At(n, x)
    BY <2>3
  <2>7. Agrees(data, h, n) /\ w \in Nat
    BY <2>2, <2>4
  <2>8. CASE Valid(reg.o)
    <3>1. reg.v = w
      BY <1>0, <2>8, BeforeFacts DEF Tracked
    <3>2. Valid(reg.o) = TRUE
      BY <2>8
    <3>3. g \in UnwMemHashWrite(h, a, w, TRUE)
      BY <3>1, <3>2
    <3> HIDE DEF mm, n, w, data, reg
    <3>4. Writing(data, n, mm, h, a, w, TRUE, w, g)
      BY <2>1, <2>2, <2>5, <2>6, <2>7, <3>3 DEF Writing
    <3>5. IsHash(g) /\ ~Lost(g) /\ Agrees(data, g, mm)
      BY <3>4, WriteAgrees
    <3> QED
      BY <3>5 DEF mm, data
  <2>9. CASE ~Valid(reg.o)
    <3>1. Valid(reg.o) = FALSE
      BY <2>9
    <3>2. g \in UnwMemHashWrite(h, a, 0, FALSE)
      BY <3>1, UntrackedWrite
    <3> HIDE DEF mm, n, w, data, reg
    <3>3. 0 \in Nat /\ FALSE \in BOOLEAN
      OBVIOUS
    <3>4. Writing(data, n, mm, h, a, 0, FALSE, w, g)
      BY <2>1, <2>2, <2>5, <2>6, <2>7, <3>2, <3>3 DEF Writing
    <3>5. IsHash(g) /\ ~Lost(g) /\ Agrees(data, g, mm)
      BY <3>4, WriteAgrees
    <3> QED
      BY <3>5 DEF mm, data
  <2> QED
    BY <2>8, <2>9
<1>15. q.regs = ds /\ q.hash = g /\ "used" \in DOMAIN g
  <2>1. q.regs = ds /\ q.hash = g
    BY <1>13
  <2>2. "used" \in DOMAIN g
    BY DEF UnwMemHashWrite
  <2> QED
    BY <2>1, <2>2
<1>16. ds[13] = [v |-> Word(Lowest(b) + 4 * Count(b.list, k)), o |-> regData[13].o]
  BY <1>2, <1>5
<1> QED
  BY <1>5, <1>7, <1>13, <1>14, <1>15, <1>16 DEF Pushed

(* What is left when all registers of the list have been pushed.           *)
LEMMA PushFollows ==
  ASSUME Before, NEW b, b.base = 13, ~b.u, b.p, b.list \subseteq Regs \ {13},
         NEW m \in Transfers(Transferring, PushRegister, b.list, FALSE), m.ok
  PROVE  Pushed(m, b, 0)
<1> DEFINE list == b.list
           w == TransferOf("push", list, FALSE)
<1>1. PICK f : Course(w, Transferring, f, 16) /\ m \in f[16]
  BY PushCourse
<1>2. w.list = list /\ (\A k : Turn(w, k) = 15 - k) /\ \A q, r : Register(w, q, r) = PushRegister(q, r)
  BY DEF TransferOf, Turn, Register
<1> HIDE DEF w
<1>3. list \subseteq Regs /\ b.base \in Regs /\ 13 \in Regs
  BY DEF Regs
<1> DEFINE P == {k \in 0..16 : \A q \in f[k] : q.ok => Pushed(q, b, 16 - k)}
<1>4. 0 \in P
  <2>1. f[0] = {Transferring}
    BY <1>1 DEF Course
  <2>2. Transferring = [regs |-> regData, hash |-> memData, ok |-> TRUE]
        /\ Transferring.regs = regData /\ Transferring.hash = memData
    BY DEF Transferring
  <2>3. IsRegisters(regData) /\ real[13] \in Int /\ Word(real[13]) = real[13]
        /\ regData[13] = [v |-> real[13], o |-> regData[13].o]
    BY BeforeFacts, WordFacts DEF Before, Follower, Follows, Sp, Regs
  <2>4. Lowest(b) + 4 * Count(list, 16) = real[13]
    <3>1. Count(list, 16) = Cardinality(list) /\ Cardinality(list) \in Int
      <4>1. Count(list, 16) = Cardinality(list)
        BY <1>3, Counting, Zenon
      <4> QED
        BY <1>3, <4>1, CountsOf
    <3>2. Lowest(b) = real[13] - 4 * Cardinality(list)
      BY <2>3, <3>1 DEF Lowest, Size
    <3> QED
      BY <2>3, <3>1, <3>2
  <2>5. IsHash(memData) /\ ~Lost(memData) /\ Agrees(image.data, memData, mem) /\ "used" \in DOMAIN memData
    BY BeforeFacts DEF IsHash
  <2>6. Agrees(image.data, memData, StoredFrom(b, 16))
    <3>1. \A a : At(StoredFrom(b, 16), a) = At(mem, a)
      BY <1>3, StoringRegisters
    <3> QED
      BY <2>5, <3>1 DEF Agrees
  <2>7. Pushed(Transferring, b, 16)
    BY <2>2, <2>3, <2>4, <2>5, <2>6 DEF Pushed
  <2>8. 16 - 0 = 16
    OBVIOUS
  <2> QED
    BY <2>1, <2>7, <2>8
<1>5. ASSUME NEW k \in 0..15, k \in P PROVE k + 1 \in P
  <2> SUFFICES ASSUME NEW q \in f[k + 1], q.ok PROVE Pushed(q, b, 16 - (k + 1))
    OBVIOUS
  <2> DEFINE r == 15 - k
  <2>0. r \in Regs /\ 16 - (k + 1) = r /\ 16 - k = r + 1
    BY DEF Regs
  <2>1. PICK n \in f[k] : /\ n.ok /\ r \in list => q \in PushRegister(n, r)
                          /\ ~(n.ok /\ r \in list) => q = n
    BY <1>1, <1>2, CourseStep
  <2>2. n.ok => Pushed(n, b, r + 1)
    BY <1>5, <2>0
  <2> HIDE DEF r
  <2>3. CASE n.ok /\ r \in list
    BY <1>3, <2>0, <2>1, <2>2, <2>3, PushStep
  <2>4. CASE ~(n.ok /\ r \in list)
    <3>1. q = n /\ r \notin list /\ Pushed(n, b, r + 1)
      BY <2>1, <2>2, <2>4
    <3>2. Count(list, r + 1) = Count(list, r)
      <4>1. r \in Regs
        BY <2>0
      <4> HIDE DEF list
      <4>2. Count(list, r) \in Int /\ Count(list, r + 1) = Count(list, r) + (IF r \in list THEN 1 ELSE 0)
        BY <1>3, <4>1, CountsOf
      <4> QED
        BY <3>1, <4>2
    <3>3. StoredFrom(b, r) = StoredFrom(b, r + 1)
      BY <1>3, <2>0, <3>1, StoringRegisters
    <3> QED
      BY <2>0, <3>1, <3>2, <3>3 DEF Pushed
  <2> QED
    BY <2>3, <2>4
<1> HIDE DEF P
<1>6. 16 \in P
  <2> DEFINE n == 16
  <2>1. n \in Nat /\ n \in 0..n /\ \A k \in 0..(n - 1) : k \in P => k + 1 \in P
    BY <1>5
  <2> HIDE DEF n
  <2>2. 0..n \subseteq P
    BY <1>4, <2>1, UpTo
  <2> QED
    BY <2>1, <2>2 DEF n
<1>7. 16 - 16 = 0
  OBVIOUS
<1> QED
  BY <1>1, <1>6, <1>7 DEF P

(* The fields of the block that a push is.                                 *)
LEMMA PushBlock ==
  ASSUME NEW i \in ThumbInstruction, i.op = "PUSH", NEW b, b = Block(i)
  PROVE  /\ b.load = FALSE /\ b.base = 13 /\ b.p = TRUE /\ b.u = FALSE /\ b.w = TRUE
         /\ b.list = i.list \cup (IF i.lr THEN {14} ELSE {})
BY DEF Block

(* PUSH is followed.                                                       *)
LEMMA ThumbPushSound ==
  ASSUME Before, mode = "thumb", Led, NEW i \in ThumbInstruction, i.op = "PUSH",
         ThumbPush(i), Does(Transfer(Block(i)).real, Transfer(Block(i)).mem)
  PROVE  Sound
<1> DEFINE b == Block(i)
<1>1. i.list \subseteq 0..7 /\ i.lr \in BOOLEAN
  BY ThumbFields
<1>2. /\ b.load = FALSE /\ b.base = 13 /\ b.p = TRUE /\ b.u = FALSE /\ b.w = TRUE
      /\ b.list = i.list \cup (IF i.lr THEN {14} ELSE {})
  BY PushBlock, Zenon
<1> HIDE DEF b
<1>3. b.list \subseteq Regs \ {13} /\ 13 \in Regs /\ 15 \in Regs
      /\ b.list \subseteq Regs /\ b.base \in Regs
  BY <1>1, <1>2 DEF Regs
<1>4. PICK m \in Transfers(Transferring, PushRegister, b.list, FALSE) :
        IF m.ok THEN Continue(m.regs, m.hash) ELSE Stop("DWRITE_W_FAIL") /\ UNCHANGED frames
  BY <1>2 DEF ThumbPush
<1>5. CASE ~m.ok
  BY <1>4, <1>5, StopSound
<1>6. CASE m.ok
  <2> DEFINE rs == m.regs
             h == m.hash
             rl == Onwards(Moved(b))
             mm == Stored(b)
  <2>1. Pushed(m, b, 0)
    BY <1>2, <1>3, <1>6, PushFollows
  <2>2. Transfer(b).real = rl /\ Transfer(b).mem = mm
    BY <1>2 DEF Transfer
  <2>3. Does(rl, mm)
    BY <2>2 DEF b
  <2>4. Moved(b) \in [Regs -> WordSet] /\ Moved(b)[15] = real[15]
        /\ \A r \in Regs \ {13} : Moved(b)[r] = real[r]
    BY <1>2, <1>3, LoadedFacts
  <2>5. /\ rl \in [Regs -> WordSet] /\ rl[15] = Word(real[15] + Width)
        /\ \A r \in Regs \ {15} : rl[r] = Moved(b)[r]
    BY <2>4, OnwardsFacts
  <2>6. rs[13] = [v |-> Moved(b)[13], o |-> regData[13].o]
    <3>1. rs[13] = [v |-> Word(Lowest(b) + 4 * Count(b.list, 0)), o |-> regData[13].o]
      BY <2>1 DEF Pushed
    <3>2. Count(b.list, 0) = 0
      BY <1>3, Counting, Zenon
    <3>3. Size(b) \in Int /\ real[13] \in Int
      <4>1. Size(b) \in Int
        BY <1>3, LoadedFacts
      <4> QED
        BY <1>3, <4>1, BeforeFacts, WordFacts
    <3>4. Lowest(b) = real[13] - Size(b)
      BY <1>2, <3>3 DEF Lowest
    <3>5. Lowest(b) + 4 * Count(b.list, 0) = real[13] - Size(b)
      BY <3>2, <3>3, <3>4
    <3>6. Moved(b)[b.base] = IF b.w THEN Word(real[b.base] + (IF b.u THEN Size(b) ELSE -Size(b)))
                             ELSE real[b.base]
      BY <1>3, LoadedFacts
    <3>7. Moved(b)[13] = Word(real[13] + (-Size(b)))
      BY <1>2, <3>6
    <3>8. real[13] + (-Size(b)) = real[13] - Size(b)
      BY <3>3
    <3> QED
      BY <3>1, <3>5, <3>7, <3>8
  <2>7. IsRegisters(rs) /\ \A r \in Regs \ {13} : rs[r] = regData[r]
    BY <2>1 DEF Pushed
  <2>8. Continue(rs, h)
    BY <1>4, <1>6
  <2> HIDE DEF rs, rl
  <2>9. CASE rs[15].v = 0
    <3>1. Stop("RESET") /\ UNCHANGED frames
      BY <2>8, <2>9 DEF Continue, EndOfLoop
    <3> QED
      BY <3>1, StopSound
  <2>10. CASE rs[15].v # 0
    <3>1. memData' = UnwMemHashGC(h, rs[13].v)
      BY <2>8, <2>10 DEF Continue, EndOfLoop
    <3>2. "used" \in DOMAIN h
      BY <2>1 DEF Pushed
    <3>3. Overrun \notin h.used
      <4>1. memData'.used = {c \in h.used : c = Overrun \/ h.a[c] >= rs[13].v}
        BY <3>1, <3>2 DEF UnwMemHashGC
      <4>2. Overrun \notin memData'.used
        BY DEF Led, Overran
      <4> QED
        BY <4>1, <4>2
    <3>4. IsHash(h) /\ Agrees(image.data, h, mm)
      <4>1. IsHash(h) /\ Agrees(image.data, h, StoredFrom(b, 0))
        BY <2>1, <3>3 DEF Pushed
      <4> QED
        BY <1>3, <4>1, StoringRegisters
    <3>5. DOMAIN image.data \subseteq DOMAIN mm /\ Words(mm)
      BY <1>3, StoredWords
    <3> HIDE DEF h, mm
    <3>6. \A r \in Regs \ {15} : Valid(rs[r].o) => rs[r].v = rl[r]
      <4> SUFFICES ASSUME NEW r \in Regs \ {15}, Valid(rs[r].o) PROVE rs[r].v = rl[r]
        OBVIOUS
      <4>1. CASE r = 13
        BY <2>5, <2>6, <4>1
      <4>2. CASE r # 13
        BY <2>4, <2>5, <2>7, <4>2, BeforeFacts DEF Tracked
      <4> QED
        BY <4>1, <4>2
    <3>7. Ready(rs, h, rl, mm)
      BY <2>5, <2>7, <3>4, <3>5, <3>6 DEF Ready
    <3>8. Word(rs[15].v + Wide) = rl[15] /\ mode = ModeOf(rl[15])
      BY <1>3, <2>5, <2>7, PcOnwards
    <3> QED
      BY <2>3, <2>8, <3>7, <3>8, ContinueSound DEF mm
  <2> QED
    BY <2>9, <2>10
<1> QED
  BY <1>5, <1>6

----------------------------------------------------------------------------
(***************************************************************************)
(* LDM.                                                                    *)
(***************************************************************************)

(* The fields of a block that is loaded.                                   *)
LEMMA LoadBlock ==
  ASSUME NEW i \in ArmInstruction, i.op = "LDM", NEW b, b = Block(i)
  PROVE  /\ b.load = TRUE /\ b.base = i.base /\ b.p = i.p /\ b.u = i.u /\ b.w = i.w /\ b.list = i.list
         /\ b.base \in Regs /\ b.list \subseteq Regs
         /\ b.p \in BOOLEAN /\ b.u \in BOOLEAN /\ b.w \in BOOLEAN
<1>1. /\ b.load = TRUE /\ b.base = i.base /\ b.p = i.p /\ b.u = i.u /\ b.w = i.w /\ b.list = i.list
  BY DEF Block
<1>2. /\ i.base \in Regs /\ i.list \subseteq Regs
      /\ i.p \in BOOLEAN /\ i.u \in BOOLEAN /\ i.w \in BOOLEAN
  BY ArmFields
<1> QED
  BY <1>1, <1>2

(* The registers that have had their turn after k turns, and how many of   *)
(* them are in the block.                                                  *)
Turned(b, k) == {r \in Regs : IF b.u THEN r < k ELSE r > 15 - k}
Moves(b, k) == IF b.u THEN Count(b.list, k) ELSE Cardinality(b.list) - Count(b.list, 16 - k)

(* What the address in the block changes by with each word.                *)
Stride(b) == IF b.u THEN 4 ELSE -4

(* At first no register of the block has had its turn, ...                 *)
LEMMA FirstTurn ==
  ASSUME NEW b, b.list \subseteq Regs, b.u \in BOOLEAN
  PROVE  Turned(b, 0) = {} /\ Moves(b, 0) = 0
<1>1. Count(b.list, 0) = 0 /\ Count(b.list, 16) = Cardinality(b.list)
  BY Counting, Zenon
<1>2. 0 \in Regs
  BY DEF Regs
<1>3. Cardinality(b.list) \in Int
  BY <1>2, CountsOf
<1>4. \A r \in Regs : ~(r < 0) /\ ~(r > 15 - 0)
  BY DEF Regs
<1>5. 16 - 0 = 16
  OBVIOUS
<1>6. Turned(b, 0) = {}
  BY <1>4 DEF Turned
<1>7. Moves(b, 0) = 0
  BY <1>1, <1>3, <1>5 DEF Moves
<1> QED
  BY <1>6, <1>7

(* ... and in the end all have.                                            *)
LEMMA LastTurn ==
  ASSUME NEW b, b.list \subseteq Regs, b.u \in BOOLEAN
  PROVE  Turned(b, 16) = Regs /\ Moves(b, 16) = Cardinality(b.list)
<1>1. Count(b.list, 0) = 0 /\ Count(b.list, 16) = Cardinality(b.list)
  BY Counting, Zenon
<1>2. 0 \in Regs
  BY DEF Regs
<1>3. Cardinality(b.list) \in Int
  BY <1>2, CountsOf
<1>4. \A r \in Regs : r < 16 /\ r > 15 - 16
  BY DEF Regs
<1>5. 16 - 16 = 0
  OBVIOUS
<1>6. Turned(b, 16) = Regs
  BY <1>4 DEF Turned
<1>7. Moves(b, 16) = Cardinality(b.list)
  BY <1>1, <1>3, <1>5 DEF Moves
<1> QED
  BY <1>6, <1>7

(* The register whose turn it is, and the place of its word.               *)
LEMMA NextTurn ==
  ASSUME Before, NEW b, b.base \in Regs, b.list \subseteq Regs, b.u \in BOOLEAN, b.p \in BOOLEAN,
         NEW k \in 0..15, NEW r, r = IF b.u THEN k ELSE 15 - k
  PROVE  /\ r \in Regs /\ r \notin Turned(b, k) /\ Turned(b, k + 1) = Turned(b, k) \cup {r}
         /\ Moves(b, k) \in Int
         /\ Moves(b, k + 1) = IF r \in b.list THEN Moves(b, k) + 1 ELSE Moves(b, k)
         /\ r \in b.list =>
              Place(b, r) = Word((real[b.base] + Stride(b) * Moves(b, k)) + (IF b.p THEN Stride(b) ELSE 0))
<1> DEFINE c == Count(b.list, r)
           n == Cardinality(b.list)
           x == real[b.base]
<1>1. r \in Regs /\ r \in Int
  BY DEF Regs
<1>2. r \notin Turned(b, k)
  BY DEF Turned
<1>3. Turned(b, k + 1) = Turned(b, k) \cup {r}
  <2>1. \A q \in Regs : (IF b.u THEN q < k + 1 ELSE q > 15 - (k + 1))
                          <=> (IF b.u THEN q < k ELSE q > 15 - k) \/ q = r
    BY DEF Regs
  <2> QED
    BY <1>1, <2>1 DEF Turned
<1>4. c \in Int /\ n \in Int /\ x \in Int
      /\ Count(b.list, r + 1) = c + (IF r \in b.list THEN 1 ELSE 0)
  <2>1. c \in Int /\ n \in Int /\ Count(b.list, r + 1) = c + (IF r \in b.list THEN 1 ELSE 0)
    BY <1>1, CountsOf
  <2>2. x \in Int
    BY BeforeFacts, WordFacts
  <2> QED
    BY <2>1, <2>2
<1>5. /\ Moves(b, k) = IF b.u THEN c ELSE n - Count(b.list, r + 1)
      /\ Moves(b, k + 1) = IF b.u THEN Count(b.list, r + 1) ELSE n - c
  <2>1. CASE b.u
    BY <2>1 DEF Moves
  <2>2. CASE ~b.u
    <3>1. 16 - k = r + 1 /\ 16 - (k + 1) = r
      BY <2>2
    <3> QED
      BY <2>2, <3>1 DEF Moves
  <2> QED
    BY <2>1, <2>2
<1>6. Place(b, r) = Word(Lowest(b) + 4 * c)
  BY <1>1, LoadedFacts
<1>7. Lowest(b) = IF b.u THEN x + (IF b.p THEN 4 ELSE 0) ELSE (x - 4 * n) + (IF b.p THEN 0 ELSE 4)
  BY DEF Lowest, Size
<1> HIDE DEF c, n, x
<1>8. Moves(b, k) \in Int /\ Moves(b, k + 1) = IF r \in b.list THEN Moves(b, k) + 1 ELSE Moves(b, k)
  BY <1>4, <1>5
<1>9. ASSUME r \in b.list
      PROVE  Place(b, r) = Word((x + Stride(b) * Moves(b, k)) + (IF b.p THEN Stride(b) ELSE 0))
  <2>1. CASE b.u
    <3>1. Moves(b, k) = c /\ Stride(b) = 4
      BY <1>5, <2>1 DEF Stride
    <3>2. Lowest(b) + 4 * c = (x + 4 * c) + (IF b.p THEN 4 ELSE 0)
      BY <1>4, <1>7, <2>1
    <3> QED
      BY <1>6, <3>1, <3>2
  <2>2. CASE ~b.u
    <3>1. Moves(b, k) = n - (c + 1) /\ Stride(b) = -4
      BY <1>4, <1>5, <1>9, <2>2 DEF Stride
    <3>2. Lowest(b) + 4 * c = (x + (-4) * (n - (c + 1))) + (IF b.p THEN -4 ELSE 0)
      BY <1>4, <1>7, <2>2
    <3> QED
      BY <1>6, <3>1, <3>2
  <2> QED
    BY <2>1, <2>2
<1> QED
  BY <1>1, <1>2, <1>3, <1>8, <1>9 DEF x

(* What is known of the registers of a load, when those in S have had      *)
(* their turn and c words have been loaded.                                *)
Blocked(m, i, b, S, c) ==
  /\ m = [regs |-> m.regs, hash |-> memData, ok |-> TRUE, block |-> i,
          known |-> Valid(regData[b.base].o), addr |-> m.addr]
  /\ IsRegisters(m.regs)
  /\ Tracked(b.base) => m.addr = Word(real[b.base] + Stride(b) * c)
  /\ \A r \in Regs :
       IF r \in b.list \cap S
       THEN Valid(m.regs[r].o) => Tracked(b.base) /\ m.regs[r].v = At(mem, Place(b, r))
       ELSE m.regs[r] = regData[r]

(* The registers of a record with other fields beside them.                *)
LEMMA BlockWrites ==
  ASSUME NEW regs, NEW h, NEW i, NEW known, NEW a, NEW k, NEW m,
         m = [regs |-> regs, hash |-> h, ok |-> k, block |-> i, known |-> known, addr |-> a]
  PROVE  /\ \A r, y : [m EXCEPT !.regs[r] = y] = [regs |-> [regs EXCEPT ![r] = y], hash |-> h, ok |-> k,
                                                  block |-> i, known |-> known, addr |-> a]
         /\ \A y : [m EXCEPT !.addr = y] = [regs |-> regs, hash |-> h, ok |-> k,
                                            block |-> i, known |-> known, addr |-> y]
         /\ m.regs = regs /\ m.hash = h /\ m.ok = k /\ m.block = i /\ m.known = known /\ m.addr = a
<1>1. m.regs = regs /\ m.hash = h /\ m.ok = k /\ m.block = i /\ m.known = known /\ m.addr = a
  OBVIOUS
<1>2. \A z : [m EXCEPT !.regs = z] = [regs |-> z, hash |-> h, ok |-> k,
                                      block |-> i, known |-> known, addr |-> a]
  OBVIOUS
<1>3. \A y : [m EXCEPT !.addr = y] = [regs |-> regs, hash |-> h, ok |-> k,
                                      block |-> i, known |-> known, addr |-> y]
  OBVIOUS
<1>4. ASSUME NEW r, NEW y
      PROVE  [m EXCEPT !.regs[r] = y] = [regs |-> [regs EXCEPT ![r] = y], hash |-> h, ok |-> k,
                                         block |-> i, known |-> known, addr |-> a]
  <2> DEFINE z == [regs EXCEPT ![r] = y]
  <2>1. [m EXCEPT !.regs[r] = y] = [m EXCEPT !.regs = z]
    BY <1>1
  <2> HIDE DEF z
  <2> QED
    BY <1>2, <2>1 DEF z
<1> QED
  BY <1>1, <1>3, <1>4

(* A register of the block gets a value: it is the processor's, if it is   *)
(* tracked.                                                                *)
LEMMA BlockLoads ==
  ASSUME NEW i, NEW b, b.list \subseteq Regs, NEW S, NEW c \in Int, NEW r \in b.list, r \notin S,
         NEW m, Blocked(m, i, b, S, c), NEW v, NEW o, NEW a,
         Valid(o) => Tracked(b.base) /\ v = At(mem, Place(b, r)),
         Tracked(b.base) => a = Word(real[b.base] + Stride(b) * (c + 1)),
         NEW q, q = [regs |-> [m.regs EXCEPT ![r] = [v |-> v, o |-> o]], hash |-> memData, ok |-> TRUE,
                     block |-> i, known |-> Valid(regData[b.base].o), addr |-> a]
  PROVE  Blocked(q, i, b, S \cup {r}, c + 1)
<1> DEFINE ms == m.regs
           y == [v |-> v, o |-> o]
           qs == [ms EXCEPT ![r] = y]
<1>1. IsRegisters(ms) /\ r \in Regs
  BY DEF Blocked
<1>2. ms = [p \in Regs |-> ms[p]] /\ \A p \in Regs : ms[p] = [v |-> ms[p].v, o |-> ms[p].o]
  BY <1>1 DEF IsRegisters
<1>3. q.regs = qs /\ q.addr = a /\ q = [regs |-> q.regs, hash |-> memData, ok |-> TRUE,
                     block |-> i, known |-> Valid(regData[b.base].o), addr |-> q.addr]
  OBVIOUS
<1>4. y = [v |-> y.v, o |-> y.o] /\ y.v = v /\ y.o = o
  OBVIOUS
<1> HIDE DEF y, ms
<1>5. qs = [p \in Regs |-> qs[p]] /\ qs[r] = y /\ \A p \in Regs \ {r} : qs[p] = ms[p]
  BY <1>1, <1>2
<1> HIDE DEF qs
<1>6. IsRegisters(qs)
  <2>1. \A p \in Regs : qs[p] = [v |-> qs[p].v, o |-> qs[p].o]
    BY <1>2, <1>4, <1>5
  <2> QED
    BY <1>5, <2>1 DEF IsRegisters
<1>7. ASSUME NEW p \in Regs
      PROVE  IF p \in b.list \cap (S \cup {r})
             THEN Valid(qs[p].o) => Tracked(b.base) /\ qs[p].v = At(mem, Place(b, p))
             ELSE qs[p] = regData[p]
  <2>1. CASE p = r
    BY <1>4, <1>5, <2>1
  <2>2. CASE p # r
    <3>1. qs[p] = ms[p] /\ (p \in b.list \cap (S \cup {r}) <=> p \in b.list \cap S)
      BY <1>5, <2>2
    <3>2. IF p \in b.list \cap S
          THEN Valid(ms[p].o) => Tracked(b.base) /\ ms[p].v = At(mem, Place(b, p))
          ELSE ms[p] = regData[p]
      BY DEF Blocked, ms
    <3> QED
      BY <3>1, <3>2
  <2> QED
    BY <2>1, <2>2
<1> QED
  BY <1>3, <1>6, <1>7 DEF Blocked

(* One register more of the block is loaded.                               *)
LEMMA BlockStep ==
  ASSUME Before, NEW i \in ArmInstruction, i.op = "LDM", NEW b, b = Block(i),
         NEW k \in 0..15, NEW r, r = (IF b.u THEN k ELSE 15 - k), r \in b.list,
         NEW m, Blocked(m, i, b, Turned(b, k), Moves(b, k)), NEW q \in BlockRegister(m, r), q.ok
  PROVE  Blocked(q, i, b, Turned(b, k + 1), Moves(b, k + 1))
<1>1. /\ b.load = TRUE /\ b.base = i.base /\ b.p = i.p /\ b.u = i.u /\ b.w = i.w /\ b.list = i.list
      /\ b.base \in Regs /\ b.list \subseteq Regs
      /\ b.p \in BOOLEAN /\ b.u \in BOOLEAN /\ b.w \in BOOLEAN
  BY LoadBlock, Zenon
<1> DEFINE S == Turned(b, k)
           c == Moves(b, k)
           d == Stride(b)
           x == real[b.base]
<1>2. /\ r \in Regs /\ r \notin S /\ Turned(b, k + 1) = S \cup {r} /\ c \in Int /\ Moves(b, k + 1) = c + 1
      /\ Place(b, r) = Word((x + d * c) + (IF b.p THEN d ELSE 0))
  BY <1>1, NextTurn
<1>3. x \in Int /\ d \in Int /\ d * c \in Int /\ d * (c + 1) = d * c + d
  <2>1. x \in Int
    BY <1>1, BeforeFacts, WordFacts
  <2>2. d = 4 \/ d = -4
    BY DEF Stride
  <2> HIDE DEF d, c, x
  <2> QED
    BY <1>2, <2>1, <2>2
<1> DEFINE known == Valid(regData[b.base].o)
           ms == m.regs
           addr == IF b.p THEN Word(m.addr + d) ELSE m.addr
           end == Word(m.addr + d)
<1>4. m = [regs |-> ms, hash |-> memData, ok |-> TRUE, block |-> i, known |-> known, addr |-> m.addr]
  BY DEF Blocked
<1>5. known <=> Tracked(b.base)
  BY DEF Tracked
<1>6. ASSUME Tracked(b.base)
      PROVE  addr = Place(b, r) /\ end = Word(x + d * (c + 1))
  <2> DEFINE y == x + d * c
  <2>1. m.addr = Word(y)
    BY <1>6 DEF Blocked
  <2>2. y \in Int /\ x + d * (c + 1) = y + d
    BY <1>3
  <2>3. Place(b, r) = Word(y + (IF b.p THEN d ELSE 0))
    BY <1>2
  <2> HIDE DEF y, d, c, x
  <2>4. Word(Word(y) + d) = Word(y + d)
    BY <1>3, <2>2, WordAdds
  <2>5. CASE b.p
    BY <2>1, <2>2, <2>3, <2>4, <2>5
  <2>6. CASE ~b.p
    <3>1. y + 0 = y
      BY <2>2
    <3> QED
      BY <2>1, <2>2, <2>3, <2>4, <2>6, <3>1
  <2> QED
    BY <2>5, <2>6
<1>7. m.block = i /\ m.known = known /\ m.hash = memData
  BY <1>4, BlockWrites
<1>8. PICK n : /\ n = IF known THEN LoadRegister(m, r, addr, b.base = 13) ELSE [m EXCEPT !.regs[r].o = {}]
               /\ q = [n EXCEPT !.addr = Word(@ + d)]
  <2>1. BlockRegister(m, r) =
          LET done == CASE m.known /\ i.op = "LDM"  -> {LoadRegister(m, r, addr, i.base = 13)}
                        [] m.known /\ i.op = "STM"  -> StoreRegister(m, r, m.regs[13].v)
                        [] ~m.known /\ i.op = "LDM" -> {[m EXCEPT !.regs[r].o = {}]}
                        [] OTHER                    -> {m}
          IN  {[n EXCEPT !.addr = Word(@ + d)] : n \in done}
    <3> DEFINE Done(j, e, f) ==
          LET done == CASE m.known /\ j.op = "LDM"  -> {LoadRegister(m, r, f, j.base = 13)}
                        [] m.known /\ j.op = "STM"  -> StoreRegister(m, r, m.regs[13].v)
                        [] ~m.known /\ j.op = "LDM" -> {[m EXCEPT !.regs[r].o = {}]}
                        [] OTHER                    -> {m}
          IN  {[n EXCEPT !.addr = Word(@ + e)] : n \in done}
               e(j) == IF j.u THEN 4 ELSE -4
               f(j) == IF j.p THEN Word(m.addr + e(j)) ELSE m.addr
    <3>1. BlockRegister(m, r) = Done(m.block, e(m.block), f(m.block))
      BY Zenon DEF BlockRegister
    <3>2. e(i) = d /\ f(i) = addr
      BY <1>1 DEF Stride
    <3> HIDE DEF Done, e, f, addr, d
    <3>3. BlockRegister(m, r) = Done(i, d, addr)
      BY <1>7, <3>1, <3>2
    <3> QED
      BY <3>3, Zenon DEF Done
  <2> HIDE DEF addr, d
  <2>2. CASE known
    BY <1>1, <1>7, <2>1, <2>2
  <2>3. CASE ~known
    BY <1>7, <2>1, <2>3
  <2> QED
    BY <2>2, <2>3
<1> HIDE DEF addr
<1>9. CASE known
  <2> DEFINE z == UnwMemReadRegister(m.hash, addr)
             o == IF b.base = 13 /\ Valid(z.o) THEN FromStack ELSE z.o
             v == z.v
  <2>1. n = IF z.ok THEN [m EXCEPT !.regs[r] = [v |-> v, o |-> o]] ELSE [m EXCEPT !.ok = FALSE]
    BY <1>8, <1>9 DEF LoadRegister
  <2>2. z.ok
    <3> SUFFICES ASSUME ~z.ok PROVE FALSE
      OBVIOUS
    <3>1. n = [m EXCEPT !.ok = FALSE]
      BY <2>1
    <3>2. n.ok = FALSE
      BY <1>4, <3>1
    <3>3. [n EXCEPT !.addr = Word(n.addr + d)].ok = n.ok
      OBVIOUS
    <3> QED
      BY <1>8, <3>2, <3>3
  <2>3. Valid(o) => v = At(mem, Place(b, r))
    <3>1. Tracked(b.base) /\ addr = Place(b, r)
      BY <1>5, <1>6, <1>9
    <3>2. Place(b, r) \in WordSet
      BY <1>1, <1>2, LoadedFacts
    <3>3. Agrees(image.data, memData, mem)
      BY BeforeFacts
    <3>4. Valid(o) => Valid(z.o)
      BY Origins
    <3>5. z.ok /\ Valid(z.o) => z.v = At(mem, addr)
      BY <1>7, <3>1, <3>2, <3>3, ReadAgrees
    <3> QED
      BY <2>2, <3>1, <3>4, <3>5
  <2> HIDE DEF z, o, v
  <2>4. q = [regs |-> [ms EXCEPT ![r] = [v |-> v, o |-> o]], hash |-> memData, ok |-> TRUE,
             block |-> i, known |-> known, addr |-> end]
    <3> DEFINE y == [v |-> v, o |-> o]
               a == m.addr
               ns == [ms EXCEPT ![r] = y]
    <3>1. n = [m EXCEPT !.regs[r] = y]
      BY <2>1, <2>2
    <3>2. m = [regs |-> ms, hash |-> memData, ok |-> TRUE, block |-> i, known |-> known, addr |-> a]
      BY <1>4
    <3> HIDE DEF y, ms, a, known
    <3>3. n = [regs |-> [ms EXCEPT ![r] = y], hash |-> memData, ok |-> TRUE,
               block |-> i, known |-> known, addr |-> a]
      BY <3>1, <3>2, BlockWrites
    <3> HIDE DEF ns
    <3>4. n = [regs |-> ns, hash |-> memData, ok |-> TRUE, block |-> i, known |-> known, addr |-> a]
      BY <3>3 DEF ns
    <3>5. n.addr = a /\ q = [n EXCEPT !.addr = Word(n.addr + d)]
      BY <1>8, <3>4
    <3>6. q = [n EXCEPT !.addr = end]
      BY <3>5 DEF a
    <3> HIDE DEF end
    <3>7. q = [regs |-> ns, hash |-> memData, ok |-> TRUE, block |-> i, known |-> known, addr |-> end]
      BY <3>4, <3>6, BlockWrites
    <3> QED
      BY <3>7 DEF ns, y
  <2>5. Valid(o) => Tracked(b.base) /\ v = At(mem, Place(b, r))
    BY <1>5, <1>9, <2>3
  <2>6. Tracked(b.base) => end = Word(x + d * (c + 1))
    BY <1>6
  <2> HIDE DEF end
  <2>7. Blocked(q, i, b, S \cup {r}, c + 1)
    <3>1. Blocked(m, i, b, S, c) /\ r \in b.list /\ b.list \subseteq Regs /\ c \in Int /\ r \notin S
      BY <1>1, <1>2
    <3> HIDE DEF S, c
    <3> QED
      BY <3>1, <2>4, <2>5, <2>6, BlockLoads DEF known, ms
  <2> QED
    BY <1>2, <2>7
<1>10. CASE ~known
  <2> DEFINE v == ms[r].v
             o == {}
  <2>1. n = [m EXCEPT !.regs[r].o = {}]
    BY <1>8, <1>10
  <2>2. IsRegisters(ms)
    BY DEF Blocked
  <2>3. [ms EXCEPT ![r].o = {}] = [ms EXCEPT ![r] = [v |-> v, o |-> o]]
    BY <1>2, <2>2, Forgotten
  <2>4. [m EXCEPT !.regs[r].o = {}] = [m EXCEPT !.regs = [ms EXCEPT ![r].o = {}]]
    BY <1>4
  <2>5. n = [m EXCEPT !.regs[r] = [v |-> v, o |-> o]]
    BY <2>1, <2>3, <2>4
  <2> HIDE DEF o, v
  <2>6. q = [regs |-> [ms EXCEPT ![r] = [v |-> v, o |-> o]], hash |-> memData, ok |-> TRUE,
             block |-> i, known |-> known, addr |-> end]
    <3> DEFINE y == [v |-> v, o |-> o]
               a == m.addr
               ns == [ms EXCEPT ![r] = y]
    <3>1. n = [m EXCEPT !.regs[r] = y]
      BY <2>5
    <3>2. m = [regs |-> ms, hash |-> memData, ok |-> TRUE, block |-> i, known |-> known, addr |-> a]
      BY <1>4
    <3> HIDE DEF y, ms, a, known
    <3>3. n = [regs |-> [ms EXCEPT ![r] = y], hash |-> memData, ok |-> TRUE,
               block |-> i, known |-> known, addr |-> a]
      BY <3>1, <3>2, BlockWrites
    <3> HIDE DEF ns
    <3>4. n = [regs |-> ns, hash |-> memData, ok |-> TRUE, block |-> i, known |-> known, addr |-> a]
      BY <3>3 DEF ns
    <3>5. n.addr = a /\ q = [n EXCEPT !.addr = Word(n.addr + d)]
      BY <1>8, <3>4
    <3>6. q = [n EXCEPT !.addr = end]
      BY <3>5 DEF a
    <3> HIDE DEF end
    <3>7. q = [regs |-> ns, hash |-> memData, ok |-> TRUE, block |-> i, known |-> known, addr |-> end]
      BY <3>4, <3>6, BlockWrites
    <3> QED
      BY <3>7 DEF ns, y
  <2>7. ~Valid(o) /\ ~Tracked(b.base)
    BY <1>5, <1>10, Origins DEF o
  <2> HIDE DEF end
  <2>8. Blocked(q, i, b, S \cup {r}, c + 1)
    <3>1. Blocked(m, i, b, S, c) /\ r \in b.list /\ b.list \subseteq Regs /\ c \in Int /\ r \notin S
      BY <1>1, <1>2
    <3> HIDE DEF S, c
    <3> QED
      BY <3>1, <2>6, <2>7, BlockLoads DEF known, ms
  <2> QED
    BY <1>2, <2>8
<1> QED
  BY <1>9, <1>10

(* What is left when all registers of a block have been loaded.            *)
LEMMA BlockFollows ==
  ASSUME Before, NEW i \in ArmInstruction, i.op = "LDM", NEW b, b = Block(i),
         NEW start, start = [regs |-> regData, hash |-> memData, ok |-> TRUE, block |-> i,
                             known |-> Valid(regData[b.base].o), addr |-> regData[b.base].v],
         NEW m \in Transfers(start, BlockRegister, b.list, b.u), m.ok
  PROVE  Blocked(m, i, b, Regs, Cardinality(b.list))
<1>1. b.base \in Regs /\ b.list \subseteq Regs /\ b.u \in BOOLEAN /\ b.p \in BOOLEAN
  BY LoadBlock
<1> DEFINE list == b.list
           w == TransferOf("block", list, b.u)
<1>2. PICK f : Course(w, start, f, 16) /\ m \in f[16]
  BY <1>1, BlockCourse
<1>3. /\ w.list = list /\ (\A k : Turn(w, k) = IF b.u THEN k ELSE 15 - k)
      /\ \A q, r : Register(w, q, r) = BlockRegister(q, r)
  BY DEF TransferOf, Turn, Register
<1> HIDE DEF w
<1> DEFINE P == {k \in 0..16 : \A q \in f[k] : q.ok => Blocked(q, i, b, Turned(b, k), Moves(b, k))}
<1>4. 0 \in P
  <2>1. f[0] = {start}
    BY <1>2 DEF Course
  <2>2. start.regs = regData /\ start.addr = regData[b.base].v
        /\ start = [regs |-> regData, hash |-> memData, ok |-> TRUE, block |-> i,
                    known |-> Valid(regData[b.base].o), addr |-> start.addr]
    OBVIOUS
  <2>3. IsRegisters(regData) /\ real[b.base] \in Int /\ Word(real[b.base]) = real[b.base]
        /\ (Tracked(b.base) => regData[b.base].v = real[b.base])
    BY <1>1, BeforeFacts, WordFacts DEF Before, Follower, Follows
  <2>4. Turned(b, 0) = {} /\ Moves(b, 0) = 0
    BY <1>1, FirstTurn
  <2>5. real[b.base] + Stride(b) * 0 = real[b.base]
    <3>1. Stride(b) \in Int
      BY DEF Stride
    <3> QED
      BY <2>3, <3>1
  <2>6. Blocked(start, i, b, {}, 0)
    BY <2>2, <2>3, <2>5 DEF Blocked
  <2>7. Blocked(start, i, b, Turned(b, 0), Moves(b, 0))
    <3> DEFINE T == Turned(b, 0)
               M == Moves(b, 0)
    <3>1. T = {} /\ M = 0
      BY <2>4
    <3> HIDE DEF T, M
    <3>2. Blocked(start, i, b, T, M)
      BY <2>6, <3>1
    <3> QED
      BY <3>2 DEF T, M
  <2>8. 0 \in 0..16
    OBVIOUS
  <2> QED
    BY <2>1, <2>7, <2>8, Zenon
<1>5. ASSUME NEW k \in 0..15, k \in P PROVE k + 1 \in P
  <2> SUFFICES ASSUME NEW q \in f[k + 1], q.ok
               PROVE  Blocked(q, i, b, Turned(b, k + 1), Moves(b, k + 1))
    OBVIOUS
  <2> DEFINE r == IF b.u THEN k ELSE 15 - k
  <2>1. PICK n \in f[k] : /\ n.ok /\ r \in list => q \in BlockRegister(n, r)
                          /\ ~(n.ok /\ r \in list) => q = n
    BY <1>2, <1>3, CourseStep
  <2>2. n.ok => Blocked(n, i, b, Turned(b, k), Moves(b, k))
    BY <1>5
  <2>3. r = IF b.u THEN k ELSE 15 - k
    OBVIOUS
  <2> HIDE DEF r, P
  <2>4. CASE n.ok /\ r \in list
    BY <2>1, <2>2, <2>3, <2>4, BlockStep
  <2>5. CASE ~(n.ok /\ r \in list)
    <3>1. q = n /\ r \notin list /\ Blocked(n, i, b, Turned(b, k), Moves(b, k))
      BY <2>1, <2>2, <2>5
    <3>2. Turned(b, k + 1) = Turned(b, k) \cup {r} /\ Moves(b, k + 1) = Moves(b, k)
      BY <1>1, <2>3, <3>1, NextTurn
    <3>3. \A p \in Regs : p \in list \cap (Turned(b, k) \cup {r}) <=> p \in list \cap Turned(b, k)
      BY <3>1
    <3> QED
      BY <3>1, <3>2, <3>3 DEF Blocked
  <2> QED
    BY <2>4, <2>5
<1> HIDE DEF P
<1>6. 16 \in P
  <2> DEFINE n == 16
  <2>1. n \in Nat /\ n \in 0..n /\ \A k \in 0..(n - 1) : k \in P => k + 1 \in P
    BY <1>5
  <2> HIDE DEF n
  <2>2. 0..n \subseteq P
    BY <1>4, <2>1, UpTo
  <2> QED
    BY <2>1, <2>2 DEF n
<1>7. Blocked(m, i, b, Turned(b, 16), Moves(b, 16))
  BY <1>2, <1>6 DEF P
<1> QED
  BY <1>1, <1>7, LastTurn

(* The registers of a load, with the base register written back.           *)
Written(m, i) == IF i.w THEN [m.regs EXCEPT ![i.base].v = m.addr] ELSE m.regs

(* They are the processor's.                                               *)
LEMMA BlockFacts ==
  ASSUME Before, NEW i \in ArmInstruction, i.op = "LDM", ~Misread(i), NEW b, b = Block(i),
         NEW m, Blocked(m, i, b, Regs, Cardinality(b.list)),
         NEW rs, rs = Written(m, i)
  PROVE  /\ IsRegisters(rs)
         /\ \A r \in Regs : Valid(rs[r].o) => rs[r].v = Loaded(b)[r]
         /\ \A r \in Regs \ b.list : r # b.base => rs[r] = regData[r]
<1>1. /\ b.load = TRUE /\ b.base = i.base /\ b.p = i.p /\ b.u = i.u /\ b.w = i.w /\ b.list = i.list
      /\ b.base \in Regs /\ b.list \subseteq Regs
      /\ b.p \in BOOLEAN /\ b.u \in BOOLEAN /\ b.w \in BOOLEAN
  BY LoadBlock, Zenon
<1> DEFINE ms == m.regs
           base == b.base
           n == Cardinality(b.list)
           y == [v |-> m.addr, o |-> ms[base].o]
<1>2. IsRegisters(ms) /\ (Tracked(base) => m.addr = Word(real[base] + Stride(b) * n))
      /\ \A r \in Regs :
           IF r \in b.list
           THEN Valid(ms[r].o) => Tracked(base) /\ ms[r].v = At(mem, Place(b, r))
           ELSE ms[r] = regData[r]
  BY <1>1 DEF Blocked
<1>3. ms = [r \in Regs |-> ms[r]] /\ \A r \in Regs : ms[r] = [v |-> ms[r].v, o |-> ms[r].o]
  BY <1>2 DEF IsRegisters
<1>4. ~(b.w /\ base \in b.list)
  BY <1>1 DEF Misread
<1>5. rs = IF b.w THEN [ms EXCEPT ![base] = y] ELSE ms
  <2>1. rs = IF b.w THEN [ms EXCEPT ![base].v = m.addr] ELSE ms
    BY <1>1 DEF Written
  <2>2. ms[base] = [v |-> ms[base].v, o |-> ms[base].o]
    BY <1>1, <1>3
  <2>3. [ms[base] EXCEPT !.v = m.addr] = y
    BY <2>2
  <2>4. [ms EXCEPT ![base].v = m.addr] = [ms EXCEPT ![base] = [ms[base] EXCEPT !.v = m.addr]]
    OBVIOUS
  <2> QED
    BY <2>1, <2>3, <2>4
<1>6. y = [v |-> y.v, o |-> y.o] /\ y.v = m.addr /\ y.o = ms[base].o
  OBVIOUS
<1> HIDE DEF ms, y, base
<1>7. /\ rs = [r \in Regs |-> rs[r]]
      /\ \A r \in Regs : rs[r] = IF b.w /\ r = base THEN y ELSE ms[r]
  BY <1>1, <1>3, <1>5 DEF base
<1>8. IsRegisters(rs)
  <2>1. \A r \in Regs : rs[r] = [v |-> rs[r].v, o |-> rs[r].o]
    BY <1>3, <1>6, <1>7
  <2> QED
    BY <1>7, <2>1 DEF IsRegisters
<1>9. /\ \A r \in Regs \ {base} : Moved(b)[r] = real[r]
      /\ Moved(b)[base] = IF b.w THEN Word(real[base] + (IF b.u THEN Size(b) ELSE -Size(b))) ELSE real[base]
      /\ \A r \in Regs : Loaded(b)[r] = IF r \in b.list THEN At(mem, Place(b, r)) ELSE Moved(b)[r]
  <2>1. b.base \in Regs /\ b.list \subseteq Regs
    BY <1>1
  <2> QED
    BY <2>1, LoadedFacts DEF base
<1>10. Stride(b) * n = IF b.u THEN Size(b) ELSE -Size(b)
  <2>1. n \in Int
    <3>1. b.list \subseteq Regs /\ b.base \in Regs
      BY <1>1
    <3> QED
      BY <3>1, CountsOf
  <2>2. Size(b) = 4 * n
    BY DEF Size
  <2> HIDE DEF n
  <2>3. (-4) * n = -(4 * n)
    BY <2>1
  <2> QED
    BY <2>2, <2>3 DEF Stride
<1>11. ASSUME NEW r \in Regs, Valid(rs[r].o) PROVE rs[r].v = Loaded(b)[r]
  <2>1. CASE b.w /\ r = base
    <3>1. rs[r].v = m.addr /\ Tracked(base) /\ r \notin b.list
      <4>1. r \notin b.list /\ rs[r] = y
        BY <1>4, <1>7, <2>1
      <4>2. ms[r] = regData[r]
        BY <1>2, <4>1
      <4> QED
        BY <1>6, <1>11, <2>1, <4>1, <4>2 DEF Tracked
    <3>2. m.addr = Word(real[base] + Stride(b) * n)
      BY <1>2, <3>1 DEF base
    <3> HIDE DEF n
    <3> QED
      BY <1>9, <1>10, <2>1, <3>1, <3>2
  <2>2. CASE ~(b.w /\ r = base) /\ r \in b.list
    BY <1>2, <1>7, <1>9, <1>11, <2>2
  <2>3. CASE ~(b.w /\ r = base) /\ r \notin b.list
    <3>1. rs[r] = regData[r]
      BY <1>2, <1>7, <2>3
    <3>2. Loaded(b)[r] = real[r]
      BY <1>9, <2>3
    <3> QED
      BY <1>11, <3>1, <3>2, BeforeFacts DEF Tracked
  <2> QED
    BY <2>1, <2>2, <2>3
<1>12. \A r \in Regs \ b.list : r # b.base => rs[r] = regData[r]
  BY <1>2, <1>7 DEF base
<1> QED
  BY <1>8, <1>11, <1>12

(* LDM is followed, with a return when it loads register 15.               *)
LEMMA ArmBlockSound ==
  ASSUME Before, mode = "arm", Led, NEW i \in ArmInstruction, i.op \in {"LDM", "STM"}, ~Misread(i),
         ArmBlock(i), Does(Transfer(Block(i)).real, Transfer(Block(i)).mem)
  PROVE  Sound
<1>0. i.op = "LDM"
  BY DEF Misread
<1> DEFINE b == Block(i)
<1>1. /\ b.load = TRUE /\ b.base = i.base /\ b.p = i.p /\ b.u = i.u /\ b.w = i.w /\ b.list = i.list
      /\ b.base \in Regs /\ b.list \subseteq Regs
      /\ b.p \in BOOLEAN /\ b.u \in BOOLEAN /\ b.w \in BOOLEAN
  BY <1>0, LoadBlock, Zenon
<1>2. CASE RefusedBlock(i) /\ Stop("FAILURE") /\ UNCHANGED frames
  BY <1>2, StopSound
<1>3. CASE ~RefusedBlock(i) /\ TransferBlock(i)
  <2>1. b.base # 15
    BY <1>1, <1>3 DEF RefusedBlock
  <2> DEFINE start == [regs |-> regData, hash |-> memData, ok |-> TRUE, block |-> i,
                       known |-> Valid(regData[i.base].o), addr |-> regData[i.base].v]
             returns == 15 \in i.list
  <2>2. PICK m \in Transfers(start, BlockRegister, i.list, i.u) :
          \/ /\ ~m.ok /\ Stop("DREAD_W_FAIL") /\ UNCHANGED frames
          \/ m.ok /\ ~returns /\ Continue(Written(m, i), m.hash)
          \/ m.ok /\ returns /\ ~Valid(Written(m, i)[15].o) /\ Stop("FAILURE") /\ UNCHANGED frames
          \/ /\ m.ok /\ returns /\ Valid(Written(m, i)[15].o)
             /\ Report(Written(m, i)[15].v)
             /\ IF CliReport THEN GoTo(Written(m, i), m.hash, Written(m, i)[15].v) ELSE Stop("TRUNCATED")
    BY <1>0, <1>3, Zenon DEF TransferBlock, Written
  <2> DEFINE rs == Written(m, i)
  <2>3. CASE ~m.ok \/ (returns /\ ~Valid(rs[15].o))
    <3>1. \E r : r # "RUNNING" /\ Stop(r) /\ UNCHANGED frames
      BY <2>2, <2>3
    <3> QED
      BY <3>1, StopSound
  <2>4. CASE m.ok /\ ~(returns /\ ~Valid(rs[15].o))
    <3>1. Blocked(m, i, b, Regs, Cardinality(b.list))
      <4>1. start = [regs |-> regData, hash |-> memData, ok |-> TRUE, block |-> i,
                     known |-> Valid(regData[b.base].o), addr |-> regData[b.base].v]
        BY <1>1
      <4>2. m \in Transfers(start, BlockRegister, b.list, b.u)
        BY <1>1, <2>2
      <4>3. b = Block(i)
        OBVIOUS
      <4> HIDE DEF b, start
      <4> QED
        BY <1>0, <2>4, <4>1, <4>2, <4>3, BlockFollows
    <3>2. m.hash = memData
      BY <3>1 DEF Blocked
    <3>3. /\ IsRegisters(rs)
          /\ \A r \in Regs : Valid(rs[r].o) => rs[r].v = Loaded(b)[r]
          /\ \A r \in Regs \ b.list : r # b.base => rs[r] = regData[r]
      <4>1. b = Block(i) /\ rs = Written(m, i)
        OBVIOUS
      <4> HIDE DEF b, rs, start, returns
      <4> QED
        BY <1>0, <3>1, <4>1, BlockFacts
    <3>4. /\ Loaded(b) \in [Regs -> WordSet]
          /\ \A r \in Regs \ b.list : r # b.base => Loaded(b)[r] = real[r]
      <4> HIDE DEF b
      <4> QED
        BY <1>1, LoadedFacts
    <3>5. 15 \in Regs
      BY DEF Regs
    <3>6. CASE ~returns
      <4> DEFINE rl == Onwards(Loaded(b))
      <4>1. 15 \notin b.list /\ rs[15] = regData[15] /\ Loaded(b)[15] = real[15]
        BY <1>1, <2>1, <3>3, <3>4, <3>5, <3>6
      <4>2. Transfer(b).real = rl /\ Transfer(b).mem = mem
        BY <1>1, <4>1 DEF Transfer
      <4>3. Does(rl, mem)
        BY <4>2
      <4>4. /\ rl \in [Regs -> WordSet] /\ rl[15] = Word(real[15] + Width)
            /\ \A r \in Regs \ {15} : rl[r] = Loaded(b)[r]
        <5> HIDE DEF b
        <5> QED
          BY <3>4, <4>1, OnwardsFacts
      <4>5. Continue(rs, memData)
        BY <2>2, <2>4, <3>2, <3>6
      <4> HIDE DEF rs, rl, b
      <4>6. Ready(rs, memData, rl, mem)
        BY <3>3, <4>4, BeforeFacts DEF Ready
      <4>7. Word(rs[15].v + Wide) = rl[15] /\ mode = ModeOf(rl[15])
        BY <4>1, <4>4, PcOnwards
      <4> QED
        BY <4>3, <4>5, <4>6, <4>7, ContinueSound
    <3>7. CASE returns
      <4> DEFINE rl == Loaded(b)
                 to == rs[15].v
      <4>1. 15 \in b.list
        BY <1>1, <3>7
      <4>2. Transfer(b).real = rl /\ Transfer(b).mem = mem
        BY <1>1, <4>1 DEF Transfer
      <4>3. Does(rl, mem)
        BY <4>2
      <4>4. real' = rl
        BY <4>3 DEF Does
      <4>5. Report(to) /\ IF CliReport THEN GoTo(rs, memData, to) ELSE Stop("TRUNCATED")
        BY <2>2, <2>4, <3>2, <3>7
      <4>6. to = rl[15]
        BY <2>4, <3>3, <3>5, <3>7
      <4> HIDE DEF rs, rl, b, to
      <4>7. Ready(rs, memData, rl, mem)
        BY <3>3, <3>4, BeforeFacts DEF Ready, rl
      <4>8. CliReport => (result' = "RUNNING" => Follower')
        BY <4>3, <4>5, <4>6, <4>7, GoToFollows
      <4>9. ~CliReport => result' # "RUNNING"
        BY <4>5 DEF Stop
      <4> QED
        BY <4>4, <4>5, <4>6, <4>8, <4>9, ReportSound
    <3> QED
      BY <3>6, <3>7
  <2> QED
    BY <2>3, <2>4
<1> QED
  BY <1>2, <1>3 DEF ArmBlock

----------------------------------------------------------------------------
(***************************************************************************)
(* All instructions, and the theorems.                                     *)
(***************************************************************************)

(* Every Thumb instruction is followed, unless it is misread.              *)
LEMMA ThumbSound ==
  ASSUME Before, Led, NEW i \in ThumbInstruction, UnwStartThumb(i), Execute(i, image.data), ~Misread(i)
  PROVE  Sound
<1>0. mode = "thumb"
  BY DEF UnwStartThumb, Running
<1>1. IF i.op \in {"PUSH", "POP", "LDM", "STM"}
      THEN Does(Transfer(Block(i)).real, Transfer(Block(i)).mem) ELSE Does(Result(i), mem)
  BY ExecuteDoes DEF Misread
<1>2. CASE i.op = "SHIFT" /\ ThumbShift(i)
  BY <1>0, <1>1, <1>2, ThumbShiftSound
<1>3. CASE i.op = "ADDSUB" /\ ThumbAddSub(i)
  BY <1>0, <1>1, <1>3, ThumbAddSubSound
<1>4. CASE i.op = "ADDSUB3" /\ ThumbAddSub3(i)
  BY <1>0, <1>1, <1>4, ThumbAddSub3Sound
<1>5. CASE i.op = "IMM8" /\ ThumbImmediate(i)
  BY <1>0, <1>1, <1>5, ThumbImmediateSound
<1>6. CASE i.op = "ALU" /\ ThumbAlu(i)
  BY <1>0, <1>1, <1>6, ThumbAluSound
<1>7. CASE i.op = "HI" /\ ThumbHigh(i)
  BY <1>0, <1>1, <1>7, ThumbHighSound
<1>8. CASE i.op = "BX" /\ ThumbBx(i)
  BY <1>0, <1>1, <1>8, ThumbBxSound
<1>9. CASE i.op = "LDRPC" /\ ThumbLoad(i)
  BY <1>0, <1>1, <1>9, ThumbLoadSound
<1>10. CASE i.op = "ADDSP" /\ ThumbAddSp(i)
  BY <1>0, <1>1, <1>10, ThumbAddSpSound
<1>11. CASE i.op = "POP" /\ ThumbPop(i)
  BY <1>0, <1>1, <1>11, ThumbPopSound
<1>12. CASE i.op = "PUSH" /\ ThumbPush(i)
  BY <1>0, <1>1, <1>12, ThumbPushSound
<1>13. CASE i.op = "B" /\ ThumbBranch(i)
  BY <1>0, <1>1, <1>13, ThumbBranchSound
<1>14. CASE i.op = "UNKNOWN" /\ ThumbUnknown
  <2>1. Continue(UnwInvalidateRegisterFile(regData), memData) /\ i.op = "UNKNOWN"
    BY <1>14 DEF ThumbUnknown
  <2> QED
    BY <1>1, <2>1, UnknownSound
<1> QED
  BY <1>2, <1>3, <1>4, <1>5, <1>6, <1>7, <1>8, <1>9, <1>10, <1>11, <1>12, <1>13, <1>14
  DEF UnwStartThumb

(* And so is every ARM instruction.                                        *)
LEMMA ArmSound ==
  ASSUME Before, Led, NEW i \in ArmInstruction, UnwStartArm(i), Execute(i, image.data), ~Misread(i)
  PROVE  Sound
<1>0. mode = "arm"
  BY DEF UnwStartArm, Running
<1>1. IF i.op \in {"PUSH", "POP", "LDM", "STM"}
      THEN Does(Transfer(Block(i)).real, Transfer(Block(i)).mem) ELSE Does(Result(i), mem)
  BY ExecuteDoes DEF Misread
<1>2. CASE i.op = "BX" /\ ArmBx(i)
  BY <1>0, <1>1, <1>2, ArmBxSound
<1>3. CASE i.op = "B" /\ ArmBranch(i)
  BY <1>0, <1>1, <1>3, ArmBranchSound
<1>4. CASE i.op = "MRS" /\ ArmMrs(i)
  BY <1>0, <1>1, <1>4, ArmMrsSound
<1>5. CASE i.op = "MSR" /\ ArmMsr
  BY <1>0, <1>1, <1>5, ArmMsrSound
<1>6. CASE i.op = "DP" /\ ArmDataProcessing(i)
  BY <1>0, <1>1, <1>6, ArmDataProcessingSound
<1>7. CASE i.op \in {"LDM", "STM"} /\ ArmBlock(i)
  BY <1>0, <1>1, <1>7, ArmBlockSound
<1>8. CASE i.op = "UNKNOWN" /\ ArmUnknown
  <2>1. Continue(UnwInvalidateRegisterFile(regData), memData) /\ i.op = "UNKNOWN"
    BY <1>8 DEF ArmUnknown
  <2> QED
    BY <1>1, <2>1, UnknownSound
<1> QED
  BY <1>2, <1>3, <1>4, <1>5, <1>6, <1>7, <1>8 DEF UnwStartArm

(* The addresses of the memory are words.                                  *)
Addressed == DOMAIN mem \subseteq WordSet

(* The processor's memory stays a memory of words.                         *)
LEMMA StaysAddressed ==
  ASSUME Before, Addressed, NEW i, i \in ThumbInstruction \/ i \in ArmInstruction,
         Execute(i, image.data), ~Misread(i)
  PROVE  Addressed'
<1>1. DOMAIN image.data \subseteq WordSet
  BY ImageAssumption DEF Before
<1>2. ASSUME NEW rl, NEW mm, Does(rl, mm), DOMAIN mm \subseteq WordSet PROVE Addressed'
  BY <1>1, <1>2 DEF Does, Addressed
<1>3. IF i.op \in {"PUSH", "POP", "LDM", "STM"}
      THEN Does(Transfer(Block(i)).real, Transfer(Block(i)).mem) ELSE Does(Result(i), mem)
  BY ExecuteDoes DEF Misread
<1>4. CASE i.op = "PUSH"
  <2> DEFINE b == Block(i)
  <2>1. i \in ThumbInstruction
    BY <1>4 DEF ArmInstruction
  <2>2. /\ b.load = FALSE /\ b.base = 13 /\ b.p = TRUE /\ b.u = FALSE /\ b.w = TRUE
        /\ b.list = i.list \cup (IF i.lr THEN {14} ELSE {})
    BY <1>4, <2>1, PushBlock, Zenon
  <2>3. i.list \subseteq 0..7
    BY <1>4, <2>1, ThumbFields
  <2>4. b.list \subseteq Regs /\ b.base \in Regs
    BY <2>2, <2>3 DEF Regs
  <2>5. Transfer(b).mem = Stored(b)
    BY <2>2 DEF Transfer
  <2>6. Does(Transfer(b).real, Stored(b))
    BY <1>3, <1>4, <2>5
  <2> HIDE DEF b
  <2>7. DOMAIN Stored(b) = DOMAIN mem \cup {Place(b, r) : r \in b.list}
    BY DEF Stored
  <2>8. \A r \in b.list : Place(b, r) \in WordSet
    BY <2>4, LoadedFacts
  <2>9. DOMAIN Stored(b) \subseteq WordSet
    BY <2>7, <2>8 DEF Addressed
  <2> QED
    BY <1>2, <2>6, <2>9
<1>5. CASE i.op \in {"POP", "LDM"}
  <2>1. Block(i).load = TRUE
    BY <1>5 DEF Block
  <2>2. Transfer(Block(i)).mem = mem
    BY <2>1 DEF Transfer
  <2> QED
    BY <1>2, <1>3, <1>5, <2>2 DEF Addressed
<1>6. CASE i.op \notin {"PUSH", "POP", "LDM", "STM"}
  BY <1>2, <1>3, <1>6 DEF Addressed
<1>7. i.op # "STM"
  BY DEF Misread
<1> QED
  BY <1>4, <1>5, <1>6, <1>7

----------------------------------------------------------------------------
(* As long as it is not misled, the unwinder follows the processor.        *)
Knows ==
  /\ image \in Images
  /\ result = "RUNNING" /\ misled = {} => Follower /\ Addressed

Inv == FramesFit /\ Knows

(* At the start it does.                                                   *)
LEMMA StartsKnowing ==
  ASSUME Init PROVE Knows
<1>1. image \in Images /\ real = image.regs /\ mem = image.data /\ mode = ModeOf(image.regs[15])
      /\ misled = IF Valid(regData[14].o) THEN {"garbage"} ELSE {}
  BY DEF Init, UnwindStart
<1>2. PICK g \in Garbage : UnwInitState(image.regs[15], image.regs[13], g)
  BY DEF Init, UnwindStart
<1>3. /\ image.regs \in [Regs -> WordSet] /\ DOMAIN image.data \subseteq WordSet
      /\ \A a \in DOMAIN image.data : image.data[a] \in WordSet
  BY <1>1, ImageAssumption
<1> DEFINE ms == [r \in Regs |-> [v |-> g.v, o |-> g.o]]
           rs == UnwInvalidateRegisterFile(ms)
<1>4. regData = [rs EXCEPT ![13] = [v |-> image.regs[13], o |-> FromConst],
                           ![15] = [v |-> image.regs[15], o |-> FromConst]] /\ memData = EmptyHash
  BY <1>2 DEF UnwInitState
<1>5. rs = [r \in Regs |-> IF r < 13 THEN [v |-> g.v, o |-> {}] ELSE [v |-> g.v, o |-> g.o]]
  BY DEF UnwInvalidateRegisterFile
<1> HIDE DEF rs
<1>6. /\ regData = [r \in Regs |-> regData[r]]
      /\ \A r \in Regs : regData[r] = IF r = 13 THEN [v |-> image.regs[13], o |-> FromConst]
                                       ELSE IF r = 15 THEN [v |-> image.regs[15], o |-> FromConst]
                                       ELSE IF r < 13 THEN [v |-> g.v, o |-> {}] ELSE [v |-> g.v, o |-> g.o]
  <2> DEFINE sp == [v |-> image.regs[13], o |-> FromConst]
             pc == [v |-> image.regs[15], o |-> FromConst]
             low == [v |-> g.v, o |-> {}]
             high == [v |-> g.v, o |-> g.o]
  <2>1. /\ regData = [rs EXCEPT ![13] = sp, ![15] = pc]
        /\ rs = [r \in Regs |-> IF r < 13 THEN low ELSE high]
    BY <1>4, <1>5
  <2> HIDE DEF sp, pc, low, high
  <2>2. DOMAIN rs = Regs /\ \A r \in Regs : rs[r] = IF r < 13 THEN low ELSE high
    BY <2>1
  <2>3. /\ regData = [r \in Regs |-> regData[r]]
        /\ \A r \in Regs : regData[r] = IF r = 13 THEN sp ELSE IF r = 15 THEN pc ELSE rs[r]
    <3> DEFINE qs == [rs EXCEPT ![13] = sp]
    <3>1. regData = [qs EXCEPT ![15] = pc]
      BY <2>1
    <3>2. DOMAIN qs = Regs /\ \A r \in Regs : qs[r] = IF r = 13 THEN sp ELSE rs[r]
      BY <2>2
    <3>3. qs = [r \in Regs |-> qs[r]]
      BY <2>1
    <3> HIDE DEF qs
    <3>4. \A r \in Regs : regData[r] = IF r = 15 THEN pc ELSE qs[r]
      BY <3>1, <3>2
    <3>5. regData = [r \in Regs |-> regData[r]]
      BY <3>1, <3>3
    <3>6. 13 # 15
      OBVIOUS
    <3> QED
      BY <3>2, <3>4, <3>5, <3>6
  <2>4. \A r \in Regs : regData[r] = IF r = 13 THEN sp ELSE IF r = 15 THEN pc
                                     ELSE IF r < 13 THEN low ELSE high
    BY <2>2, <2>3
  <2> QED
    BY <2>3, <2>4 DEF sp, pc, low, high
<1>7. IsRegisters(regData)
  <2>1. \A r \in Regs : regData[r] = [v |-> regData[r].v, o |-> regData[r].o]
    BY <1>6
  <2> QED
    BY <1>6, <2>1 DEF IsRegisters
<1>8. ASSUME misled = {}, NEW r \in Regs, Valid(regData[r].o) PROVE regData[r].v = real[r]
  <2>1. r # 14
    BY <1>1, <1>8
  <2>2. ~(r < 13)
    BY <1>6, <1>8, Origins
  <2>3. r = 13 \/ r = 15
    BY <2>1, <2>2 DEF Regs
  <2> QED
    BY <1>1, <1>6, <2>3
<1>9. IsHash(EmptyHash) /\ ~Overran(EmptyHash) /\ ~Lost(EmptyHash)
  BY DEF EmptyHash, IsHash, Overran, Lost
<1>10. Agrees(image.data, EmptyHash, image.data)
  <2>1. \A a \in Nat : ~UnwMemHashRead(EmptyHash, a).found
    BY DEF UnwMemHashRead, EmptyHash
  <2>2. \A a \in DOMAIN image.data : image.data[a] = At(image.data, a)
    BY DEF At
  <2> QED
    BY <2>1, <2>2 DEF Agrees
<1>11. misled = {} => Follower
  BY <1>1, <1>3, <1>4, <1>7, <1>8, <1>9, <1>10 DEF Follower, Follows, Words
<1>12. Addressed
  BY <1>1, <1>3 DEF Addressed
<1> QED
  BY <1>1, <1>11, <1>12 DEF Knows

(* An instruction is interpreted without being misled.                     *)
LEMMA StepSound ==
  ASSUME Inv, NEW i \in image.instrs[mode], Interpret(i), misled' = {}
  PROVE  Sound /\ Addressed'
<1>1. /\ misled = {} /\ ~Misread(i)
      /\ ~Overran(memData') /\ ~Lost(memData') /\ ~Stale(memData', regData'[13].v)
  BY DEF Interpret
<1>2. Execute(i, image.data) /\ (UnwStartThumb(i) \/ UnwStartArm(i))
  BY DEF Interpret
<1>3. result = "RUNNING" /\ Interpretable /\ image' = image
  BY <1>2 DEF UnwStartThumb, UnwStartArm, Running, Fetch
<1>4. Follower /\ Addressed /\ image \in Images
  BY <1>1, <1>3 DEF Inv, Knows
<1>5. Before
  BY <1>3, <1>4 DEF Before, Inv, FramesFit
<1>6. Led
  BY <1>1, <1>3 DEF Led
<1>7. CASE UnwStartThumb(i)
  <2>1. i \in ThumbInstruction
    BY <1>4, <1>7, ImageAssumption DEF UnwStartThumb, Running
  <2> QED
    BY <1>1, <1>2, <1>4, <1>5, <1>6, <1>7, <2>1, ThumbSound, StaysAddressed
<1>8. CASE UnwStartArm(i)
  <2>1. i \in ArmInstruction
    BY <1>4, <1>8, ImageAssumption DEF UnwStartArm, Running
  <2> QED
    BY <1>1, <1>2, <1>4, <1>5, <1>6, <1>8, <2>1, ArmSound, StaysAddressed
<1> QED
  BY <1>2, <1>7, <1>8

(* What it knows it keeps, whatever it does.                               *)
LEMMA KeepsKnowing ==
  ASSUME Inv, [Next]_vars PROVE Knows'
<1>1. CASE UNCHANGED vars
  BY <1>1 DEF vars, unwVars, Inv, Knows, Follower, Follows, Addressed
<1>2. CASE Next
  <2>1. ASSUME NEW i \in image.instrs[mode], Interpret(i) PROVE Knows'
    <3>1. image' = image
      BY <2>1 DEF Interpret, UnwStartThumb, UnwStartArm, Fetch
    <3>2. result' = "RUNNING" /\ misled' = {} => Follower' /\ Addressed'
      BY <2>1, StepSound DEF Sound
    <3> QED
      BY <3>1, <3>2 DEF Inv, Knows
  <2>2. CASE GiveUp
    <3>1. result' # "RUNNING" /\ image' = image
      BY <2>2 DEF GiveUp, CannotInterpret, Stop
    <3> QED
      BY <3>1 DEF Inv, Knows
  <2> QED
    BY <1>2, <2>1, <2>2 DEF Next
<1> QED
  BY <1>1, <1>2

(* Both parts hold in all states: the unwinder ends, and it follows.       *)
LEMMA InvHolds == Spec => []Inv
<1>1. Init => Knows
  BY StartsKnowing
<1>2. FramesFit /\ Knows /\ [Next]_vars => Knows'
  BY KeepsKnowing DEF Inv
<1> QED
  BY <1>1, <1>2, FramesAlwaysFit, PTL DEF Spec, Inv

(* TrackedIsTrue of Unwarminder: as long as it is not misled, the register *)
(* values the unwinder goes by, those that unwarm_thumb.c and unwarm_arm.c *)
(* give an origin, are those of the processor, whatever the code and the   *)
(* stack are.                                                              *)
THEOREM TrackedRegistersAreTrue == Spec => []TrackedIsTrue
<1>1. Inv => TrackedIsTrue
  BY DEF Inv, Knows, Follower, Follows, TrackedIsTrue, Tracked
<1> QED
  BY <1>1, InvHolds, PTL

(* StackIsTrue: a word that UnwMemReadRegister finds, in the hash of       *)
(* unwarmmem.c or in the process, and that is tracked is the processor's.  *)
THEOREM TrackedWordsAreTrue == Spec => []StackIsTrue
<1>1. ASSUME Inv PROVE StackIsTrue
  <2> SUFFICES ASSUME result = "RUNNING", misled = {}, Tracked(13),
                      NEW a \in DOMAIN mem \cup {memData.a[c] : c \in memData.used}
               PROVE  UnwMemReadRegister(memData, a).ok /\ Valid(UnwMemReadRegister(memData, a).o)
                        => UnwMemReadRegister(memData, a).v = Load(a)
    BY DEF StackIsTrue
  <2>1. Addressed /\ IsHash(memData) /\ Agrees(image.data, memData, mem)
    BY <1>1 DEF Inv, Knows, Follower, Follows, Tracked
  <2>2. a \in Nat
    <3>1. \A c \in memData.used : memData.a[c] \in Nat
      BY <2>1 DEF IsHash
    <3>2. WordSet \subseteq Nat
      BY WordFacts
    <3> QED
      BY <2>1, <3>1, <3>2 DEF Addressed
  <2>3. At(mem, a) = Load(a)
    BY DEF At, Load
  <2> QED
    BY <2>1, <2>2, <2>3, MemoryAgrees
<1> QED
  BY <1>1, InvHolds, PTL

(* ReportsAreReturns: the addresses that UnwReportRetAddr passes on fit in *)
(* the client's array, and are those that the processor returns to.        *)
THEOREM ReportedAddressesAreReturns == Spec => ReportsAreReturns
<1>1. ASSUME Inv, FramesFit', Next, frames' # frames
      PROVE  Len(frames') <= MaxFrames /\ (misled' = {} => Last(frames') = real'[15])
  <2>1. Len(frames') <= MaxFrames
    BY <1>1 DEF FramesFit
  <2>2. ASSUME NEW i \in image.instrs[mode], Interpret(i), misled' = {} PROVE Last(frames') = real'[15]
    BY <1>1, <2>2, StepSound DEF Sound
  <2>3. ~GiveUp
    BY <1>1 DEF GiveUp, CannotInterpret
  <2> QED
    BY <1>1, <2>1, <2>2, <2>3 DEF Next
<1>2. Inv /\ FramesFit' /\ [Next]_vars =>
        [frames' # frames => /\ Len(frames') <= MaxFrames
                             /\ misled' = {} => Last(frames') = real'[15]]_vars
  BY <1>1
<1> QED
  BY <1>2, InvHolds, FramesAlwaysFit, PTL DEF Spec, ReportsAreReturns

=============================================================================
