-------------------------- MODULE ReportSlotsProofs --------------------------
(***************************************************************************)
(* Proofs about ReportSlots for every number of slots, handlers, crashes   *)
(* and failures, under any core_pipe_limit.                                *)
(***************************************************************************)
EXTENDS ReportSlots, FunctionTheorems, FiniteSetTheorems, TLAPS

(* A handler that still looks for a slot. *)
Searching == {"mkdir", "stat", "create"}

(* Where the loop variable is. *)
LoopInv ==
  \A h \in Handlers :
    /\ pc[h] = "mkdir" => i[h] = 0
    /\ pc[h] \in {"mkdir", "stat", "create"} => i[h] \in Slots
    /\ pc[h] = "overflow" => i[h] = Overflow

(* Every handler at work has a crash of its own, numbered up to crashes. *)
CrashInv ==
  /\ crashes \in 0..MaxCrashes
  /\ \A h \in Handlers : pc[h] # "idle" => crash[h] \in 1..crashes
  /\ \A g, h \in Handlers :
       pc[g] # "idle" /\ pc[h] # "idle" /\ crash[g] = crash[h] => g = h

(* A numbered report belongs to the crash its handler created it for; a    *)
(* handler has it open only if that is its crash, and a handler that still *)
(* searches has created none.                                              *)
OwnerInv ==
  /\ \A s \in Slots : creator[s] = NoFile \/ creator[s] \in 1..crashes
  /\ \A s \in Slots : content[s] \subseteq {creator[s]}
  /\ \A s \in Slots : creator[s] = NoFile => content[s] = {}
  /\ \A h \in Handlers : fd[h] # NoFile => pc[h] \in {"report", "close"}
  /\ \A h \in Handlers : fd[h] \in Slots => creator[fd[h]] = crash[h]
  /\ \A h \in Handlers : pc[h] \in Searching =>
       \A s \in Slots : creator[s] # crash[h]

SlotInv == TypeOK /\ LoopInv /\ CrashInv /\ OwnerInv

(* The slots and the overflow report are different files. *)
LEMMA PathFacts ==
  /\ Paths = 0..MaxReports
  /\ Overflow \notin Slots /\ NoFile \notin Paths /\ NoFile \notin Nat
  /\ 0 \in Slots
BY ReportAssumption DEF Paths, Slots, Overflow, NoFile

(* The invariant holds at the start. *)
LEMMA SlotInvInit == Init => SlotInv
<1> SUFFICES ASSUME Init PROVE SlotInv
  OBVIOUS
<1>1. TypeOK
  <2>1. 0 \in Paths /\ 0 \in Slots
    BY PathFacts DEF Paths
  <2>2. /\ dir \in BOOLEAN
        /\ creator \in [Paths -> Nat \cup {NoFile}]
        /\ mtime \in [Paths -> Nat]
    BY DEF Init
  <2>4. content \in [Paths -> SUBSET Nat]
    BY DEF Init
  <2>5. pc \in [Handlers -> Steps]
    BY DEF Init, Steps
  <2>6. /\ crash \in [Handlers -> Nat \cup {NoFile}]
        /\ fd \in [Handlers -> Paths \cup {NoFile}]
    BY DEF Init
  <2>7. {now, crashes, faults} \subseteq Nat /\ done \subseteq Nat
    BY DEF Init
  <2>3. /\ i \in [Handlers -> Paths]
        /\ oldest \in [Handlers -> Slots]
        /\ mt \in [Handlers -> Nat \cup {-1}]
        /\ tsNum \in [Handlers -> Slots]
    BY <2>1 DEF Init
  <2> QED
    BY <2>2, <2>3, <2>4, <2>5, <2>6, <2>7 DEF TypeOK
<1>2. LoopInv /\ CrashInv
  BY LimitAssumption DEF Init, LoopInv, CrashInv
<1>3. OwnerInv
  BY PathFacts DEF Init, OwnerInv, Searching, Paths
<1> QED
  BY <1>1, <1>2, <1>3 DEF SlotInv

(* Going on with the loop keeps the loop variable where it should be. *)
LEMMA NextSlotKeeps ==
  ASSUME SlotInv, NEW h \in Handlers, pc[h] \in {"stat", "create"}, NextSlot(h)
  PROVE  /\ pc' \in [Handlers -> Steps]
         /\ i' \in [Handlers -> Paths]
         /\ LoopInv'
         /\ \A g \in Handlers : g # h => pc'[g] = pc[g]
         /\ pc'[h] \in {"stat", "overflow"}
<1>1. i[h] \in Slots /\ pc \in [Handlers -> Steps] /\ i \in [Handlers -> Paths]
  BY DEF SlotInv, LoopInv, TypeOK
<1>2. i[h] + 1 \in Paths /\ (i[h] + 1 < MaxReports => i[h] + 1 \in Slots)
      /\ (~(i[h] + 1 < MaxReports) => i[h] + 1 = Overflow)
  BY <1>1, ReportAssumption DEF Slots, Paths, Overflow
<1>3. i' \in [Handlers -> Paths] /\ i' = [i EXCEPT ![h] = i[h] + 1]
  BY <1>1, <1>2 DEF NextSlot
<1>4. /\ pc' \in [Handlers -> Steps]
      /\ \A g \in Handlers : g # h => pc'[g] = pc[g]
      /\ pc'[h] = IF i[h] + 1 < MaxReports THEN "stat" ELSE "overflow"
  BY <1>1 DEF NextSlot, Steps
<1>5. LoopInv'
  <2> SUFFICES ASSUME NEW g \in Handlers
               PROVE  /\ pc'[g] = "mkdir" => i'[g] = 0
                      /\ pc'[g] \in {"mkdir", "stat", "create"} => i'[g] \in Slots
                      /\ pc'[g] = "overflow" => i'[g] = Overflow
    BY DEF LoopInv
  <2>1. CASE g = h
    BY <1>1, <1>2, <1>3, <1>4, <2>1
  <2>2. CASE g # h
    BY <1>1, <1>3, <1>4, <2>2 DEF SlotInv, LoopInv
  <2> QED
    BY <2>1, <2>2
<1> QED
  BY <1>3, <1>4, <1>5

(* A step of h that touches no file, keeps h without a descriptor and does *)
(* not bring it back to the search keeps the reports with their owners.    *)
LEMMA SearchKeeps ==
  ASSUME SlotInv, NEW h \in Handlers, pc[h] \in Searching,
         pc'[h] \in Searching \cup {"overflow"},
         \A g \in Handlers : g # h => pc'[g] = pc[g],
         UNCHANGED << creator, content, crash, fd, crashes >>
  PROVE  CrashInv' /\ OwnerInv'
<1>1. CrashInv'
  BY DEF SlotInv, CrashInv, Searching
<1>2. OwnerInv'
  BY DEF SlotInv, OwnerInv, Searching
<1> QED
  BY <1>1, <1>2

(* Every step keeps the invariant. *)
LEMMA SlotInvStep == SlotInv /\ [Next]_vars => SlotInv'
<1> SUFFICES ASSUME SlotInv, [Next]_vars PROVE SlotInv'
  OBVIOUS
<1>1. ASSUME NEW h \in Handlers, StartHandler(h)
      PROVE  SlotInv'
  <2>1. TypeOK'
    <3>1. /\ crashes' \in Nat /\ crash' \in [Handlers -> Nat \cup {NoFile}]
          /\ pc' \in [Handlers -> Steps]
      BY <1>1 DEF StartHandler, SlotInv, TypeOK, Steps
    <3>2. /\ i' \in [Handlers -> Paths] /\ oldest' \in [Handlers -> Slots]
          /\ mt' \in [Handlers -> Nat \cup {-1}] /\ tsNum' \in [Handlers -> Slots]
          /\ fd' \in [Handlers -> Paths \cup {NoFile}]
      BY <1>1, PathFacts DEF StartHandler, SlotInv, TypeOK, Paths
    <3> QED
      BY <1>1, <3>1, <3>2 DEF StartHandler, SlotInv, TypeOK, fileVars
  <2>2. LoopInv'
    BY <1>1, PathFacts DEF StartHandler, SlotInv, TypeOK, LoopInv
  <2>3. CrashInv'
    <3>1. crashes' = crashes + 1 /\ crashes' \in 0..MaxCrashes
      BY <1>1, LimitAssumption DEF StartHandler, SlotInv, CrashInv
    <3>2. \A g \in Handlers : pc'[g] # "idle" =>
            crash'[g] = IF g = h THEN crashes + 1 ELSE crash[g]
      BY <1>1 DEF StartHandler, SlotInv, TypeOK
    <3>3. \A g \in Handlers : g # h => pc'[g] = pc[g]
      BY <1>1 DEF StartHandler, SlotInv, TypeOK
    <3> QED
      BY <3>1, <3>2, <3>3 DEF SlotInv, CrashInv
  <2>4. OwnerInv'
    <3>1. \A g \in Handlers : /\ pc'[g] = IF g = h THEN "mkdir" ELSE pc[g]
                              /\ fd'[g] = IF g = h THEN NoFile ELSE fd[g]
                              /\ crash'[g] = IF g = h THEN crashes + 1 ELSE crash[g]
      BY <1>1 DEF StartHandler, SlotInv, TypeOK
    <3>2. UNCHANGED << creator, content >> /\ crashes' = crashes + 1 /\ crashes \in Nat
      BY <1>1 DEF StartHandler, SlotInv, TypeOK, fileVars
    <3>3. \A s \in Slots : creator[s] # crashes + 1
      BY <3>2, PathFacts DEF SlotInv, OwnerInv
    <3>4. \A s \in Slots : creator'[s] = NoFile \/ creator'[s] \in 1..crashes'
      BY <3>2 DEF SlotInv, OwnerInv
    <3> QED
      BY <3>1, <3>2, <3>3, <3>4, PathFacts DEF SlotInv, OwnerInv, Searching, Slots
  <2> QED
    BY <2>1, <2>2, <2>3, <2>4 DEF SlotInv
<1>2. ASSUME NEW h \in Handlers, MakeDir(h) \/ StatAbsent(h)
      PROVE  SlotInv'
  <2>1. TypeOK'
    <3>1. CASE MakeDir(h)
      <4>1. dir' \in BOOLEAN
        BY <3>1 DEF MakeDir, SlotInv, TypeOK
      <4>2. faults' \in Nat
        BY <3>1 DEF MakeDir, Fault, SlotInv, TypeOK
      <4> QED
        BY <3>1, <4>1, <4>2 DEF MakeDir, SlotInv, TypeOK, Steps, locals
    <3>2. CASE StatAbsent(h)
      <4>1. i[h] \in Slots /\ tsNum' \in [Handlers -> Slots]
        BY <3>2 DEF StatAbsent, SlotInv, LoopInv, TypeOK
      <4> QED
        BY <3>2, <4>1 DEF StatAbsent, SlotInv, TypeOK, Steps, fileVars
    <3> QED
      BY <1>2, <3>1, <3>2
  <2>2. LoopInv'
    BY <1>2 DEF MakeDir, StatAbsent, SlotInv, TypeOK, LoopInv, locals
  <2>3. CrashInv' /\ OwnerInv'
    BY <1>2, SearchKeeps DEF MakeDir, StatAbsent, Searching, SlotInv, TypeOK, fileVars
  <2> QED
    BY <2>1, <2>2, <2>3 DEF SlotInv
<1>3. ASSUME NEW h \in Handlers, StatFound(h) \/ StatFails(h) \/ CreateFails(h)
      PROVE  SlotInv'
  <2>1. /\ pc[h] \in {"stat", "create"} /\ NextSlot(h)
        /\ UNCHANGED << dir, creator, content, mtime, crash, fd, now, crashes, done >>
    BY <1>3 DEF StatFound, StatFails, CreateFails, fileVars
  <2>2. /\ pc' \in [Handlers -> Steps] /\ i' \in [Handlers -> Paths] /\ LoopInv'
        /\ \A g \in Handlers : g # h => pc'[g] = pc[g]
        /\ pc'[h] \in {"stat", "overflow"}
    BY <2>1, NextSlotKeeps
  <2>3. /\ i[h] \in Slots /\ i[h] \in Paths /\ mtime[i[h]] \in Nat
    BY <2>1 DEF SlotInv, LoopInv, TypeOK
  <2>4. /\ oldest' \in [Handlers -> Slots] /\ mt' \in [Handlers -> Nat \cup {-1}]
        /\ tsNum' \in [Handlers -> Slots] /\ faults' \in Nat
    BY <1>3, <2>3 DEF StatFound, StatFails, CreateFails, Fault, SlotInv, TypeOK
  <2>5. TypeOK'
    BY <2>1, <2>2, <2>4 DEF SlotInv, TypeOK
  <2>6. CrashInv' /\ OwnerInv'
    BY <2>1, <2>2, SearchKeeps DEF Searching
  <2> QED
    BY <2>2, <2>5, <2>6 DEF SlotInv
<1>4. ASSUME NEW h \in Handlers, NEW p \in Paths, OpensReport(h, p),
             pc[h] # "idle",
             tsNum' \in [Handlers -> Slots],
             UNCHANGED << dir, crash, i, oldest, mt, now, crashes, done, faults >>,
             p \in Slots => creator[p] = NoFile /\ pc[h] \in Searching
      PROVE  SlotInv'
  <2>1. crash[h] \in Nat /\ crash[h] \in 1..crashes
    BY <1>4 DEF SlotInv, CrashInv
  <2>2. TypeOK'
    BY <1>4, <2>1 DEF OpensReport, SlotInv, TypeOK, Steps
  <2>3. LoopInv'
    BY <1>4 DEF OpensReport, SlotInv, TypeOK, LoopInv
  <2>4. \A g \in Handlers : /\ pc'[g] = IF g = h THEN "report" ELSE pc[g]
                            /\ fd'[g] = IF g = h THEN p ELSE fd[g]
    BY <1>4 DEF OpensReport, SlotInv, TypeOK
  <2>5. \A s \in Paths : /\ creator'[s] = IF s = p THEN crash[h] ELSE creator[s]
                         /\ content'[s] = IF s = p THEN {} ELSE content[s]
    BY <1>4 DEF OpensReport, SlotInv, TypeOK
  <2>6. CrashInv'
    BY <1>4, <2>4 DEF SlotInv, CrashInv
  <2>7. OwnerInv'
    <3>1. /\ \A s \in Slots : creator'[s] = NoFile \/ creator'[s] \in 1..crashes
          /\ \A s \in Slots : content'[s] \subseteq {creator'[s]}
          /\ \A s \in Slots : creator'[s] = NoFile => content'[s] = {}
      BY <1>4, <2>1, <2>5 DEF SlotInv, OwnerInv, Paths
    <3>2. \A g \in Handlers : fd'[g] # NoFile => pc'[g] \in {"report", "close"}
      BY <2>4 DEF SlotInv, OwnerInv
    <3>3. ASSUME NEW g \in Handlers, fd'[g] \in Slots
          PROVE  creator'[fd'[g]] = crash[g]
      <4>1. CASE g = h
        BY <1>4, <2>4, <2>5, <4>1
      <4>2. CASE g # h
        <5>1. fd'[g] = fd[g] /\ creator[fd[g]] = crash[g]
          BY <2>4, <3>3, <4>2 DEF SlotInv, OwnerInv
        <5>2. pc[g] # "idle"
          BY <3>3, <5>1, PathFacts DEF SlotInv, OwnerInv, Slots, NoFile
        <5>3. fd[g] # p
          <6>1. SUFFICES ASSUME fd[g] = p PROVE FALSE
            OBVIOUS
          <6>2. creator[p] = NoFile /\ creator[p] = crash[g]
            BY <1>4, <3>3, <5>1, <6>1
          <6>3. crash[g] \in 1..crashes
            BY <5>2 DEF SlotInv, CrashInv
          <6> QED
            BY <6>2, <6>3, PathFacts
        <5> QED
          BY <2>5, <3>3, <5>1, <5>3 DEF Paths
      <4> QED
        BY <4>1, <4>2
    <3>4. ASSUME NEW g \in Handlers, pc'[g] \in Searching, NEW s \in Slots
          PROVE  creator'[s] # crash[g]
      <4>1. g # h /\ pc[g] \in Searching
        BY <2>4, <3>4 DEF Searching
      <4>2. crash[g] # crash[h]
        BY <1>4, <4>1 DEF SlotInv, CrashInv, Searching
      <4> QED
        BY <2>5, <4>1, <4>2 DEF SlotInv, OwnerInv, Paths
    <3> QED
      BY <1>4, <3>1, <3>2, <3>3, <3>4 DEF OwnerInv
  <2> QED
    BY <2>2, <2>3, <2>6, <2>7 DEF SlotInv
<1>5. ASSUME NEW h \in Handlers, CreateReport(h)
      PROVE  SlotInv'
  <2>1. i[h] \in Slots /\ i[h] \in Paths /\ creator[i[h]] = NoFile
    BY <1>5 DEF CreateReport, Exists, SlotInv, LoopInv, Paths
  <2> QED
    BY <1>4, <1>5, <2>1 DEF CreateReport, locals, Searching, SlotInv, TypeOK
<1>6. ASSUME NEW h \in Handlers, OpenOverflow(h)
      PROVE  SlotInv'
  <2>1. i[h] = Overflow /\ i[h] \in Paths /\ i[h] \notin Slots
    BY <1>6, PathFacts DEF OpenOverflow, SlotInv, LoopInv, Paths
  <2>2. tsNum' \in [Handlers -> Slots]
    BY <1>6 DEF OpenOverflow, SlotInv, TypeOK
  <2> QED
    BY <1>4, <1>6, <2>1, <2>2 DEF OpenOverflow
<1>7. ASSUME NEW h \in Handlers, OverflowFails(h)
      PROVE  SlotInv'
  <2>1. TypeOK'
    BY <1>7 DEF OverflowFails, Fault, SlotInv, TypeOK, Steps, fileVars
  <2>2. LoopInv' /\ CrashInv'
    BY <1>7 DEF OverflowFails, SlotInv, TypeOK, LoopInv, CrashInv
  <2>3. OwnerInv'
    BY <1>7, PathFacts DEF OverflowFails, SlotInv, TypeOK, OwnerInv, Searching, fileVars, Paths
  <2> QED
    BY <2>1, <2>2, <2>3 DEF SlotInv
<1>8. ASSUME NEW h \in Handlers, WriteReport(h)
      PROVE  SlotInv'
  <2>1. crash[h] \in Nat /\ now \in Nat
    BY <1>8 DEF WriteReport, SlotInv, CrashInv, TypeOK
  <2>2. content' \in [Paths -> SUBSET Nat] /\ mtime' \in [Paths -> Nat]
    BY <1>8, <2>1 DEF WriteReport, SlotInv, TypeOK
  <2>3. TypeOK'
    BY <1>8, <2>2 DEF WriteReport, SlotInv, TypeOK, Steps, locals
  <2>4. LoopInv' /\ CrashInv'
    BY <1>8 DEF WriteReport, SlotInv, TypeOK, LoopInv, CrashInv, locals
  <2>5. \A s \in Slots : content'[s] = content[s] \/
                         (fd[h] = s /\ content'[s] = content[s] \cup {crash[h]})
    BY <1>8 DEF WriteReport, SlotInv, TypeOK, Paths
  <2>6. \A s \in Slots : /\ content'[s] \subseteq {creator[s]}
                         /\ creator[s] = NoFile => content'[s] = {}
    <3>1. crash[h] # NoFile
      BY <2>1, PathFacts
    <3>2. \A s \in Slots : fd[h] = s => creator[s] = crash[h]
      BY DEF SlotInv, OwnerInv
    <3> QED
      BY <2>5, <3>1, <3>2 DEF SlotInv, OwnerInv
  <2>7. OwnerInv'
    BY <1>8, <2>6 DEF WriteReport, SlotInv, TypeOK, OwnerInv, Searching
  <2> QED
    BY <2>3, <2>4, <2>7 DEF SlotInv
<1>9. ASSUME NEW h \in Handlers, CloseReport(h) \/ Kill(h)
      PROVE  SlotInv'
  <2>1. /\ pc[h] # "idle" /\ pc' = [pc EXCEPT ![h] = "idle"]
        /\ fd' = [fd EXCEPT ![h] = NoFile]
        /\ UNCHANGED << dir, creator, content, mtime, crash, i, oldest, mt, tsNum,
                        now, crashes >>
    BY <1>9 DEF CloseReport, Kill, fileVars, locals
  <2>2. done' \subseteq Nat /\ faults' \in Nat
    <3>1. crash[h] \in Nat
      BY <2>1 DEF SlotInv, CrashInv
    <3>2. CASE CloseReport(h)
      <4>1. done' = done \cup {crash[h]} /\ done \subseteq Nat
        BY <3>2 DEF CloseReport, SlotInv, TypeOK
      <4>2. faults' \in Nat
        BY <3>2 DEF CloseReport, SlotInv, TypeOK
      <4> QED
        BY <3>1, <4>1, <4>2
    <3>3. CASE Kill(h)
      BY <3>3 DEF Kill, Fault, SlotInv, TypeOK
    <3> QED
      BY <1>9, <3>2, <3>3
  <2>3. TypeOK'
    BY <2>1, <2>2 DEF SlotInv, TypeOK, Steps
  <2>4. LoopInv' /\ CrashInv'
    BY <2>1 DEF SlotInv, TypeOK, LoopInv, CrashInv
  <2>5. OwnerInv'
    BY <2>1, PathFacts DEF SlotInv, TypeOK, OwnerInv, Searching, Paths
  <2> QED
    BY <2>3, <2>4, <2>5 DEF SlotInv
<1>10. CASE Tick
  <2>1. TypeOK'
    BY <1>10 DEF Tick, SlotInv, TypeOK, fileVars, locals
  <2> QED
    BY <1>10, <2>1 DEF Tick, SlotInv, LoopInv, CrashInv, OwnerInv, fileVars, locals
<1>11. CASE UNCHANGED vars
  BY <1>11 DEF vars, SlotInv, TypeOK, LoopInv, CrashInv, OwnerInv
<1> QED
  BY <1>1, <1>2, <1>3, <1>5, <1>6, <1>7, <1>8, <1>9, <1>10, <1>11 DEF Next, HandlerStep

(* The invariant, always. *)
LEMMA SlotInvAlways == Spec => []SlotInv
BY SlotInvInit, SlotInvStep, PTL DEF Spec

(* Every variable has its type, in particular the loop variable never      *)
(* leaves the slots and the one path after them.                           *)
THEOREM TypeCorrect == Spec => []TypeOK
<1>1. SlotInv => TypeOK
  BY DEF SlotInv
<1> QED
  BY <1>1, SlotInvAlways, PTL

(* However many handlers look for a slot at once, and whatever fails, no   *)
(* two write to one numbered report and each report is one crash's.        *)
THEOREM SlotsExclusive == Spec => []SlotsAreExclusive
<1>1. SlotInv => SlotsAreExclusive
  <2> SUFFICES ASSUME SlotInv PROVE SlotsAreExclusive
    OBVIOUS
  <2>1. ASSUME NEW g \in Handlers, NEW h \in Handlers, fd[g] \in Slots, fd[g] = fd[h]
        PROVE  g = h
    <3>1. fd[g] # NoFile /\ fd[h] # NoFile
      BY <2>1, PathFacts DEF Slots, NoFile
    <3>2. crash[g] = crash[h] /\ pc[g] # "idle" /\ pc[h] # "idle"
      BY <2>1, <3>1 DEF SlotInv, OwnerInv
    <3> QED
      BY <3>2 DEF SlotInv, CrashInv
  <2> QED
    BY <2>1 DEF SlotsAreExclusive, SlotInv, OwnerInv
<1> QED
  BY <1>1, SlotInvAlways, PTL

(* What a step does to the numbered reports: nothing, or it creates one    *)
(* for the crash of a searching handler, or it adds to one.                *)
LEMMA SlotStep ==
  ASSUME SlotInv, [Next]_vars
  PROVE  \/ UNCHANGED creator /\ \A p \in Paths : content[p] \subseteq content'[p]
         \/ \E h \in Handlers : CreateReport(h)
         \/ \E h \in Handlers : OpenOverflow(h)
<1>1. ASSUME NEW h \in Handlers, WriteReport(h)
      PROVE  UNCHANGED creator /\ \A p \in Paths : content[p] \subseteq content'[p]
  BY <1>1 DEF WriteReport, SlotInv, TypeOK
<1>2. ASSUME NEW h \in Handlers,
             \/ StartHandler(h) \/ MakeDir(h) \/ StatFound(h) \/ StatAbsent(h)
             \/ StatFails(h) \/ CreateFails(h) \/ OverflowFails(h)
             \/ CloseReport(h) \/ Kill(h)
      PROVE  UNCHANGED << creator, content >>
  BY <1>2 DEF StartHandler, MakeDir, StatFound, StatAbsent, StatFails, CreateFails,
              OverflowFails, CloseReport, Kill, fileVars
<1>3. Tick \/ UNCHANGED vars => UNCHANGED << creator, content >>
  BY DEF Tick, vars, fileVars
<1> QED
  BY <1>1, <1>2, <1>3 DEF Next, HandlerStep

(* However the handlers interleave and whatever fails, a handler that      *)
(* still searches takes no report from another crash: what is there is     *)
(* neither emptied nor given away while a slot is free.                    *)
THEOREM ReportsStay == Spec => ReportsAreKept
<1>1. ASSUME SlotInv, [Next]_vars, NEW s \in Slots, Exists(s) PROVE Kept(s)
  <2>1. CASE UNCHANGED creator /\ \A p \in Paths : content[p] \subseteq content'[p]
    BY <1>1, <2>1 DEF Kept, Paths
  <2>2. ASSUME NEW h \in Handlers, CreateReport(h) PROVE Kept(s)
    BY <1>1, <2>2 DEF Kept, CreateReport, OpensReport, Exists, SlotInv, TypeOK, Paths
  <2>3. ASSUME NEW h \in Handlers, OpenOverflow(h) PROVE Kept(s)
    <3>1. i[h] \notin Slots
      BY <1>1, <2>3, PathFacts DEF OpenOverflow, SlotInv, LoopInv
    <3> QED
      BY <1>1, <2>3, <3>1 DEF Kept, OpenOverflow, OpensReport, SlotInv, TypeOK, Paths
  <2> QED
    BY <1>1, <2>1, <2>2, <2>3, SlotStep
<1> DEFINE ByLoopEnd ==
      \A s \in Slots : Exists(s) /\ ~Kept(s) =>
        /\ \E h \in Handlers : pc[h] = "overflow" /\ pc'[h] = "report"
        /\ faults = 0 => \A t \in Slots : Exists(t)
<1>2. SlotInv /\ [Next]_vars => [ByLoopEnd]_vars
  BY <1>1
<1>3. Spec => [][ByLoopEnd]_vars
  BY <1>2, SlotInvAlways, PTL DEF Spec
<1> QED
  BY <1>3 DEF ReportsAreKept

(* The numbered reports implement the claims: a slot is claimed by one     *)
(* crash, a crash claims at most one slot, and no claim is given up while  *)
(* there is a slot without one.                                            *)
THEOREM SlotsAreClaims == Spec => ImplementsClaims
<1>1. Init => Claims!Init
  BY DEF Init, Claims!Init, Paths
<1>2. ASSUME SlotInv, [Next]_vars
      PROVE  [Claims!Next]_([s \in Slots |-> creator[s]])
  <2>1. CASE UNCHANGED creator
    BY <2>1
  <2>2. ASSUME NEW h \in Handlers, CreateReport(h) PROVE Claims!Next
    <3>1. i[h] \in Slots /\ creator[i[h]] = NoFile
      BY <1>2, <2>2 DEF CreateReport, Exists, SlotInv, LoopInv
    <3>2. crash[h] \in 1..MaxCrashes
      BY <1>2, <2>2, LimitAssumption DEF CreateReport, SlotInv, CrashInv
    <3>3. \A t \in Slots : creator[t] # crash[h]
      BY <1>2, <2>2 DEF CreateReport, SlotInv, OwnerInv, Searching
    <3>4. \A t \in Slots : creator'[t] = IF t = i[h] THEN crash[h] ELSE creator[t]
      BY <1>2, <2>2 DEF CreateReport, OpensReport, SlotInv, TypeOK, Paths
    <3> QED
      BY <3>1, <3>2, <3>3, <3>4 DEF Claims!Next, Claims!Claim, Claims!Holds
  <2>3. ASSUME NEW h \in Handlers, OpenOverflow(h)
        PROVE  UNCHANGED [s \in Slots |-> creator[s]]
    <3>1. i[h] \notin Slots
      BY <1>2, <2>3, PathFacts DEF OpenOverflow, SlotInv, LoopInv
    <3> QED
      BY <1>2, <2>3, <3>1 DEF OpenOverflow, OpensReport, SlotInv, TypeOK, Paths
  <2> QED
    BY <1>2, <2>1, <2>2, <2>3, SlotStep
<1> QED
  BY <1>1, <1>2, SlotInvAlways, PTL DEF Spec, ImplementsClaims, Claims!Spec

----------------------------------------------------------------------------
(***************************************************************************)
(* The first crashes are reported.                                         *)
(***************************************************************************)

(* No crash has two numbered reports, and a handler that came past the     *)
(* last slot has none.                                                     *)
OneEach ==
  /\ \A s, t \in Slots : creator[s] = creator[t] /\ creator[s] # NoFile => s = t
  /\ \A h \in Handlers : pc[h] = "overflow" => \A s \in Slots : creator[s] # crash[h]

(* While nothing failed, a handler passed over the slots that were taken.  *)
PassedTaken ==
  faults = 0 => \A h \in Handlers : pc[h] \in {"stat", "create", "overflow"} =>
                  dir /\ \A s \in Slots : s < i[h] => Exists(s)

(* While nothing failed and there are slots enough, a handler that         *)
(* reports has a numbered report open, and so had those that are done.     *)
HasReport ==
  faults = 0 /\ crashes <= MaxReports =>
    /\ \A h \in Handlers : pc[h] \in {"report", "close"} => fd[h] \in Slots
    /\ \A h \in Handlers : pc[h] = "close" => content[fd[h]] = {crash[h]}
    /\ \A c \in done : \E s \in Slots : content[s] = {c}

ReportedInv == SlotInv /\ OneEach /\ PassedTaken /\ HasReport

(* What each step does to a handler that searches: it passes over a slot,  *)
(* or its search has not moved.                                            *)
LEMMA SearchStep ==
  ASSUME SlotInv, [Next]_vars, NEW h \in Handlers,
         pc'[h] \in {"stat", "create", "overflow"}
  PROVE  /\ crash'[h] = crash[h]
         /\ \/ pc[h] = "mkdir" /\ MakeDir(h) /\ i'[h] = i[h]
            \/ pc[h] \in {"stat", "create"} /\ i'[h] = i[h] + 1
               /\ (StatFound(h) \/ StatFails(h) \/ CreateFails(h))
            \/ pc[h] \in {"stat", "create", "overflow"} /\ i'[h] = i[h]
               /\ (pc'[h] = "overflow" => pc[h] = "overflow")
<1>1. pc \in [Handlers -> Steps] /\ i \in [Handlers -> Paths]
      /\ crash \in [Handlers -> Nat \cup {NoFile}]
  BY DEF SlotInv, TypeOK
<1>2. ASSUME NEW g \in Handlers, StartHandler(g) PROVE g # h
  BY <1>1, <1>2 DEF StartHandler
<1>3. ASSUME NEW g \in Handlers, g # h, StartHandler(g) \/ HandlerStep(g) \/ Kill(g)
      PROVE  pc'[h] = pc[h] /\ i'[h] = i[h] /\ crash'[h] = crash[h]
  <2>1. CASE StartHandler(g) \/ Kill(g)
    BY <1>1, <1>3, <2>1 DEF StartHandler, Kill, locals
  <2>2. CASE MakeDir(g) \/ StatFound(g) \/ StatAbsent(g) \/ StatFails(g) \/ CreateFails(g)
    BY <1>1, <1>3, <2>2 DEF MakeDir, StatFound, StatAbsent, StatFails, CreateFails, NextSlot, locals
  <2>3. CASE CreateReport(g) \/ OpenOverflow(g) \/ OverflowFails(g) \/ WriteReport(g)
             \/ CloseReport(g)
    BY <1>1, <1>3, <2>3 DEF CreateReport, OpenOverflow, OpensReport, OverflowFails,
                            WriteReport, CloseReport, locals
  <2> QED
    BY <1>3, <2>1, <2>2, <2>3 DEF HandlerStep
<1>4. CASE HandlerStep(h)
  <2>1. CASE MakeDir(h)
    BY <1>1, <2>1 DEF MakeDir, locals
  <2>2. CASE StatFound(h) \/ StatFails(h) \/ CreateFails(h)
    BY <1>1, <2>2 DEF StatFound, StatFails, CreateFails, NextSlot
  <2>3. CASE StatAbsent(h)
    BY <1>1, <2>3 DEF StatAbsent
  <2>4. CASE CreateReport(h) \/ OpenOverflow(h) \/ OverflowFails(h) \/ WriteReport(h)
             \/ CloseReport(h)
    BY <1>1, <2>4 DEF CreateReport, OpenOverflow, OpensReport, OverflowFails,
                      WriteReport, CloseReport
  <2> QED
    BY <1>4, <2>1, <2>2, <2>3, <2>4 DEF HandlerStep
<1>5. CASE Kill(h)
  BY <1>1, <1>5 DEF Kill
<1>6. CASE Tick \/ UNCHANGED vars
  BY <1>6 DEF Tick, vars, locals
<1> QED
  BY <1>2, <1>3, <1>4, <1>5, <1>6 DEF Next

(* No crash gets a second report. *)
LEMMA OneEachStep ==
  ASSUME SlotInv, SlotInv', OneEach, [Next]_vars
  PROVE  OneEach'
<1>1. ASSUME NEW h \in Handlers, pc'[h] = "overflow"
      PROVE  crash'[h] = crash[h] /\ \A s \in Slots : creator[s] # crash[h]
  <2>1. crash'[h] = crash[h] /\ pc[h] \in Searching \cup {"overflow"}
    BY <1>1, SearchStep DEF Searching
  <2> QED
    BY <2>1 DEF SlotInv, OwnerInv, OneEach
<1>2. CASE UNCHANGED creator
  BY <1>1, <1>2 DEF OneEach
<1>3. ASSUME NEW g \in Handlers, CreateReport(g) PROVE OneEach'
  <2>1. \A s \in Slots : creator'[s] = IF s = i[g] THEN crash[g] ELSE creator[s]
    BY <1>3 DEF CreateReport, OpensReport, SlotInv, TypeOK, Paths
  <2>2. \A s \in Slots : creator[s] # crash[g]
    BY <1>3 DEF CreateReport, SlotInv, OwnerInv, Searching
  <2>3. ASSUME NEW h \in Handlers, pc'[h] = "overflow", NEW s \in Slots
        PROVE  creator'[s] # crash'[h]
    <3>1. crash'[h] = crash[h] /\ crash[h] # crash[g]
      <4>1. pc'[g] = "report" /\ g # h /\ crash' = crash
        BY <1>3, <2>3 DEF CreateReport, OpensReport, SlotInv, TypeOK
      <4> QED
        BY <2>3, <4>1 DEF SlotInv, CrashInv
    <3> QED
      BY <1>1, <2>1, <2>3, <3>1
  <2> QED
    BY <2>1, <2>2, <2>3 DEF OneEach
<1>4. ASSUME NEW g \in Handlers, OpenOverflow(g) PROVE OneEach'
  <2>1. \A s \in Slots : creator'[s] = creator[s]
    BY <1>4, PathFacts DEF OpenOverflow, OpensReport, SlotInv, LoopInv, TypeOK, Paths
  <2> QED
    BY <1>1, <2>1 DEF OneEach
<1> QED
  BY <1>2, <1>3, <1>4, SlotStep

(* Nothing failed up to this step: neither did this step fail. *)
LEMMA CalmStep ==
  ASSUME SlotInv, [Next]_vars, faults' = 0
  PROVE  /\ faults = 0 /\ ~Fault
         /\ crashes \in Nat /\ crashes <= crashes'
<1>1. faults \in Nat /\ crashes \in Nat
  BY DEF SlotInv, TypeOK
<1>2. ~Fault
  BY <1>1 DEF Fault
<1>3. \/ UNCHANGED << faults, crashes >>
      \/ crashes' = crashes + 1 /\ UNCHANGED faults
  BY <1>2 DEF Next, HandlerStep, vars, StartHandler, MakeDir, StatFound, StatAbsent,
              StatFails, CreateReport, CreateFails, OpenOverflow, OverflowFails,
              WriteReport, CloseReport, Kill, Tick
<1> QED
  BY <1>1, <1>2, <1>3

(* The slots a handler passed over are taken. *)
LEMMA PassedTakenStep ==
  ASSUME SlotInv, PassedTaken, [Next]_vars
  PROVE  PassedTaken'
<1> SUFFICES ASSUME faults' = 0, NEW h \in Handlers,
                    pc'[h] \in {"stat", "create", "overflow"}
             PROVE  dir' /\ \A s \in Slots : s < i'[h] => creator'[s] # NoFile
  BY DEF PassedTaken, Exists
<1>1. faults = 0 /\ ~Fault
  BY CalmStep
<1>2. \A s \in Slots : creator[s] # NoFile => creator'[s] # NoFile
  <2>1. ASSUME NEW g \in Handlers, NEW p \in Paths, OpensReport(g, p), pc[g] # "idle"
        PROVE  \A s \in Slots : creator[s] # NoFile => creator'[s] # NoFile
    <3>1. crash[g] # NoFile
      BY <2>1, PathFacts DEF SlotInv, CrashInv, NoFile
    <3>2. \A s \in Slots : creator'[s] = IF s = p THEN crash[g] ELSE creator[s]
      BY <2>1 DEF OpensReport, SlotInv, TypeOK, Paths
    <3> QED
      BY <3>1, <3>2
  <2>2. \A g \in Handlers : i[g] \in Paths
    BY DEF SlotInv, TypeOK
  <2> QED
    BY <2>1, <2>2, SlotStep DEF CreateReport, OpenOverflow
<1>3. dir => dir'
  BY DEF Next, HandlerStep, vars, StartHandler, MakeDir, StatFound, StatAbsent, fileVars,
         StatFails, CreateReport, CreateFails, OpenOverflow, OverflowFails,
         WriteReport, CloseReport, Kill, Tick
<1>4. CASE pc[h] = "mkdir" /\ MakeDir(h) /\ i'[h] = i[h]
  <2>1. dir' = TRUE
    BY <1>1, <1>4 DEF MakeDir
  <2>2. i[h] = 0
    BY <1>4 DEF SlotInv, LoopInv
  <2> QED
    BY <1>4, <2>1, <2>2 DEF Slots
<1>5. CASE pc[h] \in {"stat", "create"} /\ i'[h] = i[h] + 1
           /\ (StatFound(h) \/ StatFails(h) \/ CreateFails(h))
  <2>1. dir /\ \A s \in Slots : s < i[h] => creator[s] # NoFile
    BY <1>1, <1>5 DEF PassedTaken, Exists
  <2>2. creator[i[h]] # NoFile
    BY <1>1, <1>5, <2>1 DEF StatFound, StatFails, CreateFails, Exists
  <2>3. i[h] \in Slots
    BY <1>5 DEF SlotInv, LoopInv
  <2>4. \A s \in Slots : s < i[h] + 1 => s < i[h] \/ s = i[h]
    BY <2>3 DEF Slots
  <2> QED
    BY <1>2, <1>3, <1>5, <2>1, <2>2, <2>4
<1>6. CASE pc[h] \in {"stat", "create", "overflow"} /\ i'[h] = i[h]
  BY <1>1, <1>2, <1>3, <1>6 DEF PassedTaken, Exists
<1> QED
  BY <1>4, <1>5, <1>6, SearchStep

(* The pigeonhole: as long as there are no more crashes than slots, the    *)
(* slots cannot all be taken by other crashes than this one.               *)
LEMMA SlotLeft ==
  ASSUME SlotInv, OneEach, crashes <= MaxReports, NEW c \in 1..crashes,
         \A s \in Slots : creator[s] # NoFile /\ creator[s] # c
  PROVE  FALSE
<1> DEFINE Others == (1..crashes) \ {c}
           f == [s \in Slots |-> creator[s]]
<1>1. crashes \in Nat /\ MaxReports \in Nat /\ MaxReports - 1 \in Int
  BY ReportAssumption DEF SlotInv, TypeOK
<1>2. IsFiniteSet(Others) /\ Cardinality(Others) = crashes - 1
  <2>1. IsFiniteSet(1..crashes) /\ Cardinality(1..crashes) = crashes
    BY <1>1, FS_Interval
  <2> QED
    BY <2>1, FS_RemoveElement
<1>3. IsFiniteSet(Slots) /\ Cardinality(Slots) = MaxReports
  BY <1>1, FS_Interval, ReportAssumption DEF Slots
<1>4. f \in [Slots -> Others]
  BY DEF SlotInv, OwnerInv
<1>5. \A s, t \in Slots : f[s] = f[t] => s = t
  BY DEF OneEach
<1>6. Cardinality(Others) < Cardinality(Slots)
  BY <1>1, <1>2, <1>3
<1> HIDE DEF f, Others
<1>7. \E s, t \in Slots : s # t /\ f[s] = f[t]
  BY <1>2, <1>3, <1>4, <1>6, FS_PigeonHole
<1> QED
  BY <1>5, <1>7

(* A handler that came past the last slot while nothing failed: there are  *)
(* more crashes than slots.                                                *)
LEMMA NoOverflow ==
  ASSUME SlotInv, OneEach, PassedTaken, faults = 0, crashes <= MaxReports,
         NEW h \in Handlers
  PROVE  pc[h] # "overflow"
<1> SUFFICES ASSUME pc[h] = "overflow" PROVE FALSE
  OBVIOUS
<1>1. i[h] = Overflow /\ crash[h] \in 1..crashes
  BY DEF SlotInv, LoopInv, CrashInv
<1>2. \A s \in Slots : creator[s] # NoFile
  BY <1>1, ReportAssumption DEF PassedTaken, Exists, Slots, Overflow
<1>3. \A s \in Slots : creator[s] # crash[h]
  BY DEF OneEach
<1> QED
  BY <1>1, <1>2, <1>3, SlotLeft

(* The reports of those that are done stay. *)
LEMMA HasReportStep ==
  ASSUME SlotInv, SlotInv', OneEach, PassedTaken, HasReport, [Next]_vars
  PROVE  HasReport'
<1> SUFFICES ASSUME faults' = 0, crashes' <= MaxReports
             PROVE  /\ \A h \in Handlers : pc'[h] \in {"report", "close"} => fd'[h] \in Slots
                    /\ \A h \in Handlers : pc'[h] = "close" => content'[fd'[h]] = {crash'[h]}
                    /\ \A c \in done' : \E s \in Slots : content'[s] = {c}
  BY DEF HasReport
<1>1. faults = 0 /\ ~Fault /\ crashes <= MaxReports
  <2>1. faults = 0 /\ ~Fault /\ crashes \in Nat /\ crashes <= crashes'
    BY CalmStep
  <2>2. crashes' \in Nat /\ MaxReports \in Nat
    BY ReportAssumption DEF SlotInv, TypeOK
  <2> QED
    BY <2>1, <2>2
<1>2. /\ \A h \in Handlers : pc[h] \in {"report", "close"} => fd[h] \in Slots
      /\ \A h \in Handlers : pc[h] = "close" => content[fd[h]] = {crash[h]}
      /\ \A c \in done : \E s \in Slots : content[s] = {c}
  BY <1>1 DEF HasReport
<1>3. \A h \in Handlers : pc[h] # "overflow"
  BY <1>1, NoOverflow
<1>4. pc \in [Handlers -> Steps] /\ fd \in [Handlers -> Paths \cup {NoFile}]
      /\ crash \in [Handlers -> Nat \cup {NoFile}] /\ creator \in [Paths -> Nat \cup {NoFile}]
      /\ content \in [Paths -> SUBSET Nat]
  BY DEF SlotInv, TypeOK
<1>5. ASSUME NEW g \in Handlers, StartHandler(g) PROVE HasReport'
  BY <1>2, <1>4, <1>5 DEF StartHandler, fileVars, HasReport
<1>6. ASSUME NEW g \in Handlers,
             MakeDir(g) \/ StatFound(g) \/ StatAbsent(g) \/ CreateFails(g)
      PROVE  HasReport'
  <2>1. pc'[g] \notin {"report", "close"} /\ \A h \in Handlers : h # g => pc'[h] = pc[h]
    BY <1>4, <1>6 DEF MakeDir, StatFound, StatAbsent, CreateFails, NextSlot
  <2>2. UNCHANGED << content, fd, crash, done >>
    BY <1>6 DEF MakeDir, StatFound, StatAbsent, CreateFails, fileVars
  <2> QED
    BY <1>2, <2>1, <2>2 DEF HasReport
<1>7. ASSUME NEW g \in Handlers, CreateReport(g) PROVE HasReport'
  <2>1. i[g] \in Slots /\ creator[i[g]] = NoFile
    BY <1>7 DEF CreateReport, Exists, SlotInv, LoopInv
  <2>2. content[i[g]] = {}
    BY <2>1 DEF SlotInv, OwnerInv
  <2>3. \A h \in Handlers : /\ pc'[h] = IF h = g THEN "report" ELSE pc[h]
                            /\ fd'[h] = IF h = g THEN i[g] ELSE fd[h]
    BY <1>4, <1>7 DEF CreateReport, OpensReport
  <2>4. UNCHANGED << content, crash, done >>
    <3>1. content' = [content EXCEPT ![i[g]] = {}]
      BY <1>7 DEF CreateReport, OpensReport
    <3>2. content' = content
      BY <1>4, <2>2, <3>1
    <3> QED
      BY <1>7, <3>2 DEF CreateReport
  <2> QED
    BY <1>2, <2>1, <2>3, <2>4 DEF HasReport
<1>8. ASSUME NEW g \in Handlers, WriteReport(g) PROVE HasReport'
  <2>1. fd[g] \in Slots /\ fd[g] # NoFile /\ creator[fd[g]] = crash[g]
    <3>1. fd[g] \in Slots
      BY <1>2, <1>8 DEF WriteReport
    <3> QED
      BY <3>1, PathFacts DEF SlotInv, OwnerInv, Paths
  <2>2. \A p \in Paths : content'[p] = IF p = fd[g] THEN content[p] \cup {crash[g]} ELSE content[p]
    BY <1>4, <1>8, <2>1 DEF WriteReport
  <2>3. content'[fd[g]] = {crash[g]}
    <3>1. content[fd[g]] \subseteq {crash[g]}
      BY <2>1 DEF SlotInv, OwnerInv
    <3> QED
      BY <2>1, <2>2, <3>1 DEF Paths
  <2>4. \A h \in Handlers : pc'[h] = IF h = g THEN "close" ELSE pc[h]
    BY <1>4, <1>8 DEF WriteReport
  <2>5. UNCHANGED << fd, crash, done >>
    BY <1>8 DEF WriteReport
  <2>6. \A s \in Slots, c \in Nat : content[s] = {c} => content'[s] = {c}
    <3> SUFFICES ASSUME NEW s \in Slots, NEW c \in Nat, content[s] = {c}
                 PROVE  content'[s] = {c}
      OBVIOUS
    <3>1. CASE s = fd[g]
      <4>1. c = crash[g]
        BY <2>1, <3>1 DEF SlotInv, OwnerInv
      <4> QED
        BY <2>3, <3>1, <4>1
    <3>2. CASE s # fd[g]
      BY <2>2, <3>2 DEF Paths
    <3> QED
      BY <3>1, <3>2
  <2>7. done \subseteq Nat /\ \A h \in Handlers : pc[h] = "close" => crash[h] \in Nat
    BY DEF SlotInv, CrashInv, TypeOK
  <2>8. \A h \in Handlers : pc'[h] = "close" => content'[fd'[h]] = {crash'[h]}
    BY <1>2, <2>3, <2>4, <2>5, <2>6, <2>7
  <2>9. \A c \in done' : \E s \in Slots : content'[s] = {c}
    BY <1>2, <2>5, <2>6, <2>7
  <2> QED
    BY <1>2, <1>8, <2>4, <2>5, <2>8, <2>9 DEF HasReport, WriteReport
<1>9. ASSUME NEW g \in Handlers, CloseReport(g) PROVE HasReport'
  <2>1. \A h \in Handlers : pc'[h] \in {"report", "close"} =>
          pc'[h] = pc[h] /\ fd'[h] = fd[h]
    BY <1>4, <1>9 DEF CloseReport
  <2>2. UNCHANGED << content, crash >> /\ done' = done \cup {crash[g]}
    BY <1>9 DEF CloseReport, fileVars
  <2>3. fd[g] \in Slots /\ content[fd[g]] = {crash[g]}
    BY <1>2, <1>9 DEF CloseReport
  <2> QED
    BY <1>2, <2>1, <2>2, <2>3 DEF HasReport
<1>10. ASSUME Tick \/ UNCHANGED vars PROVE HasReport'
  BY <1>2, <1>10 DEF Tick, vars, fileVars, HasReport
<1>11. \A g \in Handlers : ~StatFails(g) /\ ~Kill(g) /\ ~OpenOverflow(g) /\ ~OverflowFails(g)
  BY <1>1, <1>3 DEF StatFails, Kill, OpenOverflow, OverflowFails
<1>12. HasReport'
  <2>1. ASSUME NEW g \in Handlers, StartHandler(g) \/ HandlerStep(g) \/ Kill(g)
        PROVE  HasReport'
    BY <1>5, <1>6, <1>7, <1>8, <1>9, <1>11, <2>1 DEF HandlerStep
  <2> QED
    BY <1>10, <2>1 DEF Next
<1> QED
  BY <1>12 DEF HasReport

(* While nothing fails, each of the first MaxReports crashes that are done *)
(* has a report of its own, for any number of handlers that search at once *)
(* and any number of slots: a handler that is through with its report was  *)
(* never turned away, for its crash and those before it cannot fill all    *)
(* slots.                                                                  *)
THEOREM CrashesReported == Spec => []FirstCrashesAreReported
<1>1. Init => ReportedInv
  <2> SUFFICES ASSUME Init PROVE ReportedInv
    OBVIOUS
  <2>1. OneEach /\ PassedTaken /\ HasReport
    BY DEF Init, OneEach, PassedTaken, HasReport, Paths
  <2> QED
    BY <2>1, SlotInvInit DEF ReportedInv
<1>2. ReportedInv /\ [Next]_vars => ReportedInv'
  BY SlotInvStep, OneEachStep, PassedTakenStep, HasReportStep DEF ReportedInv
<1>3. ReportedInv => FirstCrashesAreReported
  BY DEF ReportedInv, HasReport, FirstCrashesAreReported
<1> QED
  BY <1>1, <1>2, <1>3, PTL DEF Spec
=============================================================================
