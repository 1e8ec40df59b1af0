------------------------- MODULE CrashJournalProofs -------------------------
(***************************************************************************)
(* Proofs about CrashJournal for every number of handlers, programs,       *)
(* records, crashes and failures.                                          *)
(*                                                                         *)
(*   JournalTypes               under any core_pipe_limit, any failure     *)
(*   TotalIsNeverOverstated     the same, as long as no file was torn      *)
(*                                                                         *)
(* and with one handler at a time and no file torn:                        *)
(*                                                                         *)
(*   RecordsAreNeverDuplicated  whatever handler is killed or write fails  *)
(*   CountsAreNeverOverstated   wherever handlers are killed               *)
(*   TimesAreAlwaysGenuine      the same                                   *)
(*   TotalIsExact               when nothing fails                         *)
(*   FileAlwaysShowsCommitted   the same                                   *)
(*   RecordsTellTheCrashes      the same                                   *)
(*   TableImplemented           the same: the refinement of JournalTable   *)
(***************************************************************************)
EXTENDS CrashJournalRefinement, JournalDataProofs

----------------------------------------------------------------------------
(* The types the proofs need. *)
ControlType ==
  /\ pc \in [Handlers -> Steps]
  /\ crash \in [Handlers -> [pid : Nat, name : Texts]]
  /\ mem = [h \in Handlers |-> mem[h]]
  /\ \A h \in Handlers : IsJournal(mem[h])
  /\ IsSequence(journal)
  /\ \A i \in 1..Len(journal) : journal[i].k = "total" => journal[i].n \in Nat
  /\ torn \in BOOLEAN /\ spoilt \in BOOLEAN
  /\ torn => spoilt
  /\ log \in Seq([pid : Nat, name : Texts, time : Nat])
  /\ {now, crashes, faults, badWrites, wilds} \subseteq Nat

(* No total in a handler's memory or in the file exceeds the number of     *)
(* crashes accounted for.                                                  *)
TotalsBounded ==
  /\ \A h \in Handlers : mem[h].count <= Len(log)
  /\ \A i \in 1..Len(journal) :
       journal[i].k = "total" => journal[i].n \in 0..Len(log)

TotalInv == ControlType /\ (~spoilt => TotalsBounded)

(* Writing a chunk keeps what the invariant says of the file. *)
LEMMA WriteKeepsFile ==
  ASSUME TotalInv, NEW h \in Handlers, NEW c, Write(h, c),
         c.k = "total" => c.n \in Nat /\ (~spoilt => c.n \in 0..Len(log))
  PROVE  /\ IsSequence(journal')
         /\ \A i \in 1..Len(journal') : journal'[i].k = "total" => journal'[i].n \in Nat
         /\ torn' \in BOOLEAN /\ spoilt' \in BOOLEAN
         /\ torn' => spoilt'
         /\ {faults', badWrites', wilds'} \subseteq Nat
         /\ ~spoilt' => ~spoilt /\ \A i \in 1..Len(journal') :
              journal'[i].k = "total" => journal'[i].n \in 0..Len(log)
<1>1. /\ IsSequence(journal) /\ Len(journal) \in Nat
      /\ ~spoilt => ~torn
      /\ {faults, badWrites, wilds} \subseteq Nat
  BY DEF TotalInv, ControlType, IsSequence
<1>2. IsSequence(<<>>) /\ Len(<<>>) = 0
  BY DEF IsSequence
<1>3. CASE /\ journal' = IF torn THEN <<>> ELSE Append(journal, c)
           /\ UNCHANGED << torn, spoilt, faultVars >>
  <2>1. IsSequence(journal')
    BY <1>1, <1>2, <1>3, AppendIsSequence
  <2>2. ASSUME NEW i \in 1..Len(journal'), journal'[i].k = "total"
        PROVE  journal'[i].n \in Nat /\ (~spoilt => journal'[i].n \in 0..Len(log))
    <3>1. journal' = Append(journal, c)
      BY <1>2, <1>3, <2>2
    <3>2. /\ Len(journal') = Len(journal) + 1
          /\ journal'[Len(journal) + 1] = c
          /\ \A k \in 1..Len(journal) : journal'[k] = journal[k]
      BY <1>1, <3>1, AppendIsSequence
    <3>3. CASE i = Len(journal) + 1
      BY <2>2, <3>2, <3>3
    <3>4. CASE i # Len(journal) + 1
      <4>1. i \in 1..Len(journal)
        BY <1>1, <3>2, <3>4
      <4> QED
        BY <2>2, <3>2, <4>1 DEF TotalInv, ControlType, TotalsBounded
    <3> QED
      BY <3>3, <3>4
  <2> QED
    BY <1>1, <1>3, <2>1, <2>2 DEF TotalInv, ControlType, faultVars
<1>4. CASE Tear /\ (UNCHANGED faultVars \/ BadWrite)
  BY <1>1, <1>2, <1>4 DEF Tear, BadWrite, faultVars
<1>5. CASE BadWrite /\ UNCHANGED << journal, torn, spoilt >>
  BY <1>1, <1>5 DEF TotalInv, ControlType, TotalsBounded, BadWrite
<1> QED
  BY <1>3, <1>4, <1>5 DEF Write

(* The end of a process leaves an empty journal in its memory. *)
LEMMA ExitKeepsMemory ==
  ASSUME TotalInv, NEW h \in Handlers, Exit(h), UNCHANGED log
  PROVE  /\ pc' \in [Handlers -> Steps]
         /\ crash' \in [Handlers -> [pid : Nat, name : Texts]]
         /\ mem' = [g \in Handlers |-> mem'[g]]
         /\ \A g \in Handlers : IsJournal(mem'[g])
         /\ ~spoilt => \A g \in Handlers : mem'[g].count <= Len(log)
<1>1. IsJournal(NoJournal) /\ NoJournal.count = 0
  BY DEF IsJournal, BlankJournal, NoJournal
<1>2. Len(log) \in Nat
  BY DEF TotalInv, ControlType
<1>3. NoCrash \in [pid : Nat, name : Texts]
  BY TextAssumption DEF NoCrash
<1>4. pc' \in [Handlers -> Steps]
  BY DEF Exit, TotalInv, ControlType, Steps
<1>5. crash' \in [Handlers -> [pid : Nat, name : Texts]]
  BY <1>3 DEF Exit, TotalInv, ControlType
<1>6. /\ mem' = [g \in Handlers |-> mem'[g]]
      /\ \A g \in Handlers : mem'[g] = (IF g = h THEN NoJournal ELSE mem[g])
  BY DEF Exit, TotalInv, ControlType
<1>7. ASSUME NEW g \in Handlers
      PROVE  IsJournal(mem'[g]) /\ (~spoilt => mem'[g].count <= Len(log))
  <2>1. CASE g = h
    BY <1>1, <1>2, <1>6, <2>1
  <2>2. CASE g # h
    BY <1>6, <2>2 DEF TotalInv, ControlType, TotalsBounded
  <2> QED
    BY <2>1, <2>2
<1> QED
  BY <1>4, <1>5, <1>6, <1>7

(* The invariant of the total holds at the start. *)
LEMMA TotalInvInit == Init => TotalInv
<1> SUFFICES ASSUME Init PROVE TotalInv
  OBVIOUS
<1>1. IsJournal(NoJournal) /\ NoJournal.count = 0
  BY DEF IsJournal, BlankJournal, NoJournal
<1>2. NoCrash \in [pid : Nat, name : Texts]
  BY TextAssumption DEF NoCrash
<1>3. IsSequence(<<>>) /\ Len(<<>>) = 0
  BY DEF IsSequence
<1>4. ControlType
  <2>1. /\ pc \in [Handlers -> Steps]
        /\ crash \in [Handlers -> [pid : Nat, name : Texts]]
        /\ {now, crashes, faults, badWrites, wilds} \subseteq Nat
        /\ torn = FALSE /\ spoilt = FALSE
    BY <1>2 DEF Init, Steps
  <2>2. mem = [h \in Handlers |-> mem[h]] /\ \A h \in Handlers : IsJournal(mem[h])
    BY <1>1 DEF Init
  <2>3. /\ IsSequence(journal)
        /\ \A i \in 1..Len(journal) : journal[i].k = "total" => journal[i].n \in Nat
    BY <1>3 DEF Init
  <2>4. log \in Seq([pid : Nat, name : Texts, time : Nat])
    BY DEF Init
  <2> QED
    BY <2>1, <2>2, <2>3, <2>4 DEF ControlType
<1>5. TotalsBounded
  BY <1>1, <1>3 DEF Init, TotalsBounded
<1> QED
  BY <1>4, <1>5 DEF TotalInv

(* What a handler may read: a journal, and a bounded total in it. *)
LEMMA FoundResult ==
  ASSUME TotalInv, NEW j \in Found
  PROVE  IsJournal(j) /\ (~spoilt => j.count <= Len(log))
<1>1. CASE torn
  BY <1>1, DataAssumption, JournalsAreJournals DEF Found, TotalInv, ControlType
<1>2. CASE ~torn
  <2>1. PICK z \in Shifts : j = Converted(journal, Exact(now), z)
    BY <1>2 DEF Found
  <2>2. IsJournal(ReadJournal(journal, Exact(now)))
    <3>1. Nat \in SUBSET Nat /\ 0 \in Nat
      OBVIOUS
    <3> QED
      BY <3>1, ReadJournalResult DEF TotalInv, ControlType
  <2>3. /\ IsJournal(j)
        /\ j.count = ReadJournal(journal, Exact(now)).count
    BY <2>1, <2>2, ConvertedResult
  <2>4. ASSUME ~spoilt
        PROVE  j.count <= Len(log)
    <3>1. Len(log) \in Nat /\ IsSequence(journal)
      BY DEF TotalInv, ControlType
    <3>2. 0..Len(log) \in SUBSET Nat /\ 0 \in 0..Len(log)
      BY <3>1
    <3>3. ReadJournal(journal, Exact(now)).count \in 0..Len(log)
      BY <2>4, <3>1, <3>2, ReadJournalResult DEF TotalInv, TotalsBounded
    <3> QED
      BY <2>3, <3>1, <3>3
  <2> QED
    BY <2>3, <2>4
<1> QED
  BY <1>1, <1>2

(* Every step keeps the invariant of the total. *)
LEMMA TotalInvStep == TotalInv /\ [Next]_vars => TotalInv'
<1> SUFFICES ASSUME TotalInv, [Next]_vars PROVE TotalInv'
  OBVIOUS
<1> USE DEF TotalInv, ControlType, TotalsBounded
<1>0. Len(log) \in Nat
  OBVIOUS
<1>1. ASSUME NEW h \in Handlers, NEW n \in Names, StartHandler(h, n)
      PROVE  TotalInv'
  <2>1. [pid |-> crashes + 1, name |-> n] \in [pid : Nat, name : Texts]
    BY HandlerAssumption
  <2>2. crash' \in [Handlers -> [pid : Nat, name : Texts]]
    BY <1>1, <2>1 DEF StartHandler
  <2> QED
    BY <1>1, <2>2 DEF StartHandler, Steps, fileVars, cursors, faultVars, histVars
<1>2. CASE SkipCrash
  BY <1>2 DEF SkipCrash, fileVars, cursors, faultVars, histVars
<1>3. ASSUME NEW h \in Handlers, NEW j, mem' = [mem EXCEPT ![h] = j],
             IsJournal(j), ~spoilt' => ~spoilt /\ j.count <= Len(log),
             spoilt' \in BOOLEAN, spoilt => spoilt',
             pc' = [pc EXCEPT ![h] = "update"],
             {faults', badWrites', wilds'} \subseteq Nat,
             UNCHANGED << fileVars, crash, now, crashes, log >>
      PROVE  TotalInv'
  <2>1. mem' = [g \in Handlers |-> mem'[g]]
    BY <1>3
  <2>2. ASSUME NEW g \in Handlers
        PROVE  IsJournal(mem'[g]) /\ (~spoilt' => mem'[g].count <= Len(log))
    <3>1. CASE g = h
      BY <1>3, <3>1
    <3>2. CASE g # h
      BY <1>3, <3>2
    <3> QED
      BY <3>1, <3>2
  <2> QED
    BY <1>3, <2>1, <2>2 DEF Steps, fileVars
<1>4. ASSUME NEW h \in Handlers, ReadFile(h)
      PROVE  TotalInv'
  <2>1. PICK j \in Found : mem' = [mem EXCEPT ![h] = j]
    BY <1>4 DEF ReadFile
  <2>2. IsJournal(j) /\ (~spoilt => j.count <= Len(log))
    BY <2>1, FoundResult
  <2> QED
    BY <1>3, <1>4, <2>1, <2>2 DEF ReadFile, faultVars, kernelVars, histVars
<1>5. ASSUME NEW h \in Handlers, WildRecord(h)
      PROVE  TotalInv'
  <2>1. PICK j \in Found, r \in Strays, complete \in BOOLEAN :
          mem' = [mem EXCEPT ![h] = WithStray(j, Len(Lines(journal)) + 1, r, complete)]
    BY <1>5 DEF WildRecord
  <2> DEFINE g == WithStray(j, Len(Lines(journal)) + 1, r, complete)
  <2>2. IsJournal(g)
    BY <2>1, FoundResult, StrayResult
  <2>3. mem' = [mem EXCEPT ![h] = g]
    BY <2>1
  <2>4. {faults', badWrites', wilds'} \subseteq Nat
    BY <1>5 DEF WildRecord, WildFault
  <2> HIDE DEF g
  <2> QED
    BY <1>3, <1>5, <2>2, <2>3, <2>4 DEF WildRecord, kernelVars, histVars
<1>6. ASSUME NEW h \in Handlers, WildDeath(h) \/ OpenFails(h) \/ CloseJournal(h) \/ Kill(h)
      PROVE  TotalInv'
  <2>1. Exit(h) /\ UNCHANGED << now, crashes, skipped, spoilt, log, committed >>
    BY <1>6 DEF WildDeath, OpenFails, CloseJournal, Kill, kernelVars, histVars
  <2>2. {faults', badWrites', wilds'} \subseteq Nat
    BY <1>6 DEF WildDeath, OpenFails, CloseJournal, Kill, Fault, WildFault, faultVars
  <2>3. /\ pc' \in [Handlers -> Steps]
        /\ crash' \in [Handlers -> [pid : Nat, name : Texts]]
        /\ mem' = [g \in Handlers |-> mem'[g]]
        /\ \A g \in Handlers : IsJournal(mem'[g])
        /\ ~spoilt => \A g \in Handlers : mem'[g].count <= Len(log)
    BY <2>1, ExitKeepsMemory
  <2>4. UNCHANGED << journal, torn >>
    BY <2>1 DEF Exit
  <2> QED
    BY <2>1, <2>2, <2>3, <2>4
<1>7. ASSUME NEW h \in Handlers, Update(h)
      PROVE  TotalInv'
  <2> DEFINE e == [pid |-> crash[h].pid, name |-> crash[h].name, time |-> now]
             j == RecordCrash(mem[h], crash[h].pid, crash[h].name, Exact(now))
  <2>1. e \in [pid : Nat, name : Texts, time : Nat]
    OBVIOUS
  <2>2. /\ log' \in Seq([pid : Nat, name : Texts, time : Nat])
        /\ Len(log') = Len(log) + 1
    BY <1>7, <2>1 DEF Update
  <2>3. IsJournal(j) /\ j.count = mem[h].count + 1
    BY RecordCrashResult
  <2>4. mem' = [mem EXCEPT ![h] = j]
    BY <1>7 DEF Update
  <2> HIDE DEF j
  <2>5. /\ mem' = [g \in Handlers |-> mem'[g]]
        /\ \A g \in Handlers : IsJournal(mem'[g])
    BY <2>3, <2>4
  <2>6. ASSUME ~spoilt, NEW g \in Handlers
        PROVE  mem'[g].count <= Len(log')
    <3>1. mem[g].count \in Nat /\ mem[g].count <= Len(log)
      BY <2>6 DEF IsJournal
    <3>2. mem'[g].count = (IF g = h THEN mem[g].count + 1 ELSE mem[g].count)
      BY <2>3, <2>4
    <3> QED
      BY SMTT(30), <1>0, <2>2, <3>1, <3>2
  <2>7. ~spoilt => \A i \in 1..Len(journal') :
          journal'[i].k = "total" => journal'[i].n \in 0..Len(log')
    BY <1>0, <1>7, <2>2 DEF Update, fileVars
  <2>8. UNCHANGED << journal, torn, spoilt, crash, now, crashes, faults, badWrites, wilds >>
    BY <1>7 DEF Update, fileVars, faultVars, kernelVars
  <2>9. pc' \in [Handlers -> Steps]
    BY <1>7 DEF Update, Steps
  <2> QED
    BY <2>2, <2>5, <2>6, <2>7, <2>8, <2>9
<1>8. ASSUME NEW h \in Handlers, OpenJournal(h)
      PROVE  TotalInv'
  <2>1. IsSequence(<<>>) /\ Len(<<>>) = 0
    BY DEF IsSequence
  <2>2. journal' = <<>> /\ torn' = FALSE /\ pc' \in [Handlers -> Steps]
    BY <1>8 DEF OpenJournal, Steps
  <2>3. UNCHANGED << crash, mem, spoilt, log, now, crashes, faults, badWrites, wilds >>
    BY <1>8 DEF OpenJournal, faultVars, kernelVars
  <2>4. IsSequence(journal') /\ 1..Len(journal') = {}
    BY <2>1, <2>2
  <2>5. ControlType'
    BY <2>2, <2>3, <2>4
  <2>6. ~spoilt' => TotalsBounded'
    BY <2>3, <2>4
  <2> QED
    BY <2>5, <2>6
<1>9. ASSUME NEW h \in Handlers, NEW c, Write(h, c),
             c.k = "total" => c.n \in Nat /\ (~spoilt => c.n \in 0..Len(log)),
             pc' \in [Handlers -> Steps],
             UNCHANGED << crash, mem, now, crashes, log >>
      PROVE  TotalInv'
  <2>1. /\ IsSequence(journal')
        /\ \A i \in 1..Len(journal') : journal'[i].k = "total" => journal'[i].n \in Nat
        /\ torn' \in BOOLEAN /\ spoilt' \in BOOLEAN
        /\ torn' => spoilt'
        /\ {faults', badWrites', wilds'} \subseteq Nat
        /\ ~spoilt' => ~spoilt /\ \A i \in 1..Len(journal') :
             journal'[i].k = "total" => journal'[i].n \in 0..Len(log)
    BY <1>9, WriteKeepsFile
  <2> QED
    BY <1>9, <2>1
<1>10. ASSUME NEW h \in Handlers, WriteStart(h)
       PROVE  TotalInv'
  <2>1. StartChunk(mem[h].start).k # "total"
    BY DEF StartChunk
  <2> QED
    BY <1>9, <1>10, <2>1 DEF WriteStart, Steps, kernelVars, histVars
<1>11. ASSUME NEW h \in Handlers, WriteTotal(h)
       PROVE  TotalInv'
  <2>1. /\ TotalChunk(mem[h].count).n \in Nat
        /\ ~spoilt => TotalChunk(mem[h].count).n \in 0..Len(log)
    BY <1>0 DEF TotalChunk, IsJournal
  <2> QED
    BY SMTT(30), <1>9, <1>11, <2>1 DEF WriteTotal, Steps, kernelVars, histVars
<1>12. ASSUME NEW h \in Handlers, WriteHead(h)
       PROVE  TotalInv'
  <2>1. HeadChunk(mem[h].slots[rec[h]]).k # "total"
    BY DEF HeadChunk
  <2> QED
    BY SMTT(30), <1>9, <1>12, <2>1 DEF WriteHead, Steps, kernelVars, histVars
<1>13. ASSUME NEW h \in Handlers, WriteTime(h)
       PROVE  TotalInv'
  <2>1. TimeChunk(CurrentTimes(h)[tim[h]]).k # "total"
    BY DEF TimeChunk
  <2> QED
    BY SMTT(30), <1>9, <1>13, <2>1 DEF WriteTime, Steps, kernelVars, histVars
<1>14. ASSUME NEW h \in Handlers, WriteNewline(h)
       PROVE  TotalInv'
  <2>1. NewlineChunk.k # "total"
    BY DEF NewlineChunk
  <2> QED
    BY SMTT(30), <1>9, <1>14, <2>1 DEF WriteNewline, Steps, kernelVars, histVars
<1>15. CASE Tick
  BY <1>15 DEF Tick, fileVars, cursors, kernelVars, faultVars, histVars
<1>16. CASE UNCHANGED vars
  BY <1>16 DEF vars
<1> QED
  BY <1>1, <1>2, <1>4, <1>5, <1>6, <1>7, <1>8, <1>10, <1>11, <1>12, <1>13, <1>14, <1>15,
     <1>16 DEF Next, HandlerStep

(* Whatever the limit on handlers, whoever is killed and whichever write   *)
(* fails: as long as no file was torn, the total in the file never exceeds *)
(* the crashes accounted for.                                              *)
THEOREM TotalIsNeverOverstated == Spec => []TotalNeverOverstated
<1>1. TotalInv => TotalNeverOverstated
  <2> SUFFICES ASSUME TotalInv, ~spoilt PROVE OnDisk.count <= Len(log)
    BY DEF TotalNeverOverstated
  <2>1. Len(log) \in Nat /\ IsSequence(journal)
    BY DEF TotalInv, ControlType
  <2>2. 0..Len(log) \in SUBSET Nat /\ 0 \in 0..Len(log)
    BY <2>1
  <2>3. OnDisk.count \in 0..Len(log)
    BY <2>1, <2>2, ReadJournalResult DEF TotalInv, TotalsBounded, OnDisk
  <2> QED
    BY <2>1, <2>3
<1> QED
  BY <1>1, TotalInvInit, TotalInvStep, PTL DEF Spec
----------------------------------------------------------------------------
(***************************************************************************)
(* One handler at a time.  The total alone is not inductive: what a crash  *)
(* adds is in the handler's memory from the update to the close, and in    *)
(* the file only from the write of the total line on.                      *)
(***************************************************************************)
OneHandler ==
  /\ \A g, h \in Handlers : pc[g] # "idle" /\ pc[h] # "idle" => g = h
  /\ \A h \in Handlers : pc[h] \in Writing => h \in writer

HeaderWritten ==
  /\ Len(journal) >= 2
  /\ journal[1].k = "start"
  /\ journal[2].k = "total"
  /\ journal[2].n = Len(log)

Progress(h) ==
  /\ pc[h] \in {"update", "open"} \cup Writing => mem[h].count = Len(log)
  /\ pc[h] = "start" => Len(journal) = 0
  /\ pc[h] = "total" => Len(journal) = 1 /\ journal[1].k = "start"
  /\ pc[h] \in {"head", "times"} => HeaderWritten

Settled ==
  (\A h \in Handlers : pc[h] \in {"idle", "read", "update"}) =>
    ReadTotal(journal) = Len(log)

ExactInv ==
  /\ TotalInv
  /\ OneHandler
  /\ NoFailure => ~spoilt /\ Settled /\ \A h \in Handlers : Progress(h)

(* The kernel starts a handler only when there is none. *)
LEMMA NoneActive ==
  ASSUME limit = 1, BelowLimit
  PROVE  \A h \in Handlers : pc[h] = "idle"
<1>1. Active \in SUBSET Handlers
  BY DEF Active
<1>2. IsFiniteSet(Active)
  BY <1>1, HandlerAssumption, FS_Subset
<1>3. Cardinality(Active) \in Nat
  BY <1>2, FS_CardinalityType
<1>4. Cardinality(Active) = 0
  BY <1>3 DEF BelowLimit
<1>5. Active = {}
  BY <1>2, <1>4, FS_EmptySet
<1> QED
  BY <1>5 DEF Active

(* With a limit of 1, at most one handler is active, and no other handler  *)
(* has truncated the file since it did.                                    *)
LEMMA OneHandlerStep ==
  ASSUME limit = 1, ControlType, OneHandler, [Next]_vars
  PROVE  OneHandler'
<1> USE DEF OneHandler, ControlType
<1>1. ASSUME NEW h \in Handlers, NEW n \in Names, StartHandler(h, n)
      PROVE  OneHandler'
  BY <1>1, NoneActive DEF StartHandler, fileVars, Writing
<1>2. ASSUME NEW h \in Handlers, HandlerStep(h)
      PROVE  OneHandler'
  <2>1. pc[h] # "idle" /\ \A g \in Handlers \ {h} : pc'[g] = pc[g]
    BY <1>2 DEF HandlerStep, ReadFile, WildDeath, WildRecord, Update, OpenJournal,
                OpenFails, WriteStart, WriteTotal, WriteHead, WriteTime, WriteNewline,
                CloseJournal, Exit
  <2>2. \A g \in Handlers \ {h} : pc[g] = "idle" /\ pc'[g] = "idle"
    BY <2>1
  <2>3. pc'[h] \in Writing => h \in writer'
    <3>1. CASE ReadFile(h) \/ WildDeath(h) \/ WildRecord(h) \/ Update(h) \/ OpenFails(h)
               \/ CloseJournal(h)
      BY <3>1 DEF ReadFile, WildDeath, WildRecord, Update, OpenFails, CloseJournal, Exit,
                  Writing
    <3>2. CASE OpenJournal(h)
      BY <3>2 DEF OpenJournal
    <3>3. CASE WriteStart(h) \/ WriteTotal(h) \/ WriteHead(h) \/ WriteTime(h)
               \/ WriteNewline(h)
      BY <3>3 DEF WriteStart, WriteTotal, WriteHead, WriteTime, WriteNewline, Write, Writing
    <3> QED
      BY <1>2, <3>1, <3>2, <3>3 DEF HandlerStep
  <2> QED
    BY <2>2, <2>3 DEF Writing
<1>3. ASSUME NEW h \in Handlers, Kill(h)
      PROVE  OneHandler'
  <2>1. pc[h] # "idle" /\ pc' = [pc EXCEPT ![h] = "idle"]
    BY <1>3 DEF Kill, Exit
  <2>2. \A g \in Handlers : pc'[g] = "idle"
    BY <2>1
  <2> QED
    BY <2>2 DEF Writing
<1>4. CASE SkipCrash \/ Tick \/ UNCHANGED vars
  BY <1>4 DEF SkipCrash, Tick, vars, fileVars
<1> QED
  BY <1>1, <1>2, <1>3, <1>4 DEF Next

(* A write that succeeds appends one chunk to a file that is not torn. *)
LEMMA ChunkIsAppended ==
  ASSUME TotalInv, OneHandler, ~spoilt, NEW h \in Handlers, pc[h] \in Writing, NEW c,
         Write(h, c), badWrites' = 0
  PROVE  /\ IsSequence(journal')
         /\ Len(journal') = Len(journal) + 1
         /\ journal'[Len(journal) + 1] = c
         /\ \A i \in 1..Len(journal) : journal'[i] = journal[i]
         /\ UNCHANGED << faults, badWrites, wilds, spoilt >>
<1>1. IsSequence(journal) /\ badWrites \in Nat /\ ~torn /\ h \in writer
  BY DEF TotalInv, ControlType, OneHandler
<1>2. journal' = Append(journal, c) /\ UNCHANGED << faultVars, spoilt >>
  BY <1>1 DEF Write, BadWrite
<1> QED
  BY <1>1, <1>2, AppendIsSequence DEF faultVars

(* The invariant of the exact total holds at the start. *)
LEMMA ExactInvInit == Init => ExactInv
<1> SUFFICES ASSUME Init PROVE ExactInv
  OBVIOUS
<1>1. journal = <<>> /\ log = <<>> /\ spoilt = FALSE /\ \A h \in Handlers : pc[h] = "idle"
  BY DEF Init
<1>2. IsSequence(journal) /\ Len(journal) = 0 /\ Len(log) = 0
  BY <1>1 DEF IsSequence
<1>3. \A i \in 1..Len(journal) : journal[i].k = "total" => journal[i].n \in 0..0
  BY <1>2
<1>4. ReadTotal(journal) \in 0..0
  BY <1>2, <1>3, ReadJournalResult
<1>5. Settled /\ \A h \in Handlers : Progress(h)
  BY <1>1, <1>2, <1>4 DEF Settled, Progress, Writing
<1> QED
  BY <1>1, <1>5, TotalInvInit DEF ExactInv, OneHandler, Writing

(* Every step keeps the invariant of the exact total. *)
LEMMA ExactInvStep ==
  ASSUME limit = 1, ExactInv, [Next]_vars
  PROVE  ExactInv'
<1>1. TotalInv' /\ OneHandler'
  BY TotalInvStep, OneHandlerStep DEF ExactInv, TotalInv
<1> DEFINE Goal == ~spoilt' /\ Settled' /\ \A g \in Handlers : Progress(g)'
<1> SUFFICES ASSUME NoFailure' PROVE Goal
  BY <1>1 DEF ExactInv
<1> USE DEF ExactInv
<1>2. /\ ControlType /\ IsSequence(journal) /\ Len(journal) \in Nat /\ Len(log) \in Nat
      /\ faults \in Nat /\ badWrites \in Nat /\ wilds \in Nat
      /\ pc \in [Handlers -> Steps]
  BY DEF TotalInv, ControlType, IsSequence
<1>3. ~Fault /\ ~WildFault
  BY <1>2 DEF Fault, WildFault, NoFailure
(* A step of h finds every other handler idle and leaves it so. *)
<1>4. ASSUME NEW h \in Handlers, pc[h] # "idle", NoFailure,
             \A g \in Handlers \ {h} : pc'[g] = pc[g],
             Progress(h)', UNCHANGED spoilt,
             pc'[h] \in {"idle", "read", "update"} =>
               ReadTotal(journal') = Len(log')
      PROVE  Goal
  <2>1. \A g \in Handlers \ {h} : pc'[g] = "idle"
    BY <1>4 DEF OneHandler
  <2>2. \A g \in Handlers \ {h} : Progress(g)'
    BY <2>1 DEF Progress, Writing
  <2>3. Settled'
    BY <1>4 DEF Settled
  <2> QED
    BY <1>4, <2>2, <2>3
<1> HIDE DEF Goal
<1>5. ASSUME NEW h \in Handlers, NEW n \in Names, StartHandler(h, n)
      PROVE  Goal
  <2>1. NoFailure /\ UNCHANGED << journal, log, spoilt >>
    BY <1>5 DEF StartHandler, fileVars, faultVars, histVars, NoFailure
  <2>2. \A g \in Handlers : pc[g] = "idle" /\ pc'[g] \in {"idle", "read"}
    BY <1>2, <1>5, NoneActive DEF StartHandler
  <2>3. ReadTotal(journal') = Len(log')
    BY <2>1, <2>2 DEF Settled
  <2> QED
    BY <2>1, <2>2, <2>3 DEF Settled, Progress, Writing, Goal
<1>6. CASE SkipCrash \/ Tick \/ UNCHANGED vars
  <2>1. UNCHANGED << journal, log, pc, mem, faults, badWrites, wilds, spoilt >>
    BY <1>6 DEF SkipCrash, Tick, vars, fileVars, cursors, faultVars, histVars
  <2> QED
    BY <2>1 DEF Settled, Progress, HeaderWritten, NoFailure, Goal
<1>7. ASSUME NEW h \in Handlers, ReadFile(h)
      PROVE  Goal
  <2>1. PICK j \in Found :
          /\ pc[h] = "read" /\ NoFailure /\ UNCHANGED << journal, log, spoilt >>
          /\ pc' = [pc EXCEPT ![h] = "update"]
          /\ mem' = [mem EXCEPT ![h] = j]
    BY <1>7 DEF ReadFile, fileVars, faultVars, histVars, NoFailure
  <2>2. \A g \in Handlers : pc[g] \in {"idle", "read", "update"}
    BY <2>1 DEF OneHandler
  <2>3. ReadTotal(journal) = Len(log) /\ ~spoilt
    BY <2>1, <2>2 DEF Settled
  <2>4. PICK z \in Shifts : j = Converted(journal, Exact(now), z)
    BY <2>1, <2>3 DEF Found, TotalInv, ControlType
  <2>5. 0..Len(log) \in SUBSET Nat /\ 0 \in 0..Len(log)
    BY <1>2
  <2>6. /\ IsJournal(ReadJournal(journal, Exact(now)))
        /\ ReadJournal(journal, Exact(now)).count = Len(log)
    BY <1>2, <2>3, <2>5, ReadJournalResult DEF TotalInv, TotalsBounded
  <2>7. j.count = Len(log)
    BY <2>4, <2>6, ConvertedResult
  <2>8. mem'[h].count = Len(log') /\ pc'[h] = "update"
    BY <1>2, <2>1, <2>7 DEF ControlType
  <2>9. Progress(h)'
    BY <2>8 DEF Progress, Writing
  <2> QED
    BY <1>2, <1>4, <2>1, <2>3, <2>9
<1>8. ASSUME NEW h \in Handlers, Update(h)
      PROVE  Goal
  <2> DEFINE e == [pid |-> crash[h].pid, name |-> crash[h].name, time |-> now]
             j == RecordCrash(mem[h], crash[h].pid, crash[h].name, Exact(now))
  <2>1. /\ pc[h] = "update" /\ NoFailure /\ UNCHANGED spoilt
        /\ pc' = [pc EXCEPT ![h] = "open"]
        /\ mem' = [mem EXCEPT ![h] = j]
        /\ log' = Append(log, e)
    BY <1>8 DEF Update, faultVars, NoFailure
  <2>2. mem[h].count = Len(log)
    BY <2>1 DEF Progress
  <2>3. j.count = mem[h].count + 1
    BY <1>2, RecordCrashResult DEF ControlType
  <2>4. Len(log') = Len(log) + 1
    <3>1. e \in [pid : Nat, name : Texts, time : Nat]
      BY <1>2 DEF ControlType
    <3> QED
      BY <1>2, <2>1, <3>1 DEF ControlType
  <2> HIDE DEF j, e
  <2>5. mem'[h].count = Len(log') /\ pc'[h] = "open"
    BY <1>2, <2>1, <2>2, <2>3, <2>4 DEF ControlType
  <2>6. Progress(h)'
    BY <2>5 DEF Progress, Writing
  <2> QED
    BY <1>2, <1>4, <2>1, <2>5, <2>6
<1>9. ASSUME NEW h \in Handlers, OpenJournal(h)
      PROVE  Goal
  <2>1. /\ pc[h] = "open" /\ NoFailure /\ journal' = <<>>
        /\ pc' = [pc EXCEPT ![h] = "start"]
        /\ UNCHANGED << mem, log, spoilt >>
    BY <1>9 DEF OpenJournal, faultVars, NoFailure
  <2>2. pc'[h] = "start" /\ Len(journal') = 0
    BY <1>2, <2>1 DEF ControlType
  <2>3. mem'[h].count = Len(log')
    BY <2>1 DEF Progress
  <2>4. Progress(h)'
    BY <2>2, <2>3 DEF Progress
  <2> QED
    BY <1>2, <1>4, <2>1, <2>2, <2>4
<1>10. ASSUME NEW h \in Handlers, NEW c, pc[h] \in Writing, Write(h, c)
       PROVE  /\ NoFailure /\ UNCHANGED spoilt
              /\ Len(journal') = Len(journal) + 1
              /\ journal'[Len(journal) + 1] = c
              /\ \A i \in 1..Len(journal) : journal'[i] = journal[i]
  <2>1. NoFailure
    BY <1>2, <1>10 DEF Write, BadWrite, NoFailure, faultVars
  <2>2. ~spoilt
    BY <2>1
  <2> QED
    BY <1>10, <2>1, <2>2, ChunkIsAppended DEF NoFailure
<1>11. ASSUME NEW h \in Handlers, WriteStart(h)
       PROVE  Goal
  <2> DEFINE c == StartChunk(mem[h].start)
  <2>1. c.k = "start"
    BY DEF StartChunk
  <2>2. /\ pc[h] = "start" /\ Write(h, c)
        /\ pc' = [pc EXCEPT ![h] = "total"] /\ UNCHANGED << mem, log >>
    BY <1>11 DEF WriteStart, histVars
  <2> HIDE DEF c
  <2>3. /\ NoFailure /\ UNCHANGED spoilt /\ Len(journal') = Len(journal) + 1
        /\ journal'[Len(journal) + 1] = c
    BY <1>10, <2>2 DEF Writing
  <2>4. Len(journal) = 0 /\ mem[h].count = Len(log)
    BY <2>2, <2>3 DEF Progress, Writing
  <2>5. pc'[h] = "total" /\ Len(journal') = 1 /\ journal'[1].k = "start"
    BY <1>2, <2>1, <2>2, <2>3, <2>4
  <2>6. Progress(h)'
    BY <2>2, <2>3, <2>4, <2>5 DEF Progress
  <2> QED
    BY <1>2, <1>4, <2>2, <2>3, <2>5, <2>6
<1>12. ASSUME NEW h \in Handlers, WriteTotal(h)
       PROVE  Goal
  <2> DEFINE c == TotalChunk(mem[h].count)
  <2>1. c.k = "total" /\ c.n = mem[h].count
    BY DEF TotalChunk
  <2>2. /\ pc[h] = "total" /\ Write(h, c)
        /\ pc' = [pc EXCEPT ![h] = "head"] /\ UNCHANGED << mem, log >>
    BY <1>12 DEF WriteTotal, histVars
  <2> HIDE DEF c
  <2>3. /\ NoFailure /\ UNCHANGED spoilt /\ Len(journal') = Len(journal) + 1
        /\ journal'[Len(journal) + 1] = c
        /\ \A i \in 1..Len(journal) : journal'[i] = journal[i]
    BY <1>10, <2>2 DEF Writing
  <2>4. Len(journal) = 1 /\ journal[1].k = "start" /\ mem[h].count = Len(log)
    BY <2>2, <2>3 DEF Progress, Writing
  <2>5. pc'[h] = "head" /\ HeaderWritten'
    BY <1>2, <2>1, <2>2, <2>3, <2>4 DEF HeaderWritten
  <2>6. Progress(h)'
    BY <2>2, <2>3, <2>4, <2>5 DEF Progress
  <2> QED
    BY <1>2, <1>4, <2>2, <2>3, <2>5, <2>6
(* The writes of the records leave the header as it is. *)
<1>13. ASSUME NEW h \in Handlers, NEW c, pc[h] \in {"head", "times"},
              Write(h, c), pc'[h] \in {"head", "times"},
              \A g \in Handlers \ {h} : pc'[g] = pc[g], UNCHANGED << mem, log >>
       PROVE  Goal
  <2>1. /\ NoFailure /\ UNCHANGED spoilt /\ Len(journal') = Len(journal) + 1
        /\ \A i \in 1..Len(journal) : journal'[i] = journal[i]
    BY <1>10, <1>13 DEF Writing
  <2>2. HeaderWritten /\ mem[h].count = Len(log)
    BY <1>13, <2>1 DEF Progress, Writing
  <2>3. HeaderWritten'
    BY <1>2, <1>13, <2>1, <2>2 DEF HeaderWritten
  <2>4. Progress(h)'
    BY <1>13, <2>1, <2>2, <2>3 DEF Progress
  <2> QED
    BY <1>4, <1>13, <2>1, <2>4
<1>14. ASSUME NEW h \in Handlers, WriteHead(h) \/ WriteTime(h) \/ WriteNewline(h)
       PROVE  Goal
  <2>1. PICK c : Write(h, c)
    BY <1>14 DEF WriteHead, WriteTime, WriteNewline
  <2>2. /\ pc[h] \in {"head", "times"} /\ pc'[h] \in {"head", "times"}
        /\ \A g \in Handlers \ {h} : pc'[g] = pc[g]
        /\ UNCHANGED << mem, log >>
    BY <1>2, <1>14 DEF WriteHead, WriteTime, WriteNewline, histVars
  <2> QED
    BY <1>13, <2>1, <2>2
<1>15. ASSUME NEW h \in Handlers, CloseJournal(h)
       PROVE  Goal
  <2>1. /\ pc[h] = "head" /\ NoFailure /\ UNCHANGED << journal, log, spoilt >>
        /\ pc' = [pc EXCEPT ![h] = "idle"]
    BY <1>15 DEF CloseJournal, Exit, faultVars, histVars, NoFailure
  <2>2. HeaderWritten
    BY <2>1 DEF Progress, Writing
  <2>3. ReadTotal(journal') = Len(log')
    BY <2>1, <2>2 DEF ReadTotal, HasTotal, HeaderWritten
  <2>4. pc'[h] = "idle" /\ Progress(h)'
    BY <1>2, <2>1 DEF Progress, Writing
  <2> QED
    BY <1>2, <1>4, <2>1, <2>3, <2>4
<1>16. ASSUME NEW h \in Handlers,
              WildDeath(h) \/ WildRecord(h) \/ OpenFails(h) \/ Kill(h)
       PROVE  FALSE
  BY <1>3, <1>16 DEF WildDeath, WildRecord, OpenFails, Kill
<1> QED
  BY <1>5, <1>6, <1>7, <1>8, <1>9, <1>11, <1>12, <1>14, <1>15, <1>16 DEF Next, HandlerStep

(* No step changes core_pipe_limit. *)
LEMMA LimitStays == [Next]_vars => limit' = limit
<1> SUFFICES ASSUME [Next]_vars PROVE limit' = limit
  OBVIOUS
<1> USE DEF kernelVars
<1>1. ASSUME NEW h \in Handlers, NEW n \in Names, StartHandler(h, n)
      PROVE  limit' = limit
  BY <1>1 DEF StartHandler
<1>2. ASSUME NEW h \in Handlers, HandlerStep(h)
      PROVE  limit' = limit
  <2>1. CASE ReadFile(h) \/ WildDeath(h) \/ WildRecord(h) \/ Update(h) \/ OpenJournal(h)
             \/ OpenFails(h)
    BY <2>1 DEF ReadFile, WildDeath, WildRecord, Update, OpenJournal, OpenFails
  <2>2. CASE WriteStart(h) \/ WriteTotal(h) \/ WriteHead(h) \/ WriteTime(h)
             \/ WriteNewline(h) \/ CloseJournal(h)
    BY <2>2 DEF WriteStart, WriteTotal, WriteHead, WriteTime, WriteNewline, CloseJournal
  <2> QED
    BY <1>2, <2>1, <2>2 DEF HandlerStep
<1>3. ASSUME NEW h \in Handlers, Kill(h)
      PROVE  limit' = limit
  BY <1>3 DEF Kill
<1>4. CASE SkipCrash \/ Tick \/ UNCHANGED vars
  BY <1>4 DEF SkipCrash, Tick, vars
<1> QED
  BY <1>1, <1>2, <1>3, <1>4 DEF Next

(* With core_pipe_limit 1 and no failure the total of a journal at rest is *)
(* the number of crashes processed, for any number of crashes, programs    *)
(* and records: no read-modify-write of the journal is ever lost.          *)
THEOREM TotalIsExact == Spec => []TotalCountsCrashes
<1> DEFINE LimitedInv == limit = 1 => ExactInv
<1>1. LimitedInv => TotalCountsCrashes
  BY DEF ExactInv, TotalCountsCrashes, Settled, Quiet, Active, Serial
<1>2. LimitedInv /\ [Next]_vars => LimitedInv'
  BY ExactInvStep, LimitStays
<1>3. Init => LimitedInv
  BY ExactInvInit
<1> QED
  BY <1>1, <1>2, <1>3, PTL DEF Spec
----------------------------------------------------------------------------
(***************************************************************************)
(* One handler at a time, which may be killed at any step.  The file is    *)
(* then always a beginning of the text of the journal that was committed   *)
(* last, and every journal in memory holds honest records of plain names.  *)
(***************************************************************************)
PlainNames == \A n \in Names : IsPlain(n)

(* What a table reads as once its times are converted. *)
LEMMA TableIsConverted ==
  ASSUME NEW f, NEW t, IsTable(ReadJournal(f, t)), NEW z \in Shifts
  PROVE  IsMoved(ReadJournal(f, t), Converted(f, t, z))
<1> DEFINE j == ReadJournal(f, t)
<1>1. IsTable(j)
  OBVIOUS
<1> HIDE DEF j
<1>2. /\ j.recCount \in 0..MaxRecs /\ j.slots \in [Slots -> Records] /\ j.start \in Times
      /\ j \in Journals
  BY <1>1 DEF IsTable, IsJournal, Journals
<1>3. ASSUME NEW i \in Slots
      PROVE  Len(j.slots[i].times) <= MaxLast
  <2>1. CASE i > j.recCount
    BY <1>1, <2>1, BoundsAssumption DEF IsTable, BlankRecord
  <2>2. CASE ~(i > j.recCount)
    <3>1. i \in 1..j.recCount
      BY <1>2, <2>2, BoundsAssumption DEF Slots
    <3> QED
      BY <1>1, <3>1 DEF IsTable
  <2> QED
    BY <2>1, <2>2
<1>4. z \in AllShifts
  BY DataAssumption
<1> QED
  BY <1>2, <1>3, <1>4, ConvertedMoves DEF j

(* How far a handler that writes the committed journal has got. *)
WritingAt(h, p) ==
  /\ mem[h] = committed
  /\ pc[h] = "start" => Len(journal) = 0 /\ rec[h] = 1
  /\ pc[h] = "total" => Len(journal) = 1 /\ rec[h] = 1
  /\ pc[h] = "head" => /\ rec[h] \in 1..(committed.recCount + 1)
                       /\ Len(journal) + 1 = p[rec[h]]
  /\ pc[h] = "times" =>
       /\ rec[h] \in 1..committed.recCount
       /\ tim[h] \in 1..(Len(committed.slots[rec[h]].times) + 1)
       /\ Len(journal) + 1 = p[rec[h]] + tim[h]

FileIsText ==
  \E p \in Places(committed) :
    /\ BeginsText(journal, committed, p)
    /\ \A h \in Handlers : pc[h] \in Writing => WritingAt(h, p)

(* What was read is one more conversion away from the crashes it tells of. *)
MemoryIsTable(h) ==
  /\ pc[h] = "update" => IsTable(mem[h]) /\ AllHonest(log, Len(log) + 1, mem[h])
  /\ pc[h] = "open"   => IsTable(mem[h]) /\ AllHonest(log, Len(log), mem[h])

TextInv ==
  /\ IsTable(committed) /\ AllHonest(log, Len(log), committed)
  /\ FileIsText
  /\ \A h \in Handlers : MemoryIsTable(h)

Loops ==
  /\ rec \in [Handlers -> Nat]
  /\ tim \in [Handlers -> Nat]
  /\ \A h \in Handlers : pc[h] # "idle" => crash[h].name \in Names

SerialInv ==
  /\ TotalInv
  /\ OneHandler
  /\ Loops
  /\ badWrites = 0 /\ ~spoilt => TextInv

(* The loop variables of a handler have their types. *)
LEMMA LoopsStep ==
  ASSUME ControlType, Loops, [Next]_vars
  PROVE  Loops'
<1> USE DEF Loops, ControlType
<1>1. ASSUME NEW h \in Handlers, NEW n \in Names, StartHandler(h, n)
      PROVE  Loops'
  BY <1>1 DEF StartHandler, cursors
<1>2. CASE SkipCrash \/ Tick \/ UNCHANGED vars
  BY <1>2 DEF SkipCrash, Tick, vars, cursors
<1>3. ASSUME NEW h \in Handlers, WildDeath(h) \/ OpenFails(h) \/ CloseJournal(h) \/ Kill(h)
      PROVE  Loops'
  <2>1. Exit(h)
    BY <1>3 DEF WildDeath, OpenFails, CloseJournal, Kill
  <2> QED
    BY <2>1 DEF Exit
<1>4. ASSUME NEW h \in Handlers, ReadFile(h) \/ WildRecord(h) \/ Update(h)
      PROVE  Loops'
  BY <1>4 DEF ReadFile, WildRecord, Update, cursors
<1>5. ASSUME NEW h \in Handlers, OpenJournal(h)
      PROVE  Loops'
  BY <1>5 DEF OpenJournal
<1>6. ASSUME NEW h \in Handlers, WriteStart(h) \/ WriteTotal(h) \/ WriteHead(h)
      PROVE  Loops'
  <2>1. crash' = crash /\ rec' = rec /\ pc[h] # "idle"
    BY <1>6 DEF WriteStart, WriteTotal, WriteHead
  <2>2. \A g \in Handlers : pc'[g] # "idle" => pc[g] # "idle"
    BY <1>6, <2>1 DEF WriteStart, WriteTotal, WriteHead
  <2>3. tim' = tim \/ tim' = [tim EXCEPT ![h] = 1]
    BY <1>6 DEF WriteStart, WriteTotal, WriteHead
  <2>4. tim' \in [Handlers -> Nat]
    <3>1. tim \in [Handlers -> Nat] /\ 1 \in Nat
      OBVIOUS
    <3>2. CASE tim' = tim
      BY ONLY <3>1, <3>2
    <3>3. CASE tim' = [tim EXCEPT ![h] = 1]
      BY ONLY <3>1, <3>3
    <3> QED
      BY <2>3, <3>2, <3>3
  <2>5. \A g \in Handlers : pc'[g] # "idle" => crash'[g].name \in Names
    BY <2>1, <2>2
  <2> QED
    BY <2>1, <2>4, <2>5
<1>7. ASSUME NEW h \in Handlers, WriteTime(h)
      PROVE  Loops'
  BY <1>7 DEF WriteTime
<1>8. ASSUME NEW h \in Handlers, WriteNewline(h)
      PROVE  Loops'
  BY <1>8 DEF WriteNewline
<1> QED
  BY <1>1, <1>2, <1>3, <1>4, <1>5, <1>6, <1>7, <1>8 DEF Next, HandlerStep

(* A write that failed before has failed, and a journal that was spoilt    *)
(* before is.                                                              *)
LEMMA BadWritesCount ==
  ASSUME ControlType, [Next]_vars, badWrites' = 0, ~spoilt'
  PROVE  badWrites = 0 /\ ~spoilt
<1>1. badWrites \in Nat
  BY DEF ControlType
<1> DEFINE Goal == badWrites = 0 /\ ~spoilt
<1>2. ASSUME NEW h \in Handlers, NEW n \in Names, StartHandler(h, n)
      PROVE  Goal
  BY <1>2 DEF StartHandler, faultVars
<1>3. CASE SkipCrash \/ Tick \/ UNCHANGED vars
  BY <1>3 DEF SkipCrash, Tick, vars, faultVars
<1>4. ASSUME NEW h \in Handlers,
             ReadFile(h) \/ WildDeath(h) \/ WildRecord(h) \/ Update(h) \/ OpenJournal(h)
             \/ OpenFails(h) \/ CloseJournal(h) \/ Kill(h)
      PROVE  Goal
  BY <1>4 DEF ReadFile, WildDeath, WildRecord, Update, OpenJournal, OpenFails,
              CloseJournal, Kill, Fault, WildFault, faultVars
<1>5. ASSUME NEW h \in Handlers, NEW c, Write(h, c)
      PROVE  Goal
  BY <1>1, <1>5 DEF Write, BadWrite, Tear, faultVars
<1>6. ASSUME NEW h \in Handlers,
             WriteStart(h) \/ WriteTotal(h) \/ WriteHead(h) \/ WriteTime(h) \/ WriteNewline(h)
      PROVE  Goal
  BY <1>5, <1>6 DEF WriteStart, WriteTotal, WriteHead, WriteTime, WriteNewline
<1> QED
  BY <1>2, <1>3, <1>4, <1>6 DEF Next, HandlerStep

(* The invariant holds at the start. *)
LEMMA SerialInvInit == Init => SerialInv
<1> SUFFICES ASSUME Init PROVE SerialInv
  OBVIOUS
<1>1. /\ journal = <<>> /\ committed = NoJournal
      /\ \A h \in Handlers : pc[h] = "idle"
      /\ rec \in [Handlers -> Nat] /\ tim \in [Handlers -> Nat]
  BY DEF Init
<1>2. IsTable(committed) /\ committed.recCount = 0
  BY <1>1, BlankIsTable, NoTimeIsTime DEF BlankJournal, NoJournal
<1>3. PICK p : p \in Places(committed)
  BY <1>2, PlacesExist
<1>4. FileIsText
  BY <1>1, <1>2, <1>3, NothingWritten DEF FileIsText, Writing
<1>5. AllHonest(log, Len(log), committed)
  BY <1>2 DEF AllHonest
<1> QED
  BY <1>1, <1>2, <1>4, <1>5, TotalInvInit
     DEF SerialInv, OneHandler, Writing, Loops, TextInv, MemoryIsTable

(* A step of h that writes the next chunk of the text. *)
LEMMA NextChunkWritten ==
  ASSUME TotalInv, OneHandler, TextInv, ~spoilt, NEW h \in Handlers, pc[h] \in Writing,
         NEW p \in Places(committed), BeginsText(journal, committed, p), WritingAt(h, p),
         NEW c, Write(h, c), badWrites' = 0,
         \/ Len(journal) = 0 /\ c = StartChunk(committed.start)
         \/ Len(journal) = 1 /\ c = TotalChunk(committed.count)
         \/ \E r \in 1..committed.recCount :
              \E a \in 0..(Len(committed.slots[r].times) + 1) :
                Len(journal) + 1 = p[r] + a /\ c = RecordChunk(committed.slots[r], a),
         UNCHANGED << mem, committed, log >>,
         pc'[h] \in Writing,
         \A g \in Handlers \ {h} : pc'[g] = pc[g],
         Len(journal') = Len(journal) + 1 => WritingAt(h, p)'
  PROVE  TextInv'
<1>1. IsTable(committed) /\ AllHonest(log, Len(log), committed)
  BY DEF TextInv
<1>2. /\ IsSequence(journal')
      /\ Len(journal') = Len(journal) + 1
      /\ journal'[Len(journal) + 1] = c
      /\ \A i \in 1..Len(journal) : journal'[i] = journal[i]
  BY <1>1, ChunkIsAppended
<1>3. BeginsText(journal', committed, p)
  BY <1>1, <1>2, TextGrows
<1>4. WritingAt(h, p)'
  BY <1>2
<1>5. \A g \in Handlers \ {h} : pc[g] = "idle" /\ pc'[g] = "idle"
  BY DEF OneHandler, Writing
<1>6. FileIsText'
  <2>1. \A g \in Handlers : pc'[g] \in Writing => g = h
    BY <1>5 DEF Writing
  <2>2. p \in Places(committed') /\ BeginsText(journal', committed', p)
    BY <1>3
  <2> QED
    BY <1>4, <2>1, <2>2 DEF FileIsText
<1>7. \A g \in Handlers : MemoryIsTable(g)'
  BY <1>5 DEF MemoryIsTable, Writing
<1> QED
  BY <1>1, <1>6, <1>7 DEF TextInv
(* Every step of a system with one handler at a time keeps the invariant. *)
LEMMA SerialInvStep ==
  ASSUME PlainNames, limit = 1, SerialInv, [Next]_vars
  PROVE  SerialInv'
<1>1. TotalInv' /\ OneHandler' /\ Loops'
  BY TotalInvStep, OneHandlerStep, LoopsStep DEF SerialInv, TotalInv
<1> SUFFICES ASSUME badWrites' = 0, ~spoilt' PROVE TextInv'
  BY <1>1 DEF SerialInv
<1>2. /\ badWrites = 0 /\ ~spoilt
      /\ TotalInv /\ ControlType /\ OneHandler /\ Loops /\ TextInv
  BY BadWritesCount DEF SerialInv, TotalInv
<1>3. IsTable(committed) /\ AllHonest(log, Len(log), committed) /\ FileIsText
      /\ \A h \in Handlers : MemoryIsTable(h)
  BY <1>2 DEF TextInv
<1>4. /\ pc \in [Handlers -> Steps] /\ mem = [h \in Handlers |-> mem[h]]
      /\ log \in Seq(CrashEntries) /\ Len(log) \in Nat /\ now \in Nat
      /\ crash \in [Handlers -> [pid : Nat, name : Texts]]
      /\ rec \in [Handlers -> Nat] /\ tim \in [Handlers -> Nat]
  BY <1>2 DEF ControlType, CrashEntries, Loops
(* Steps that leave the file and the journals alone. *)
<1>5. ASSUME UNCHANGED << journal, committed, log >>,
             \A h \in Handlers : pc'[h] \in Writing =>
               pc[h] \in Writing /\ UNCHANGED << pc[h], mem[h], rec[h], tim[h] >>,
             \A h \in Handlers : pc'[h] \in {"update", "open"} =>
               UNCHANGED << pc[h], mem[h] >>
      PROVE  TextInv'
  <2>1. PICK p \in Places(committed) :
          /\ BeginsText(journal, committed, p)
          /\ \A h \in Handlers : pc[h] \in Writing => WritingAt(h, p)
    BY <1>3 DEF FileIsText
  <2>2. ASSUME NEW h \in Handlers, pc'[h] \in Writing
        PROVE  WritingAt(h, p)'
    <3>1. /\ WritingAt(h, p) /\ pc'[h] = pc[h] /\ mem'[h] = mem[h]
          /\ rec'[h] = rec[h] /\ tim'[h] = tim[h]
          /\ journal' = journal /\ committed' = committed
      BY <1>5, <2>1, <2>2
    <3> QED
      BY <3>1 DEF WritingAt
  <2>3. FileIsText'
    BY <1>5, <2>1, <2>2 DEF FileIsText
  <2>4. \A h \in Handlers : MemoryIsTable(h)'
    BY <1>3, <1>5 DEF MemoryIsTable
  <2> QED
    BY <1>3, <1>5, <2>3, <2>4 DEF TextInv
<1>6. ASSUME NEW h \in Handlers, NEW n \in Names, StartHandler(h, n)
      PROVE  TextInv'
  <2>1. /\ pc' = [pc EXCEPT ![h] = "read"]
        /\ UNCHANGED << journal, committed, log, mem, rec, tim >>
    BY <1>6 DEF StartHandler, fileVars, cursors, histVars
  <2> QED
    BY <1>4, <1>5, <2>1 DEF Writing
<1>7. CASE SkipCrash \/ Tick \/ UNCHANGED vars
  <2>1. UNCHANGED << journal, committed, log, pc, mem, rec, tim >>
    BY <1>7 DEF SkipCrash, Tick, vars, fileVars, cursors, histVars
  <2> QED
    BY <1>5, <2>1
<1>8. ASSUME NEW h \in Handlers, WildDeath(h) \/ OpenFails(h) \/ CloseJournal(h) \/ Kill(h)
      PROVE  TextInv'
  <2>1. Exit(h) /\ UNCHANGED << journal, committed, log >> /\ pc[h] # "idle"
    BY <1>8 DEF WildDeath, OpenFails, CloseJournal, Kill, Exit, histVars
  <2>2. \A g \in Handlers : pc'[g] = "idle"
    BY <1>2, <1>4, <2>1 DEF Exit, OneHandler
  <2> QED
    BY <1>5, <2>1, <2>2 DEF Writing
(* After the other steps h is the only handler. *)
<1>9. ASSUME NEW h \in Handlers, NEW s, pc[h] # "idle", pc' = [pc EXCEPT ![h] = s]
      PROVE  /\ pc'[h] = s
             /\ \A g \in Handlers \ {h} : pc[g] = "idle" /\ pc'[g] = "idle"
  BY <1>2, <1>4, <1>9 DEF OneHandler
<1>10. ASSUME NEW h \in Handlers, ReadFile(h)
       PROVE  TextInv'
  <2>1. PICK j \in Found :
          /\ pc[h] = "read" /\ pc' = [pc EXCEPT ![h] = "update"]
          /\ mem' = [mem EXCEPT ![h] = j]
          /\ UNCHANGED << journal, committed, log >>
    BY <1>10 DEF ReadFile, fileVars, histVars
  <2>2. PICK p \in Places(committed) : BeginsText(journal, committed, p)
    BY <1>3 DEF FileIsText
  <2>3. PICK z \in Shifts : j = Converted(journal, Exact(now), z)
    BY <1>2, <2>1 DEF Found, ControlType
  <2>4. IsTable(j) /\ AllHonest(log, Len(log) + 1, j)
    <3>1. Exact(now) \in Times
      BY <1>4, ExactTimes
    <3>2. ShowsPart(ReadJournal(journal, Exact(now)), committed)
      BY <1>3, <2>2, <3>1, PartIsRead
    <3>3. IsMoved(ReadJournal(journal, Exact(now)), j)
      BY <2>3, <3>2, TableIsConverted DEF ShowsPart
    <3>4. AllHonest(log, Len(log), ReadJournal(journal, Exact(now)))
      BY <1>3, <3>2, PartIsHonest
    <3> QED
      BY <1>4, <3>2, <3>3, <3>4, TableMoves, HonestTableMoves DEF ShowsPart
  <2>5. mem'[h] = j
    BY <1>4, <2>1
  <2>6. pc'[h] = "update" /\ \A g \in Handlers \ {h} : pc'[g] = "idle"
    BY <1>9, <2>1
  <2>7. \A g \in Handlers : MemoryIsTable(g)'
    BY <2>1, <2>4, <2>5, <2>6 DEF MemoryIsTable
  <2>8. FileIsText'
    BY <2>1, <2>2, <2>6 DEF FileIsText, Writing
  <2> QED
    BY <1>3, <2>1, <2>7, <2>8 DEF TextInv
<1>11. ASSUME NEW h \in Handlers, Update(h)
       PROVE  TextInv'
  <2> DEFINE e == [pid |-> crash[h].pid, name |-> crash[h].name, time |-> now]
             j == RecordCrash(mem[h], crash[h].pid, crash[h].name, Exact(now))
  <2>1. /\ pc[h] = "update" /\ pc' = [pc EXCEPT ![h] = "open"]
        /\ mem' = [mem EXCEPT ![h] = j]
        /\ log' = Append(log, e)
        /\ UNCHANGED << journal, committed >>
    BY <1>11 DEF Update, fileVars
  <2>2. IsTable(mem[h]) /\ AllHonest(log, Len(log) + 1, mem[h])
    BY <1>3, <2>1 DEF MemoryIsTable
  <2>3. e \in CrashEntries /\ IsPlain(e.name)
    <3>1. IsPlain(crash[h].name)
      BY <1>2, <2>1 DEF Loops, PlainNames
    <3>2. crash[h] \in [pid : Nat, name : Texts]
      BY <1>4
    <3> QED
      BY <1>4, <3>1, <3>2 DEF CrashEntries
  <2>4. e.pid = crash[h].pid /\ e.name = crash[h].name /\ e.time = now
        /\ e.pid \in Nat /\ e.time \in Nat
    BY <2>3 DEF CrashEntries
  <2> HIDE DEF e
  <2>5. j = RecordCrash(mem[h], e.pid, e.name, Exact(e.time)) /\ Exact(e.time) \in Times
    BY <2>4, ExactTimes
  <2> HIDE DEF j
  <2>6. IsTable(j) /\ log' \in Seq(CrashEntries) /\ Len(log') = Len(log) + 1
    BY <1>4, <2>1, <2>2, <2>3, <2>4, <2>5, CrashKeepsTable
  <2>7. AllHonest(log', Len(log'), j)
    BY <1>4, <2>1, <2>2, <2>3, <2>5, <2>6, CrashKeepsHonest
  <2>13. AllHonest(log', Len(log'), committed)
    <3> SUFFICES ASSUME NEW i \in 1..committed.recCount
                 PROVE  IsHonest(log', Len(log'), committed.slots[i])
      BY DEF AllHonest
    <3>1. IsHonest(log, Len(log), committed.slots[i]) /\ committed.slots[i] \in Records
      BY <1>3, TableFacts DEF AllHonest
    <3>2. IsHonest(log', Len(log), committed.slots[i])
      BY <1>4, <2>1, <2>3, <3>1, HonestStays
    <3> QED
      BY <1>4, <2>6, <3>1, <3>2, HonestWaits
  <2>8. mem'[h] = j
    BY <1>4, <2>1
  <2>9. pc'[h] = "open" /\ \A g \in Handlers \ {h} : pc'[g] = "idle"
    BY <1>9, <2>1
  <2>10. \A g \in Handlers : MemoryIsTable(g)'
    BY <2>6, <2>7, <2>8, <2>9 DEF MemoryIsTable
  <2>11. PICK p \in Places(committed) : BeginsText(journal, committed, p)
    BY <1>3 DEF FileIsText
  <2>12. FileIsText'
    BY <2>1, <2>9, <2>11 DEF FileIsText, Writing
  <2> QED
    BY <1>3, <2>1, <2>10, <2>12, <2>13 DEF TextInv
<1>12. ASSUME NEW h \in Handlers, OpenJournal(h)
       PROVE  TextInv'
  <2>1. /\ pc[h] = "open" /\ pc' = [pc EXCEPT ![h] = "start"]
        /\ journal' = <<>> /\ committed' = mem[h]
        /\ rec' = [rec EXCEPT ![h] = 1]
        /\ UNCHANGED << mem, log >>
    BY <1>12 DEF OpenJournal
  <2>2. IsTable(committed') /\ AllHonest(log', Len(log'), committed')
    BY <1>3, <2>1 DEF MemoryIsTable
  <2>3. PICK p : p \in Places(committed')
    BY <2>2, PlacesExist
  <2>4. BeginsText(journal', committed', p)
    BY <2>1, <2>2, <2>3, NothingWritten
  <2>5. pc'[h] = "start" /\ \A g \in Handlers \ {h} : pc'[g] = "idle"
    BY <1>9, <2>1
  <2>6. rec'[h] = 1 /\ Len(journal') = 0
    BY <1>2, <1>4, <2>1 DEF ControlType
  <2>7. WritingAt(h, p)'
    BY <2>1, <2>5, <2>6 DEF WritingAt
  <2>8. FileIsText'
    BY <2>3, <2>4, <2>5, <2>7 DEF FileIsText, Writing
  <2>9. \A g \in Handlers : MemoryIsTable(g)'
    BY <2>5 DEF MemoryIsTable
  <2> QED
    BY <2>2, <2>8, <2>9 DEF TextInv
<1>13. ASSUME NEW h \in Handlers,
              WriteStart(h) \/ WriteTotal(h) \/ WriteHead(h) \/ WriteTime(h) \/ WriteNewline(h)
       PROVE  TextInv'
  <2>1. pc[h] \in Writing
    BY <1>13 DEF WriteStart, WriteTotal, WriteHead, WriteTime, WriteNewline, Writing
  <2>2. PICK p \in Places(committed) :
          /\ BeginsText(journal, committed, p)
          /\ \A g \in Handlers : pc[g] \in Writing => WritingAt(g, p)
    BY <1>3 DEF FileIsText
  <2>3. /\ WritingAt(h, p) /\ mem[h] = committed
        /\ UNCHANGED << mem, committed, log >>
    BY <1>13, <2>1, <2>2 DEF WritingAt, WriteStart, WriteTotal, WriteHead, WriteTime,
                             WriteNewline, histVars
  <2>4. Len(journal) \in Nat /\ committed.recCount \in Nat
    BY <1>2, <1>3, TableFacts DEF ControlType, IsSequence
  <2>5. ASSUME NEW r \in 1..committed.recCount
        PROVE  /\ Len(committed.slots[r].times) \in Nat
               /\ p[r] \in Nat /\ p[r + 1] = p[r] + Len(committed.slots[r].times) + 2
    <3>1. r \in 1..(committed.recCount + 1)
      BY <2>4
    <3> QED
      BY <1>3, <2>2, <3>1, PlacesAscend
  <2>6. p[1] = 3
    BY <1>3, <2>2, PlacesAscend
  (* What is left to show of each kind of write. *)
  <2>7. ASSUME NEW c, Write(h, c),
               \/ Len(journal) = 0 /\ c = StartChunk(committed.start)
               \/ Len(journal) = 1 /\ c = TotalChunk(committed.count)
               \/ \E r \in 1..committed.recCount :
                    \E a \in 0..(Len(committed.slots[r].times) + 1) :
                      Len(journal) + 1 = p[r] + a /\ c = RecordChunk(committed.slots[r], a),
               pc'[h] \in Writing,
               \A g \in Handlers \ {h} : pc'[g] = pc[g],
               Len(journal') = Len(journal) + 1 => WritingAt(h, p)'
        PROVE  TextInv'
    BY <1>2, <2>1, <2>2, <2>3, <2>7, NextChunkWritten
  <2>8. CASE WriteStart(h)
    <3>1. /\ pc[h] = "start" /\ pc' = [pc EXCEPT ![h] = "total"]
          /\ Write(h, StartChunk(committed.start)) /\ UNCHANGED rec
      BY <2>3, <2>8 DEF WriteStart
    <3>2. pc'[h] = "total" /\ \A g \in Handlers \ {h} : pc'[g] = pc[g]
      BY <1>4, <3>1
    <3>3. Len(journal) = 0 /\ rec[h] = 1
      BY <2>3, <3>1 DEF WritingAt
    <3>4. Len(journal') = Len(journal) + 1 => WritingAt(h, p)'
      BY <2>3, <3>1, <3>2, <3>3 DEF WritingAt
    <3> QED
      BY <2>7, <3>1, <3>2, <3>3, <3>4 DEF Writing
  <2>9. CASE WriteTotal(h)
    <3>1. /\ pc[h] = "total" /\ pc' = [pc EXCEPT ![h] = "head"]
          /\ Write(h, TotalChunk(committed.count)) /\ UNCHANGED rec
      BY <2>3, <2>9 DEF WriteTotal
    <3>2. pc'[h] = "head" /\ \A g \in Handlers \ {h} : pc'[g] = pc[g]
      BY <1>4, <3>1
    <3>3. Len(journal) = 1 /\ rec[h] = 1
      BY <2>3, <3>1 DEF WritingAt
    <3>4. Len(journal') = Len(journal) + 1 => WritingAt(h, p)'
      BY <2>3, <2>4, <2>6, <3>1, <3>2, <3>3 DEF WritingAt
    <3> QED
      BY <2>7, <3>1, <3>2, <3>3, <3>4 DEF Writing
  <2>10. CASE WriteHead(h)
    <3> DEFINE r == rec[h]
    <3>1. /\ pc[h] = "head" /\ pc' = [pc EXCEPT ![h] = "times"]
          /\ r <= committed.recCount
          /\ Write(h, HeadChunk(committed.slots[r])) /\ UNCHANGED rec
          /\ tim' = [tim EXCEPT ![h] = 1]
      BY <2>3, <2>10 DEF WriteHead
    <3>2. /\ pc'[h] = "times" /\ tim'[h] = 1 /\ \A g \in Handlers \ {h} : pc'[g] = pc[g]
      BY <1>4, <3>1
    <3>3. r \in 1..committed.recCount /\ Len(journal) + 1 = p[r] /\ rec'[h] = r
      BY <2>3, <2>4, <3>1 DEF WritingAt
    <3>4. HeadChunk(committed.slots[r]) = RecordChunk(committed.slots[r], 0)
      BY DEF RecordChunk
    <3> HIDE DEF r
    <3> DEFINE n == Len(committed.slots[r].times)
    <3>5. n \in Nat /\ p[r] \in Nat
      BY <2>5, <3>3
    <3>6. Len(journal) + 1 = p[r] + 0 /\ 0 \in 0..(n + 1) /\ 1 \in 1..(n + 1)
      BY <3>3, <3>5
    <3>7. Len(journal') = Len(journal) + 1 => WritingAt(h, p)'
      <4> SUFFICES ASSUME Len(journal') = Len(journal) + 1
                   PROVE  WritingAt(h, p)'
        OBVIOUS
      <4>1. Len(journal') + 1 = p[rec'[h]] + tim'[h]
        BY <3>2, <3>3
      <4>2. tim'[h] \in 1..(Len(committed'.slots[rec'[h]].times) + 1)
        BY <2>3, <3>2, <3>3, <3>6
      <4> QED
        BY <2>3, <3>2, <3>3, <4>1, <4>2 DEF WritingAt
    <3>8. \E a \in 0..(n + 1) : Len(journal) + 1 = p[r] + a
                                 /\ HeadChunk(committed.slots[r]) = RecordChunk(committed.slots[r], a)
      BY <3>4, <3>6
    <3>9. pc'[h] \in Writing
      BY <3>2 DEF Writing
    <3> QED
      BY <2>7, <3>1, <3>2, <3>3, <3>7, <3>8, <3>9
  <2>11. CASE WriteTime(h)
    <3> DEFINE r == rec[h]
               a == tim[h]
               n == Len(committed.slots[r].times)
               c == TimeChunk(committed.slots[r].times[a])
    <3>1. /\ pc[h] = "times" /\ UNCHANGED << pc, rec >>
          /\ a <= n
          /\ Write(h, c)
          /\ tim' = [tim EXCEPT ![h] = a + 1]
      BY <2>3, <2>11 DEF WriteTime, CurrentTimes
    <3>2. /\ pc'[h] = "times" /\ tim'[h] = a + 1 /\ \A g \in Handlers \ {h} : pc'[g] = pc[g]
      BY <1>4, <3>1
    <3>3. /\ r \in 1..committed.recCount /\ Len(journal) + 1 = p[r] + a /\ rec'[h] = r
          /\ a \in 1..(n + 1)
      BY <2>3, <3>1 DEF WritingAt
    <3>4. n \in Nat /\ p[r] \in Nat
      BY <2>5, <3>3
    <3>5. c = RecordChunk(committed.slots[r], a)
      BY <3>1, <3>3, <3>4 DEF RecordChunk
    <3>6. Len(committed'.slots[rec'[h]].times) = n
      BY <2>3, <3>3
    <3> HIDE DEF r, a, n, c
    <3>7. a \in 0..(n + 1) /\ a + 1 \in 1..(n + 1)
      BY <3>1, <3>3, <3>4
    <3>8. Len(journal') = Len(journal) + 1 => WritingAt(h, p)'
      <4> SUFFICES ASSUME Len(journal') = Len(journal) + 1
                   PROVE  WritingAt(h, p)'
        OBVIOUS
      <4>1. Len(journal') + 1 = p[rec'[h]] + tim'[h]
        <5> DEFINE l == Len(journal)
                   q == p[r]
        <5>1. l \in Nat /\ q \in Nat /\ a \in Nat /\ l + 1 = q + a
          BY <2>4, <3>3, <3>4, <3>7
        <5>2. Len(journal') = l + 1 /\ p[rec'[h]] = q /\ tim'[h] = a + 1
          BY <3>2, <3>3
        <5> HIDE DEF l, q
        <5> QED
          BY <5>1, <5>2
      <4>2. tim'[h] \in 1..(Len(committed'.slots[rec'[h]].times) + 1)
        BY <3>2, <3>6, <3>7
      <4> QED
        BY <2>3, <3>2, <3>3, <4>1, <4>2 DEF WritingAt
    <3>9. \E b \in 0..(n + 1) : Len(journal) + 1 = p[r] + b /\ c = RecordChunk(committed.slots[r], b)
      BY <3>3, <3>5, <3>7
    <3>10. pc'[h] \in Writing
      BY <3>2 DEF Writing
    <3> QED
      BY <2>7, <3>1, <3>2, <3>3, <3>8, <3>9, <3>10 DEF n
  <2>12. CASE WriteNewline(h)
    <3> DEFINE r == rec[h]
               a == tim[h]
               n == Len(committed.slots[r].times)
    <3>1. /\ pc[h] = "times" /\ pc' = [pc EXCEPT ![h] = "head"]
          /\ a > n
          /\ Write(h, NewlineChunk)
          /\ rec' = [rec EXCEPT ![h] = r + 1]
      BY <2>3, <2>12 DEF WriteNewline, CurrentTimes
    <3>2. /\ pc'[h] = "head" /\ rec'[h] = r + 1 /\ \A g \in Handlers \ {h} : pc'[g] = pc[g]
      BY <1>4, <3>1
    <3>3. /\ r \in 1..committed.recCount /\ Len(journal) + 1 = p[r] + a
          /\ a \in 1..(n + 1)
      BY <2>3, <3>1 DEF WritingAt
    <3>4. n \in Nat /\ p[r] \in Nat /\ p[r + 1] = p[r] + n + 2
      BY <2>5, <3>3
    <3>5. NewlineChunk = RecordChunk(committed.slots[r], n + 1)
      <4> DEFINE s == committed.slots[r]
      <4>1. Len(s.times) = n
        OBVIOUS
      <4> HIDE DEF s, n
      <4>2. NewlineChunk = RecordChunk(s, n + 1)
        BY <3>4, <4>1 DEF RecordChunk
      <4> QED
        BY <4>2 DEF s
    <3> HIDE DEF r, a, n
    <3>6. a = n + 1 /\ n + 1 \in 0..(n + 1)
      BY <3>1, <3>3, <3>4
    <3>7. Len(journal') = Len(journal) + 1 => WritingAt(h, p)'
      <4> SUFFICES ASSUME Len(journal') = Len(journal) + 1
                   PROVE  WritingAt(h, p)'
        OBVIOUS
      <4>1. Len(journal') + 1 = p[rec'[h]]
        <5>1. /\ Len(journal) \in Nat /\ n \in Nat /\ p[r] \in Nat
              /\ Len(journal) + 1 = p[r] + (n + 1)
              /\ p[rec'[h]] = p[r] + n + 2
          BY <2>4, <3>2, <3>3, <3>4, <3>6
        <5> QED
          BY <5>1
      <4>2. rec'[h] \in 1..(committed'.recCount + 1)
        BY <2>3, <2>4, <3>2, <3>3
      <4> QED
        BY <2>3, <3>2, <4>1, <4>2 DEF WritingAt
    <3>8. \E b \in 0..(n + 1) : Len(journal) + 1 = p[r] + b
                                 /\ NewlineChunk = RecordChunk(committed.slots[r], b)
      BY <3>3, <3>5, <3>6
    <3>9. pc'[h] \in Writing
      BY <3>2 DEF Writing
    <3> QED
      BY <2>7, <3>1, <3>2, <3>3, <3>7, <3>8, <3>9 DEF n
  <2> QED
    BY <1>13, <2>8, <2>9, <2>10, <2>11, <2>12
<1>14. ASSUME NEW h \in Handlers, WildRecord(h)
       PROVE  FALSE
  BY <1>14 DEF WildRecord
<1> QED
  BY <1>6, <1>7, <1>8, <1>10, <1>11, <1>12, <1>13, <1>14 DEF Next, HandlerStep

(* What a reader of the file finds in any state: a part of the journal that *)
(* was committed last.                                                     *)
LEMMA FileShowsPart ==
  ASSUME SerialInv, badWrites = 0, ~spoilt
  PROVE  /\ ShowsPart(OnDisk, committed)
         /\ IsTable(OnDisk)
         /\ AllHonest(log, Len(log), OnDisk)
<1>1. IsTable(committed) /\ AllHonest(log, Len(log), committed) /\ FileIsText
  BY DEF SerialInv, TextInv
<1>2. PICK p \in Places(committed) : BeginsText(journal, committed, p)
  BY <1>1 DEF FileIsText
<1>3. Exact(now) \in Times
  BY ExactTimes DEF SerialInv, TotalInv, ControlType
<1>4. ShowsPart(OnDisk, committed)
  BY <1>1, <1>2, <1>3, PartIsRead DEF OnDisk
<1> QED
  BY <1>1, <1>4, PartIsHonest DEF ShowsPart

(* With core_pipe_limit 1 the invariant holds in every state. *)
LEMMA SerialInvAlways ==
  ASSUME PlainNames
  PROVE  Spec => [](limit = 1 => SerialInv)
<1> DEFINE LimitedInv == limit = 1 => SerialInv
<1>1. LimitedInv /\ [Next]_vars => LimitedInv'
  BY SerialInvStep, LimitStays
<1>2. Init => LimitedInv
  BY SerialInvInit
<1> QED
  BY <1>1, <1>2, PTL DEF Spec

(* With core_pipe_limit 1 no record of the file ever counts more crashes   *)
(* of its program than there were, at whatever system call the handlers    *)
(* are killed (record_crash_to_journal, write_crash_journal and            *)
(* read_crash_journal together).                                           *)
THEOREM CountsAreNeverOverstated ==
  ASSUME PlainNames
  PROVE  Spec => []CountsNeverOverstated
<1>1. (limit = 1 => SerialInv) => CountsNeverOverstated
  <2> SUFFICES ASSUME limit = 1, SerialInv, ~spoilt, badWrites = 0, NEW r \in Entries
               PROVE  r.count <= Cardinality(CrashesOf(r.name, 1))
    BY DEF CountsNeverOverstated, Serial
  <2>1. PICK i \in 1..OnDisk.recCount : r = OnDisk.slots[i]
    BY DEF Entries
  <2>2. IsHonest(log, Len(log), r)
    BY <2>1, FileShowsPart DEF AllHonest
  <2> QED
    BY <2>2 DEF IsHonest, CrashesIn, CrashesOf
<1> QED
  BY <1>1, SerialInvAlways, PTL

(* Nor does a record ever show a time at which its program did not crash,  *)
(* but for an hour at most for each handler that rewrote the journal since *)
(* and converted its text (strptime and mktime in read_record).             *)
THEOREM TimesAreAlwaysGenuine ==
  ASSUME PlainNames
  PROVE  Spec => []TimesAreGenuine
<1>1. (limit = 1 => SerialInv) => TimesAreGenuine
  <2> SUFFICES ASSUME limit = 1, SerialInv, ~spoilt, badWrites = 0,
                      NEW r \in Entries, NEW q \in 1..Len(r.times)
               PROVE  \E i \in CrashesOf(r.name, 1) : Drifted(log, i, r.times[q], Len(log))
    BY DEF TimesAreGenuine, Serial, Drifted
  <2>1. PICK i \in 1..OnDisk.recCount : r = OnDisk.slots[i]
    BY DEF Entries
  <2>2. IsHonest(log, Len(log), r)
    BY <2>1, FileShowsPart DEF AllHonest
  <2> QED
    BY <2>2 DEF IsHonest, CrashesIn, CrashesOf
<1> QED
  BY <1>1, SerialInvAlways, PTL
----------------------------------------------------------------------------
(***************************************************************************)
(* One handler at a time and no failure: the file is the whole text of the *)
(* committed journal whenever no handler is writing, so that what one      *)
(* handler committed is what the next one reads.                           *)
(***************************************************************************)
Clock == {1} \cup 1..MaxTime[limit]

Whole ==
  \E p \in Places(committed) :
    BeginsText(journal, committed, p) /\ Len(journal) = p[committed.recCount + 1] - 1

AtRest ==
  IF committed.count = 0 THEN journal = <<>> /\ committed = NoJournal ELSE Whole

(* The journal in memory is what was read of the committed one, its times  *)
(* converted.                                                              *)
IsRead(j) ==
  IF committed.count = 0
  THEN \E s \in Times : s.at \in Clock /\ j = BlankJournal(s)
  ELSE IsMoved(committed, j)

(* A journal that was read and updated. *)
IsUpdated(g) ==
  \E j : \E pid \in 1..MaxCrashes[limit], name \in Names, t \in Clock :
    IsTable(j) /\ IsRead(j) /\ g = RecordCrash(j, pid, name, Exact(t))

Bounded ==
  /\ now \in Clock
  /\ limit \in Limits
  /\ \A h \in Handlers : pc[h] # "idle" => crash[h].pid \in 1..MaxCrashes[limit]

AllKept ==
  /\ (\A h \in Handlers : pc[h] \notin Writing) => AtRest
  /\ \A h \in Handlers :
       /\ pc[h] \in Writing => committed.count # 0
       /\ pc[h] = "update" => IsRead(mem[h])
       /\ pc[h] = "open" => IsUpdated(mem[h]) /\ IsExact(log, mem[h])
  /\ (\A h \in Handlers : pc[h] # "open") => IsExact(log, committed)

KeptInv ==
  /\ SerialInv
  /\ ExactInv
  /\ Bounded
  /\ NoFailure => AllKept

(* The clock and the crashes stay within the bounds of the limit. *)
LEMMA BoundedStep ==
  ASSUME ControlType, Bounded, [Next]_vars
  PROVE  Bounded'
<1>1. limit' = limit /\ Clock' = Clock
  BY LimitStays DEF Clock
<1> USE DEF Bounded, ControlType
<1>2. ASSUME NEW h \in Handlers, NEW n \in Names, StartHandler(h, n)
      PROVE  Bounded'
  <2>1. crashes \in Nat /\ MaxCrashes[limit] \in Nat
    BY BoundAssumption
  <2>2. /\ crashes + 1 \in 1..MaxCrashes[limit] /\ now' = now
        /\ pc' = [pc EXCEPT ![h] = "read"]
        /\ crash' = [crash EXCEPT ![h] = [pid |-> crashes + 1, name |-> n]]
    BY <1>2, <2>1 DEF StartHandler
  <2> QED
    BY <1>1, <2>2
<1>3. CASE SkipCrash \/ UNCHANGED vars
  BY <1>1, <1>3 DEF SkipCrash, vars
<1>4. CASE Tick
  <2>1. now \in Nat /\ MaxTime[limit] \in Nat /\ now >= 1
    BY BoundAssumption DEF Clock
  <2>2. now + 1 \in Clock
    BY <1>4, <2>1 DEF Tick, Clock
  <2> QED
    BY <1>1, <1>4, <2>2 DEF Tick
<1>5. ASSUME NEW h \in Handlers, HandlerStep(h) \/ Kill(h)
      PROVE  Bounded'
  <2>1. /\ now' = now /\ pc[h] # "idle" /\ \A g \in Handlers \ {h} : pc'[g] = pc[g]
        /\ \A g \in Handlers : pc'[g] # "idle" => crash'[g] = crash[g]
    BY <1>5 DEF HandlerStep, Kill, ReadFile, WildDeath, WildRecord, Update, OpenJournal,
                OpenFails, WriteStart, WriteTotal, WriteHead, WriteTime, WriteNewline,
                CloseJournal, Exit
  <2> QED
    BY <1>1, <2>1
<1> QED
  BY <1>2, <1>3, <1>4, <1>5 DEF Next

(* What has not failed now had not failed before. *)
LEMMA FailuresCount ==
  ASSUME ControlType, [Next]_vars, NoFailure'
  PROVE  NoFailure /\ ~Fault /\ ~WildFault
<1>1. {faults, badWrites, wilds} \subseteq Nat
  BY DEF ControlType
<1>2. ~Fault /\ ~WildFault /\ ~BadWrite
  BY <1>1 DEF Fault, WildFault, BadWrite, NoFailure
<1>3. UNCHANGED faultVars => NoFailure
  BY DEF faultVars, NoFailure
<1>4. ASSUME NEW h \in Handlers, NEW n \in Names, StartHandler(h, n)
      PROVE  UNCHANGED faultVars
  BY <1>4 DEF StartHandler
<1>5. ASSUME SkipCrash \/ Tick \/ UNCHANGED vars
      PROVE  UNCHANGED faultVars
  BY <1>5 DEF SkipCrash, Tick, vars, faultVars
<1>6. ASSUME NEW h \in Handlers, HandlerStep(h) \/ Kill(h)
      PROVE  UNCHANGED faultVars
  BY <1>2, <1>6 DEF HandlerStep, Kill, ReadFile, WildDeath, WildRecord, Update, OpenJournal,
              OpenFails, WriteStart, WriteTotal, WriteHead, WriteTime, WriteNewline,
              CloseJournal, Write
<1> QED
  BY <1>2, <1>3, <1>4, <1>5, <1>6 DEF Next

(* The invariant holds at the start. *)
LEMMA KeptInvInit == Init => KeptInv
<1> SUFFICES ASSUME Init PROVE KeptInv
  OBVIOUS
<1>1. /\ journal = <<>> /\ committed = NoJournal /\ log = <<>> /\ now = 1
      /\ limit \in Limits /\ \A h \in Handlers : pc[h] = "idle"
  BY DEF Init
<1>2. committed.count = 0 /\ committed.recCount = 0
  BY <1>1 DEF BlankJournal, NoJournal
<1>3. NamesIn(log) = {}
  BY <1>1 DEF NamesIn
<1>4. IsExact(log, committed)
  BY <1>2, <1>3 DEF IsExact
<1> QED
  BY <1>1, <1>2, <1>4, SerialInvInit, ExactInvInit DEF KeptInv, Bounded, Clock, AllKept, AtRest, Writing

(* An empty journal whose times are converted. *)
LEMMA BlankIsMoved ==
  ASSUME NEW t, NEW j, IsMoved(BlankJournal(t), j)
  PROVE  j = BlankJournal(j.start) /\ j.start \in Times /\ j.start.at = t.at
<1>1. /\ BlankJournal(t).count = 0 /\ BlankJournal(t).recCount = 0
      /\ BlankJournal(t).start = t
      /\ \A i \in Slots : BlankJournal(t).slots[i] = BlankRecord
  BY DEF BlankJournal
<1>2. /\ j = [start |-> j.start, count |-> 0, recCount |-> 0, slots |-> j.slots]
      /\ j.slots = [i \in Slots |-> j.slots[i]]
      /\ \A i \in Slots : j.slots[i] = BlankRecord
      /\ j.start \in Times /\ j.start.at = t.at
  BY <1>1 DEF IsMoved
<1>3. j.slots = [i \in Slots |-> BlankRecord]
  BY <1>2
<1>4. j = BlankJournal(j.start)
  BY <1>2, <1>3 DEF BlankJournal
<1> QED
  BY <1>2, <1>4

(* Every step of a system with one handler at a time keeps the invariant. *)
LEMMA KeptInvStep ==
  ASSUME PlainNames, limit = 1, KeptInv, [Next]_vars
  PROVE  KeptInv'
<1>1. SerialInv /\ TotalInv /\ ControlType /\ OneHandler /\ Loops /\ Bounded
  BY DEF KeptInv, SerialInv, TotalInv
<1>2. SerialInv' /\ ExactInv' /\ Bounded'
  BY <1>1, SerialInvStep, ExactInvStep, BoundedStep DEF KeptInv
<1> SUFFICES ASSUME NoFailure' PROVE AllKept'
  BY <1>2 DEF KeptInv
<1>3. NoFailure /\ ~Fault /\ ~WildFault /\ AllKept /\ ~spoilt
  BY <1>1, FailuresCount DEF KeptInv, ExactInv
<1>4. TextInv
  BY <1>1, <1>3 DEF SerialInv, NoFailure
<1>5. /\ pc \in [Handlers -> Steps] /\ mem = [h \in Handlers |-> mem[h]]
      /\ log \in Seq(CrashEntries) /\ now \in Nat /\ torn = FALSE
      /\ crash \in [Handlers -> [pid : Nat, name : Texts]]
  BY <1>1, <1>3 DEF ControlType, CrashEntries
<1>6. Clock' = Clock /\ limit' = limit
  BY LimitStays DEF Clock
(* A step of h finds the others idle and leaves them so. *)
<1>7. ASSUME NEW h \in Handlers, NEW s, pc[h] # "idle", pc' = [pc EXCEPT ![h] = s]
      PROVE  /\ pc'[h] = s
             /\ \A g \in Handlers \ {h} : pc[g] = "idle" /\ pc'[g] = "idle"
  BY <1>1, <1>5, <1>7 DEF OneHandler
<1>8. ASSUME NEW h \in Handlers, NEW n \in Names, StartHandler(h, n)
      PROVE  AllKept'
  <2>1. /\ pc' = [pc EXCEPT ![h] = "read"]
        /\ UNCHANGED << journal, committed, log >>
    BY <1>8 DEF StartHandler, fileVars, histVars
  <2>2. \A g \in Handlers : pc[g] = "idle" /\ pc'[g] \in {"idle", "read"}
    BY <1>5, <1>8, <2>1, NoneActive DEF StartHandler
  <2>3. AtRest /\ IsExact(log, committed)
    BY <1>3, <2>2 DEF AllKept, Writing
  <2>4. AtRest'
    BY <2>1, <2>3 DEF AtRest, Whole
  <2> QED
    BY <2>1, <2>2, <2>3, <2>4 DEF AllKept, Writing
<1>9. CASE SkipCrash \/ Tick \/ UNCHANGED vars
  <2>1. UNCHANGED << journal, committed, log, pc, mem >>
    BY <1>9 DEF SkipCrash, Tick, vars, fileVars, histVars
  <2>2. AtRest => AtRest'
    BY <2>1 DEF AtRest, Whole
  <2>3. \A h \in Handlers : /\ IsRead(mem[h]) => IsRead(mem[h])'
                            /\ IsUpdated(mem[h]) => IsUpdated(mem[h])'
    BY <1>6, <2>1 DEF IsRead, IsUpdated
  <2> QED
    BY <1>3, <2>1, <2>2, <2>3 DEF AllKept
<1>10. ASSUME NEW h \in Handlers,
              WildDeath(h) \/ WildRecord(h) \/ OpenFails(h) \/ Kill(h)
       PROVE  FALSE
  BY <1>3, <1>10 DEF WildDeath, WildRecord, OpenFails, Kill
<1>11. ASSUME NEW h \in Handlers, CloseJournal(h)
       PROVE  AllKept'
  <2>1. /\ pc[h] = "head" /\ rec[h] > mem[h].recCount
        /\ pc' = [pc EXCEPT ![h] = "idle"]
        /\ UNCHANGED << journal, committed, log >>
    BY <1>11 DEF CloseJournal, Exit, histVars
  <2>2. PICK p \in Places(committed) :
          /\ BeginsText(journal, committed, p)
          /\ \A g \in Handlers : pc[g] \in Writing => WritingAt(g, p)
    BY <1>4 DEF TextInv, FileIsText
  <2>3. WritingAt(h, p) /\ committed.recCount \in Nat /\ Len(journal) \in Nat
    BY <1>1, <1>4, <2>1, <2>2, TableFacts DEF Writing, TextInv, ControlType, IsSequence
  <2>4. rec[h] = committed.recCount + 1 /\ Len(journal) + 1 = p[rec[h]]
    BY <2>1, <2>3 DEF WritingAt
  <2>5. Whole'
    <3>1. Len(journal) = p[committed.recCount + 1] - 1
      BY <2>3, <2>4
    <3> QED
      BY <2>1, <2>2, <3>1 DEF Whole
  <2>6. committed.count # 0
    BY <1>3, <2>1 DEF AllKept, Writing
  <2>7. \A g \in Handlers : pc'[g] = "idle" /\ pc[g] # "open"
    BY <1>7, <2>1
  <2>8. IsExact(log, committed)
    BY <1>3, <2>7 DEF AllKept
  <2> QED
    BY <2>1, <2>5, <2>6, <2>7, <2>8 DEF AllKept, AtRest, Writing
<1>12. ASSUME NEW h \in Handlers, ReadFile(h)
       PROVE  AllKept'
  <2>1. PICK j \in Found :
          /\ pc[h] = "read" /\ pc' = [pc EXCEPT ![h] = "update"]
          /\ mem' = [mem EXCEPT ![h] = j]
          /\ UNCHANGED << journal, committed, log >>
    BY <1>12 DEF ReadFile, fileVars, histVars
  <2>2. pc'[h] = "update" /\ \A g \in Handlers \ {h} : pc[g] = "idle" /\ pc'[g] = "idle"
    BY <1>7, <2>1
  <2>3. AtRest /\ IsExact(log, committed)
    BY <1>3, <2>1, <2>2 DEF AllKept, Writing
  <2> DEFINE x == ReadJournal(journal, Exact(now))
  <2>8. PICK z \in Shifts : j = Converted(journal, Exact(now), z)
    BY <1>5, <2>1 DEF Found
  <2>9. IsTable(x) => IsMoved(x, j)
    BY <2>8, TableIsConverted
  <2>4. ASSUME committed.count = 0 PROVE IsRead(j)
    <3>1. x = BlankJournal(Exact(now)) /\ Exact(now) \in Times /\ Exact(now).at = now
      BY <1>5, <2>3, <2>4, EmptyIsRead, ExactTimes DEF AtRest, Exact
    <3>2. IsMoved(BlankJournal(Exact(now)), j)
      BY <2>9, <3>1, BlankIsTable
    <3>3. j = BlankJournal(j.start) /\ j.start \in Times /\ j.start.at = now
      BY <3>1, <3>2, BlankIsMoved
    <3> QED
      BY <1>1, <2>4, <3>3 DEF IsRead, Bounded
  <2>5. ASSUME committed.count # 0 PROVE IsRead(j)
    <3>1. PICK p \in Places(committed) :
            BeginsText(journal, committed, p) /\ Len(journal) = p[committed.recCount + 1] - 1
      BY <2>3, <2>5 DEF AtRest, Whole
    <3>2. x = committed
      BY <1>4, <3>1, WholeIsRead DEF TextInv
    <3> QED
      BY <1>4, <2>5, <2>9, <3>2 DEF IsRead, TextInv
  <2>6. IsRead(j)
    BY <2>4, <2>5
  <2>7. IsRead(mem[h])' /\ AtRest'
    BY <1>5, <1>6, <2>1, <2>3, <2>6 DEF IsRead, AtRest, Whole
  <2> QED
    BY <2>1, <2>2, <2>3, <2>7 DEF AllKept, Writing
<1>13. ASSUME NEW h \in Handlers, Update(h)
       PROVE  AllKept'
  <2> DEFINE e == [pid |-> crash[h].pid, name |-> crash[h].name, time |-> now]
             j == mem[h]
             g == RecordCrash(j, crash[h].pid, crash[h].name, Exact(now))
  <2>1. /\ pc[h] = "update" /\ pc' = [pc EXCEPT ![h] = "open"]
        /\ mem' = [mem EXCEPT ![h] = g]
        /\ log' = Append(log, e)
        /\ UNCHANGED << journal, committed >>
    BY <1>13 DEF Update, fileVars
  <2>2. pc'[h] = "open" /\ \A i \in Handlers \ {h} : pc[i] = "idle" /\ pc'[i] = "idle"
    BY <1>7, <2>1
  <2>3. AtRest /\ IsExact(log, committed) /\ IsRead(j) /\ IsTable(j)
    BY <1>3, <1>4, <2>1, <2>2 DEF AllKept, Writing, TextInv, MemoryIsTable
  <2>4. crash[h].pid \in 1..MaxCrashes[limit] /\ crash[h].name \in Names /\ now \in Clock
    BY <1>1, <2>1 DEF Bounded, Loops
  <2>5. e \in CrashEntries /\ IsPlain(e.name)
    <3>1. IsPlain(crash[h].name)
      BY <2>4 DEF PlainNames
    <3>2. crash[h] \in [pid : Nat, name : Texts]
      BY <1>5
    <3> QED
      BY <1>5, <3>1, <3>2 DEF CrashEntries
  <2>6. e.pid = crash[h].pid /\ e.name = crash[h].name /\ e.time = now
    OBVIOUS
  <2>7. IsUpdated(g)
    BY <2>3, <2>4 DEF IsUpdated
  <2>8. IsExact(log, j)
    <3>1. CASE committed.count # 0
      BY <1>4, <2>3, <3>1, ExactMoves DEF IsRead, TextInv
    <3>2. CASE committed.count = 0
      <4>1. committed = BlankJournal(NoTime) /\ \E s \in Times : j = BlankJournal(s)
        BY <2>3, <3>2 DEF IsRead, AtRest, NoJournal
      <4> QED
        BY <2>3, <4>1, BlankIsExact
    <3> QED
      BY <3>1, <3>2
  <2> HIDE DEF e, j
  <2>9. IsExact(log', g)
    BY <1>5, <2>1, <2>3, <2>5, <2>6, <2>8, CrashKeepsExact
  <2> HIDE DEF g
  <2>10. mem'[h] = g
    BY <1>5, <2>1
  <2>11. IsUpdated(mem[h])' /\ AtRest'
    BY <1>6, <2>1, <2>3, <2>7, <2>10 DEF IsUpdated, IsRead, AtRest, Whole
  <2> QED
    BY <2>2, <2>9, <2>10, <2>11 DEF AllKept, Writing
<1>14. ASSUME NEW h \in Handlers, OpenJournal(h)
       PROVE  AllKept'
  <2>1. /\ pc[h] = "open" /\ pc' = [pc EXCEPT ![h] = "start"]
        /\ committed' = mem[h] /\ UNCHANGED log
    BY <1>14 DEF OpenJournal
  <2>2. pc'[h] = "start" /\ \A g \in Handlers \ {h} : pc[g] = "idle" /\ pc'[g] = "idle"
    BY <1>7, <2>1
  <2>3. IsUpdated(mem[h]) /\ IsExact(log, mem[h])
    BY <1>3, <2>1 DEF AllKept
  <2>4. committed'.count # 0
    <3>1. PICK j : \E pid \in 1..MaxCrashes[limit], name \in Names, t \in Clock :
                     IsTable(j) /\ mem[h] = RecordCrash(j, pid, name, Exact(t))
      BY <2>3 DEF IsUpdated
    <3>2. mem[h].count = j.count + 1 /\ j.count \in Nat
      BY <3>1, RecordCrashResult DEF IsTable, IsJournal
    <3> QED
      BY <2>1, <3>2
  <2> QED
    BY <2>1, <2>2, <2>3, <2>4 DEF AllKept, Writing
<1>15. ASSUME NEW h \in Handlers,
              WriteStart(h) \/ WriteTotal(h) \/ WriteHead(h) \/ WriteTime(h) \/ WriteNewline(h)
       PROVE  AllKept'
  <2>1. /\ pc[h] \in Writing /\ pc'[h] \in Writing
        /\ \A g \in Handlers \ {h} : pc'[g] = pc[g]
        /\ UNCHANGED << committed, log >>
    BY <1>5, <1>15 DEF WriteStart, WriteTotal, WriteHead, WriteTime, WriteNewline, Writing, histVars
  <2>2. \A g \in Handlers \ {h} : pc[g] = "idle" /\ pc'[g] = "idle"
    BY <1>1, <2>1 DEF OneHandler, Writing
  <2>3. committed.count # 0 /\ IsExact(log, committed)
    BY <1>3, <2>1, <2>2 DEF AllKept, Writing
  <2> QED
    BY <2>1, <2>2, <2>3 DEF AllKept, Writing
<1> QED
  BY <1>8, <1>9, <1>10, <1>11, <1>12, <1>13, <1>14, <1>15 DEF Next, HandlerStep

(* With core_pipe_limit 1 the invariant holds in every state. *)
LEMMA KeptInvAlways ==
  ASSUME PlainNames
  PROVE  Spec => [](limit = 1 => KeptInv)
<1> DEFINE LimitedInv == limit = 1 => KeptInv
<1>1. LimitedInv /\ [Next]_vars => LimitedInv'
  BY KeptInvStep, LimitStays
<1>2. Init => LimitedInv
  BY KeptInvInit
<1> QED
  BY <1>1, <1>2, PTL DEF Spec

(* What a reader finds between two handlers: the committed journal, or an  *)
(* empty one if no crash was ever committed.                               *)
LEMMA CommittedIsFound ==
  ASSUME KeptInv, NoFailure, \A h \in Handlers : pc[h] \notin Writing
  PROVE  \/ OnDisk = committed
         \/ /\ journal = <<>> /\ committed = BlankJournal(NoTime)
            /\ OnDisk = BlankJournal(Exact(now))
<1>1. AtRest /\ IsTable(committed)
  BY DEF KeptInv, ExactInv, AllKept, SerialInv, NoFailure, TextInv
<1>2. CASE committed.count = 0
  BY <1>1, <1>2, EmptyIsRead DEF AtRest, OnDisk, NoJournal
<1>3. CASE committed.count # 0
  BY <1>1, <1>3, WholeIsRead DEF AtRest, Whole, OnDisk
<1> QED
  BY <1>2, <1>3

(* One handler at a time and no failure: when no handler is writing, the   *)
(* text of the file is that of the journal that was committed last, for    *)
(* any number of records and times (write_crash_journal, read_crash_journal).  *)
THEOREM FileAlwaysShowsCommitted ==
  ASSUME PlainNames
  PROVE  Spec => []FileShowsCommitted
<1>1. (limit = 1 => KeptInv) => FileShowsCommitted
  <2> SUFFICES ASSUME limit = 1, KeptInv, NoFailure, \A h \in Handlers : pc[h] \notin Writing
               PROVE  /\ journal # <<>> => OnDisk.start = committed.start
                      /\ OnDisk.count = committed.count
                      /\ TableOf(OnDisk) = TableOf(committed)
    BY DEF FileShowsCommitted, Serial
  <2>1. CASE OnDisk = committed
    BY <2>1
  <2>2. CASE journal = <<>> /\ committed = BlankJournal(NoTime) /\ OnDisk = BlankJournal(Exact(now))
    <3>1. OnDisk.count = committed.count
      BY <2>2 DEF BlankJournal
    <3>2. ASSUME NEW j, j.recCount = 0
          PROVE  TableOf(j) = [q \in {} |-> 0]
      BY <3>2 DEF TableOf
    <3>3. OnDisk.recCount = 0 /\ committed.recCount = 0
      BY <2>2 DEF BlankJournal
    <3> QED
      BY <2>2, <3>1, <3>2, <3>3
  <2> QED
    BY <2>1, <2>2, CommittedIsFound
<1> QED
  BY <1>1, KeptInvAlways, PTL

(* One handler at a time and no failure: every record of a journal at rest *)
(* tells the truth about its program, and as long as there is room for the *)
(* programs that crashed each has a record of all its crashes.             *)
THEOREM RecordsTellTheCrashes ==
  ASSUME PlainNames
  PROVE  Spec => []RecordsDescribeCrashes
<1>1. (limit = 1 => KeptInv) => RecordsDescribeCrashes
  <2> SUFFICES ASSUME limit = 1, KeptInv, NoFailure, Quiet
               PROVE  /\ \A r \in Entries : \E first \in 1..Len(log) : DescribesFrom(r, first)
                      /\ Cardinality(NamesIn(log)) <= MaxRecs =>
                           \A n \in NamesIn(log) :
                             \E r \in Entries : r.name = n /\ DescribesFrom(r, Min(CrashesOf(n, 1)))
    BY DEF RecordsDescribeCrashes, Serial, NamesIn
  <2>1. \A h \in Handlers : pc[h] = "idle"
    BY DEF Quiet, Active
  <2>2. IsExact(log, committed)
    BY <2>1 DEF KeptInv, AllKept
  <2>3. IsExact(log, OnDisk)
    <3>1. \/ OnDisk = committed
          \/ committed = BlankJournal(NoTime) /\ OnDisk = BlankJournal(Exact(now))
      BY <2>1, CommittedIsFound DEF Writing
    <3> QED
      BY <2>2, <3>1, BlankIsExact
  <2>4. \A name, first : CrashesOf(name, first) = CrashesIn(log, name, first)
    BY DEF CrashesOf, CrashesIn
  <2>5. ASSUME NEW r, NEW first, Describes(log, r, first)
        PROVE  DescribesFrom(r, first)
    BY <2>4, <2>5 DEF Describes, DescribesFrom, After
  <2>6. \A r \in Entries : \E first \in 1..Len(log) : DescribesFrom(r, first)
    BY <2>3, <2>5 DEF Entries, IsExact
  <2>7. ASSUME Cardinality(NamesIn(log)) <= MaxRecs, NEW n \in NamesIn(log)
        PROVE  \E r \in Entries : r.name = n /\ DescribesFrom(r, Min(CrashesOf(n, 1)))
    <3>1. PICK i \in 1..OnDisk.recCount :
            OnDisk.slots[i].name = n /\ DescribesAll(log, OnDisk.slots[i])
      BY <2>3, <2>7 DEF IsExact
    <3> DEFINE r == OnDisk.slots[i]
               I == CrashesIn(log, n, 1)
    <3>2. PICK first \in 1..Len(log) :
            Describes(log, r, first) /\ \A k \in CrashesIn(log, r.name, 1) : first <= k
      BY <3>1 DEF DescribesAll
    <3>3. first \in I /\ \A k \in I : first <= k
      BY <3>1, <3>2 DEF Describes, CrashesIn
    <3>4. I \in SUBSET Nat
      BY DEF CrashesIn
    <3>5. Min(I) = first
      <4> HIDE DEF I
      <4>1. Min(I) \in I /\ \A k \in I : Min(I) <= k
        BY <3>3, <3>4, LeastOf
      <4>2. Min(I) \in Nat /\ first \in Nat /\ Min(I) <= first /\ first <= Min(I)
        BY <3>3, <3>4, <4>1
      <4> DEFINE m == Min(I)
      <4> HIDE DEF m
      <4>3. m = first
        BY <4>2 DEF m
      <4> QED
        BY <4>3 DEF m
    <3>6. r \in Entries /\ r.name = n
      BY <3>1 DEF Entries
    <3>7. DescribesFrom(r, Min(CrashesOf(n, 1)))
      BY <2>4, <2>5, <3>2, <3>5
    <3> QED
      BY <3>6, <3>7
  <2> QED
    BY <2>6, <2>7
<1> QED
  BY <1>1, KeptInvAlways, PTL
----------------------------------------------------------------------------
(***************************************************************************)
(* The journal as a table of crashes.                                      *)
(***************************************************************************)
EntryOf(r) == [pid |-> r.pid, count |-> r.count, times |-> CrashTimes(r.times)]

(* The crashes of a record's times. *)
LEMMA CrashTimesAre ==
  ASSUME NEW times \in Seq(Times)
  PROVE  /\ CrashTimes(times) \in Seq(Nat)
         /\ Len(CrashTimes(times)) = Len(times)
         /\ \A q \in 1..Len(times) : CrashTimes(times)[q] = times[q].at
<1> DEFINE n == Len(times)
           c == [q \in 1..n |-> times[q].at]
<1>1. n \in Nat /\ \A q \in 1..n : times[q] \in Times /\ times[q].at \in Nat
  <2>1. \A q \in 1..n : times[q] \in Times
    OBVIOUS
  <2> QED
    BY <2>1 DEF Times
<1>2. CrashTimes(times) = c /\ \A q \in 1..n : c[q] = times[q].at
  BY DEF CrashTimes
<1>3. c \in [1..n -> Nat]
  BY <1>1
<1> HIDE DEF n, c
<1>4. c \in Seq(Nat) /\ Len(c) = n
  BY <1>1, <1>3
<1> QED
  BY <1>2, <1>4 DEF n

(* A crash now is put before them as it is before the times. *)
LEMMA CrashTimesPrepended ==
  ASSUME NEW times \in Seq(Times), NEW t \in Nat
  PROVE  CrashTimes(Prepend(Exact(t), times)) = Prepend(t, CrashTimes(times))
<1> DEFINE n == Len(times)
           k == IF n < MaxLast THEN n + 1 ELSE MaxLast
           new == Prepend(Exact(t), times)
           old == CrashTimes(times)
<1>1. n \in Nat /\ MaxLast \in Nat \ {0} /\ k \in Nat
  BY BoundsAssumption
<1>2. Len(old) = n /\ \A q \in 1..n : old[q] = times[q].at
  BY CrashTimesAre
<1>3. new = [i \in 1..k |-> IF i = 1 THEN Exact(t) ELSE times[i - 1]]
  BY DEF Prepend
<1>4. Prepend(t, old) = [i \in 1..k |-> IF i = 1 THEN t ELSE old[i - 1]]
  BY <1>2 DEF Prepend
<1>5. CrashTimes(new) = [q \in 1..Len(new) |-> new[q].at]
  BY DEF CrashTimes
<1>6. \A q \in 1..k : q # 1 => q - 1 \in 1..n
  BY <1>1
<1> HIDE DEF n, k, new, old
<1>7. Len(new) = k
  BY <1>1, <1>3
<1>8. \A q \in 1..k : new[q].at = (IF q = 1 THEN t ELSE old[q - 1])
  BY <1>2, <1>3, <1>6 DEF Exact
<1>9. CrashTimes(new) = Prepend(t, old)
  BY <1>4, <1>5, <1>7, <1>8
<1> QED
  BY <1>9 DEF new, old

(* The entries are those of the records, by their programs. *)
LEMMA TableEntries ==
  ASSUME NEW j, IsTable(j)
  PROVE  LET T == TableOfCrashes(j)
         IN  /\ T = [x \in NamesOf(j) |-> T[x]]
             /\ DOMAIN T = NamesOf(j)
             /\ \A i \in 1..j.recCount : /\ j.slots[i].name \in NamesOf(j)
                                         /\ T[j.slots[i].name] = EntryOf(j.slots[i])
<1> DEFINE used == 1..j.recCount
           at(x) == CHOOSE i \in used : j.slots[i].name = x
           plain(r) == [pid |-> r.pid, count |-> r.count, times |-> r.times]
           P == TableOf(j)
           T == TableOfCrashes(j)
<1>1. P = [x \in NamesOf(j) |-> plain(j.slots[at(x)])]
  BY DEF TableOf, NamesOf
<1>2. T = [x \in DOMAIN P |-> [P[x] EXCEPT !.times = CrashTimes(@)]]
  BY DEF TableOfCrashes
<1>3. ASSUME NEW r
      PROVE  [plain(r) EXCEPT !.times = CrashTimes(@)] = EntryOf(r)
  BY DEF EntryOf
<1>4. ASSUME NEW i \in used PROVE at(j.slots[i].name) = i
  <2>1. at(j.slots[i].name) \in used /\ j.slots[at(j.slots[i].name)].name = j.slots[i].name
    OBVIOUS
  <2> QED
    BY <2>1 DEF IsTable
<1>5. \A i \in used : j.slots[i].name \in NamesOf(j)
  BY DEF NamesOf
<1> HIDE DEF at, used, plain, P, T
<1>6. DOMAIN P = NamesOf(j)
  BY <1>1
<1>7. T = [x \in NamesOf(j) |-> EntryOf(j.slots[at(x)])]
  BY <1>1, <1>2, <1>3, <1>6
<1>8. \A i \in used : T[j.slots[i].name] = EntryOf(j.slots[i])
  BY <1>4, <1>5, <1>7
<1> QED
  BY <1>5, <1>7, <1>8 DEF used, T

(* Two tables with the same programs and entries are the same. *)
LEMMA SameTable ==
  ASSUME NEW g, IsTable(g), NEW F, F = [x \in NamesOf(g) |-> F[x]],
         \A i \in 1..g.recCount : F[g.slots[i].name] = EntryOf(g.slots[i])
  PROVE  TableOfCrashes(g) = F
<1>1. /\ TableOfCrashes(g) = [x \in NamesOf(g) |-> TableOfCrashes(g)[x]]
      /\ \A i \in 1..g.recCount : TableOfCrashes(g)[g.slots[i].name] = EntryOf(g.slots[i])
  BY TableEntries
<1>2. ASSUME NEW x \in NamesOf(g) PROVE TableOfCrashes(g)[x] = F[x]
  <2>1. PICK i \in 1..g.recCount : g.slots[i].name = x
    BY DEF NamesOf
  <2> QED
    BY <1>1, <2>1
<1> QED
  BY <1>1, <1>2

(* Putting an entry into a table; with no program to make room for, or one. *)
PutEntry(T, S, x, r) == [q \in S \cup {x} |-> IF q = x THEN r ELSE T[q]]

(* record_crash_to_journal changes one entry of the table, adds one, or    *)
(* puts one in the place of another.                                       *)
LEMMA TableAfterCrash ==
  ASSUME NEW j, IsTable(j), NEW name, IsPlain(name), NEW pid \in Nat, NEW t \in Nat
  PROVE  LET T == TableOfCrashes(j)
             U == TableOfCrashes(RecordCrash(j, pid, name, Exact(t)))
             new == EntryOf(NewRecord(pid, name, Exact(t)))
             more == [pid |-> T[name].pid, count |-> T[name].count + 1,
                      times |-> Prepend(t, T[name].times)]
         IN  /\ DOMAIN T = NamesOf(j) /\ Cardinality(NamesOf(j)) = j.recCount
             /\ \/ name \in NamesOf(j) /\ U = PutEntry(T, NamesOf(j), name, more)
                \/ /\ name \notin NamesOf(j) /\ j.recCount < MaxRecs
                   /\ U = PutEntry(T, NamesOf(j), name, new)
                \/ /\ name \notin NamesOf(j) /\ j.recCount = MaxRecs
                   /\ \E victim \in NamesOf(j) : U = PutEntry(T, NamesOf(j) \ {victim}, name, new)
<1> DEFINE T == TableOfCrashes(j)
           N == NamesOf(j)
           r == NewRecord(pid, name, Exact(t))
           new == EntryOf(r)
           more == [pid |-> T[name].pid, count |-> T[name].count + 1,
                    times |-> Prepend(t, T[name].times)]
           g == RecordCrash(j, pid, name, Exact(t))
<1>1. /\ T = [x \in N |-> T[x]] /\ DOMAIN T = N
      /\ \A i \in 1..j.recCount : j.slots[i].name \in N /\ T[j.slots[i].name] = EntryOf(j.slots[i])
  BY TableEntries
<1>2. Cardinality(N) = j.recCount
  BY TableNames
<1>13. Exact(t) \in Times
  BY ExactTimes
<1>3. IsTable(g)
  BY <1>13, CrashKeepsTable
<1>4. \/ \E i \in 1..j.recCount : j.slots[i].name = name /\ IsTouched(j, g, i, Exact(t))
      \/ Unnamed(j, name) /\ (IsInserted(j, g, r) \/ IsOverwritten(j, g, r))
  BY <1>13, CrashIsRecorded
<1>5. /\ j.recCount \in Nat /\ MaxRecs \in Nat \ {0} /\ j.recCount <= MaxRecs
      /\ \A i \in 1..j.recCount : i \in Slots
  BY TableFacts
<1>6. r.name = name
  BY <1>13, NewRecordFacts
<1>7. \A i, k \in 1..j.recCount : j.slots[i].name = j.slots[k].name => i = k
  BY DEF IsTable
<1>8. \A x \in N : \E i \in 1..j.recCount : j.slots[i].name = x
  BY DEF NamesOf
<1>9. Unnamed(j, name) => name \notin N
  BY <1>8 DEF Unnamed
<1> HIDE DEF T, N, r, new, more, g
<1> SUFFICES \/ name \in N /\ TableOfCrashes(g) = PutEntry(T, N, name, more)
             \/ /\ name \notin N /\ j.recCount < MaxRecs
                /\ TableOfCrashes(g) = PutEntry(T, N, name, new)
             \/ /\ name \notin N /\ j.recCount = MaxRecs
                /\ \E victim \in N : TableOfCrashes(g) = PutEntry(T, N \ {victim}, name, new)
  BY <1>1, <1>2 DEF T, N, r, new, more, g
<1>10. ASSUME NEW i \in 1..j.recCount, j.slots[i].name = name, IsTouched(j, g, i, Exact(t))
       PROVE  name \in N /\ TableOfCrashes(g) = PutEntry(T, N, name, more)
  <2> DEFINE F == PutEntry(T, N, name, more)
  <2>1. /\ g.recCount = j.recCount /\ g.slots[i] = Again(j.slots[i], Exact(t))
        /\ \A k \in 1..j.recCount : k # i => g.slots[k] = j.slots[k]
    BY <1>5, <1>10 DEF IsTouched
  <2>2. name \in N /\ T[name] = EntryOf(j.slots[i])
    BY <1>1, <1>10
  <2>3. \A k \in 1..j.recCount : g.slots[k].name = j.slots[k].name
    BY <2>1 DEF Again
  <2>4. NamesOf(g) = N
    BY <2>1, <2>3 DEF NamesOf, N
  <2>5. N \cup {name} = N
    BY <2>2
  <2>6. F = [x \in N |-> IF x = name THEN more ELSE T[x]]
    BY <2>5 DEF PutEntry
  <2>7. F = [x \in NamesOf(g) |-> F[x]]
    BY <2>4, <2>6
  <2>8. more = EntryOf(Again(j.slots[i], Exact(t)))
    <3>1. j.slots[i].times \in Seq(Times)
      BY <1>5, TableFacts
    <3>2. CrashTimes(Prepend(Exact(t), j.slots[i].times)) = Prepend(t, CrashTimes(j.slots[i].times))
      BY <3>1, CrashTimesPrepended
    <3> QED
      BY <2>2, <3>2 DEF more, EntryOf, Again
  <2> HIDE DEF F
  <2>9. ASSUME NEW k \in 1..g.recCount PROVE F[g.slots[k].name] = EntryOf(g.slots[k])
    <3>1. CASE k = i
      BY <1>10, <2>1, <2>2, <2>3, <2>6, <2>8, <3>1
    <3>2. CASE k # i
      <4>1. j.slots[k].name # name /\ j.slots[k].name \in N
        BY <1>1, <1>7, <1>10, <2>1, <3>2
      <4> QED
        BY <1>1, <2>1, <2>6, <3>2, <4>1
    <3> QED
      BY <3>1, <3>2
  <2>10. TableOfCrashes(g) = F
    BY <1>3, <2>7, <2>9, SameTable
  <2> QED
    BY <2>2, <2>10 DEF F
<1>11. ASSUME Unnamed(j, name), IsInserted(j, g, r)
       PROVE  /\ name \notin N /\ j.recCount < MaxRecs
              /\ TableOfCrashes(g) = PutEntry(T, N, name, new)
  <2> DEFINE F == PutEntry(T, N, name, new)
  <2>1. /\ j.recCount < MaxRecs /\ g.recCount = j.recCount + 1 /\ g.slots[1] = r
        /\ \A k \in 1..j.recCount : g.slots[k + 1] = j.slots[k]
    BY <1>11 DEF IsInserted
  <2>2. name \notin N
    BY <1>9, <1>11
  <2>3. \A k \in 1..g.recCount : k = 1 \/ (k - 1 \in 1..j.recCount /\ (k - 1) + 1 = k)
    BY <1>5, <2>1
  <2>4. 1 \in 1..g.recCount /\ \A k \in 1..j.recCount : k + 1 \in 1..g.recCount
    BY <1>5, <2>1
  <2>5. NamesOf(g) = N \cup {name}
    <3>1. ASSUME NEW x \in NamesOf(g) PROVE x \in N \cup {name}
      <4>1. PICK k \in 1..g.recCount : g.slots[k].name = x
        BY DEF NamesOf
      <4>2. CASE k = 1
        BY <1>6, <2>1, <4>1, <4>2
      <4>3. CASE k # 1
        <5>1. g.slots[k] = j.slots[k - 1] /\ k - 1 \in 1..j.recCount
          BY <2>1, <2>3, <4>3
        <5> QED
          BY <1>1, <4>1, <5>1
      <4> QED
        BY <4>2, <4>3
    <3>2. ASSUME NEW x \in N PROVE x \in NamesOf(g)
      <4>1. PICK k \in 1..j.recCount : j.slots[k].name = x
        BY <1>8
      <4>2. g.slots[k + 1].name = x /\ k + 1 \in 1..g.recCount
        BY <2>1, <2>4, <4>1
      <4> QED
        BY <4>2 DEF NamesOf
    <3>3. name \in NamesOf(g)
      BY <1>6, <2>1, <2>4 DEF NamesOf
    <3> QED
      BY <3>1, <3>2, <3>3
  <2>6. F = [x \in N \cup {name} |-> IF x = name THEN new ELSE T[x]]
    BY DEF PutEntry
  <2>7. F = [x \in NamesOf(g) |-> F[x]]
    BY <2>5, <2>6
  <2> HIDE DEF F
  <2>8. ASSUME NEW k \in 1..g.recCount PROVE F[g.slots[k].name] = EntryOf(g.slots[k])
    <3>1. CASE k = 1
      BY <1>6, <2>1, <2>6, <3>1 DEF new
    <3>2. CASE k # 1
      <4>1. g.slots[k] = j.slots[k - 1] /\ k - 1 \in 1..j.recCount
        BY <2>1, <2>3, <3>2
      <4>2. j.slots[k - 1].name \in N /\ j.slots[k - 1].name # name
        BY <1>1, <2>2, <4>1
      <4> QED
        BY <1>1, <2>6, <4>1, <4>2
    <3> QED
      BY <3>1, <3>2
  <2>9. TableOfCrashes(g) = F
    BY <1>3, <2>7, <2>8, SameTable
  <2> QED
    BY <2>1, <2>2, <2>9 DEF F
<1>12. ASSUME Unnamed(j, name), IsOverwritten(j, g, r)
       PROVE  /\ name \notin N /\ j.recCount = MaxRecs
              /\ \E victim \in N : TableOfCrashes(g) = PutEntry(T, N \ {victim}, name, new)
  <2> DEFINE victim == j.slots[MaxRecs].name
             F == PutEntry(T, N \ {victim}, name, new)
  <2>1. /\ j.recCount = MaxRecs /\ g.recCount = MaxRecs /\ g.slots[MaxRecs] = r
        /\ \A k \in 1..MaxRecs : k # MaxRecs => g.slots[k] = j.slots[k]
    BY <1>12 DEF IsOverwritten, Slots
  <2>2. name \notin N
    BY <1>9, <1>12
  <2>3. MaxRecs \in 1..MaxRecs /\ victim \in N
    <3>1. MaxRecs \in 1..MaxRecs
      BY <1>5
    <3> QED
      BY <1>1, <2>1, <3>1
  <2>4. \A k \in 1..MaxRecs : k # MaxRecs => j.slots[k].name # victim
    BY <1>7, <2>1, <2>3
  <2> HIDE DEF victim
  <2>5. NamesOf(g) = (N \ {victim}) \cup {name}
    <3>1. ASSUME NEW x \in NamesOf(g) PROVE x \in (N \ {victim}) \cup {name}
      <4>1. PICK k \in 1..g.recCount : g.slots[k].name = x
        BY DEF NamesOf
      <4>2. CASE k = MaxRecs
        BY <1>6, <2>1, <4>1, <4>2
      <4>3. CASE k # MaxRecs
        BY <1>1, <2>1, <2>4, <4>1, <4>3
      <4> QED
        BY <4>2, <4>3
    <3>2. ASSUME NEW x \in N \ {victim} PROVE x \in NamesOf(g)
      <4>1. PICK k \in 1..j.recCount : j.slots[k].name = x
        BY <1>8
      <4>2. k # MaxRecs
        BY <4>1 DEF victim
      <4>3. g.slots[k].name = x /\ k \in 1..g.recCount
        BY <2>1, <4>1, <4>2
      <4> QED
        BY <4>3 DEF NamesOf
    <3>3. name \in NamesOf(g)
      BY <1>6, <2>1, <2>3 DEF NamesOf
    <3> QED
      BY <3>1, <3>2, <3>3
  <2>6. F = [x \in (N \ {victim}) \cup {name} |-> IF x = name THEN new ELSE T[x]]
    BY DEF PutEntry
  <2>7. F = [x \in NamesOf(g) |-> F[x]]
    BY <2>5, <2>6
  <2> HIDE DEF F
  <2>8. ASSUME NEW k \in 1..g.recCount PROVE F[g.slots[k].name] = EntryOf(g.slots[k])
    <3>1. CASE k = MaxRecs
      BY <1>6, <2>1, <2>6, <3>1 DEF new
    <3>2. CASE k # MaxRecs
      <4>1. g.slots[k] = j.slots[k] /\ k \in 1..j.recCount
        BY <2>1, <3>2
      <4>2. j.slots[k].name \in N \ {victim} /\ j.slots[k].name # name
        BY <1>1, <2>1, <2>2, <2>4, <3>2, <4>1
      <4> QED
        BY <1>1, <2>6, <4>1, <4>2
    <3> QED
      BY <3>1, <3>2
  <2>9. TableOfCrashes(g) = F
    BY <1>3, <2>7, <2>8, SameTable
  <2> QED
    BY <2>1, <2>2, <2>3, <2>9 DEF F
<1> QED
  BY <1>4, <1>10, <1>11, <1>12

(* The times of an entry are those of record_crash_to_journal. *)
LEMMA LatestIsPrepended ==
  ASSUME NEW times \in Seq(Nat), Len(times) <= MaxLast, NEW t \in Nat
  PROVE  Table!Latest(t, times) = Prepend(t, times)
<1> DEFINE n == Len(times)
           k == IF n < MaxLast THEN n + 1 ELSE MaxLast
           all == << t >> \o times
           new == Prepend(t, times)
<1>1. n \in Nat /\ MaxLast \in Nat \ {0} /\ n <= MaxLast
  BY BoundsAssumption
<1>2. new = [i \in 1..k |-> IF i = 1 THEN t ELSE times[i - 1]]
  BY DEF Prepend
<1>3. /\ all \in Seq(Nat) /\ Len(all) = n + 1 /\ all[1] = t
      /\ \A i \in 2..(n + 1) : all[i] = times[i - 1]
  <2>1. << t >> \in Seq(Nat) /\ Len(<< t >>) = 1 /\ << t >>[1] = t
    OBVIOUS
  <2> QED
    BY <1>1, <2>1, ConcatProperties
<1>4. Table!Latest(t, times) = SubSeq(all, 1, k)
  BY DEF Table!Latest
<1> HIDE DEF n, k, all, new
<1>5. k \in 1..(n + 1) /\ 1 \in 1..(n + 1) /\ k \in Nat
  BY <1>1 DEF k
<1> DEFINE first == SubSeq(all, 1, k)
<1>6. /\ first \in Seq(Nat) /\ Len(first) = k
      /\ \A i \in 1..k : first[i] = all[i]
  <2>1. \A i \in 1..k : i \in 1..Len(all)
    BY <1>1, <1>3, <1>5
  <2>2. \A i \in 1..k : all[i] \in Nat
    BY <1>3, <2>1
  <2>3. 1 \in Int /\ k \in Int /\ 1 <= k
    BY <1>5
  <2> HIDE DEF first
  <2>4. /\ SubSeq(all, 1, k) \in Seq(Nat)
        /\ Len(SubSeq(all, 1, k)) = IF 1 <= k THEN k - 1 + 1 ELSE 0
        /\ \A i \in 1..(k - 1 + 1) : SubSeq(all, 1, k)[i] = all[1 + i - 1]
    BY <2>2, <2>3, SubSeqProperties
  <2>5. k - 1 + 1 = k /\ \A i \in 1..k : 1 + i - 1 = i
    BY <1>5
  <2> QED
    BY <2>3, <2>4, <2>5 DEF first
<1> HIDE DEF first
<1>7. \A i \in 1..k : first[i] = (IF i = 1 THEN t ELSE times[i - 1])
  <2> SUFFICES ASSUME NEW i \in 1..k PROVE first[i] = (IF i = 1 THEN t ELSE times[i - 1])
    OBVIOUS
  <2>1. CASE i = 1
    BY <1>3, <1>6, <2>1
  <2>2. CASE i # 1
    <3>1. i \in 2..(n + 1)
      BY <1>1, <1>5, <2>2
    <3> QED
      BY <1>3, <1>6, <2>2, <3>1
  <2> QED
    BY <2>1, <2>2
<1>8. first = [i \in 1..k |-> first[i]]
  BY <1>5, <1>6
<1>9. first = new
  BY <1>2, <1>7, <1>8
<1> QED
  BY <1>4, <1>9 DEF first, new

(* A journal that was read has the table of the committed one: the         *)
(* conversions move the hours of its times only.                           *)
LEMMA ReadTable ==
  ASSUME IsTable(committed), committed.count = 0 => committed = NoJournal,
         NEW j, IsTable(j), IsRead(j)
  PROVE  TableOfCrashes(j) = TableOfCrashes(committed)
<1> DEFINE F == TableOfCrashes(committed)
<1>1. /\ F = [x \in NamesOf(committed) |-> F[x]]
      /\ \A i \in 1..committed.recCount : F[committed.slots[i].name] = EntryOf(committed.slots[i])
  BY TableEntries
<1>2. CASE committed.count = 0
  <2>1. j.recCount = 0 /\ committed.recCount = 0
    BY <1>2 DEF IsRead, BlankJournal, NoJournal
  <2>2. NamesOf(j) = {} /\ NamesOf(committed) = {}
    BY <2>1 DEF NamesOf
  <2>3. F = [x \in NamesOf(j) |-> F[x]] /\ \A i \in 1..j.recCount : FALSE
    BY <1>1, <2>1, <2>2
  <2> HIDE DEF F
  <2>4. TableOfCrashes(j) = F
    BY <2>3, SameTable
  <2> QED
    BY <2>4 DEF F
<1>3. CASE committed.count # 0
  <2>1. /\ j.recCount = committed.recCount
        /\ \A i \in 1..committed.recCount : HasMoved(committed.slots[i], j.slots[i])
    BY <1>3, TableFacts DEF IsRead, IsMoved
  <2>2. ASSUME NEW i \in 1..j.recCount
        PROVE  /\ j.slots[i].name = committed.slots[i].name
               /\ EntryOf(j.slots[i]) = EntryOf(committed.slots[i])
    <3> DEFINE r == committed.slots[i]
               s == j.slots[i]
    <3>1. HasMoved(r, s)
      BY <2>1
    <3> HIDE DEF r, s
    <3>2. CrashTimes(s.times) = CrashTimes(r.times)
      BY <3>1 DEF HasMoved, CrashTimes
    <3>3. s.name = r.name /\ EntryOf(s) = EntryOf(r)
      BY <3>1, <3>2 DEF HasMoved, EntryOf
    <3> QED
      BY <3>3 DEF r, s
  <2>3. NamesOf(j) = NamesOf(committed)
    BY <2>1, <2>2 DEF NamesOf
  <2>4. \A i \in 1..j.recCount : F[j.slots[i].name] = EntryOf(j.slots[i])
    BY <1>1, <2>1, <2>2
  <2>5. F = [x \in NamesOf(j) |-> F[x]]
    BY <1>1, <2>3
  <2> HIDE DEF F
  <2>6. TableOfCrashes(j) = F
    BY <2>4, <2>5, SameTable
  <2> QED
    BY <2>6 DEF F
<1> QED
  BY <1>2, <1>3

(* The truncation of the file is a step of the table. *)
LEMMA TruncationIsTableStep ==
  ASSUME PlainNames, \A l \in Limits : MaxTime[l] # 0, limit = 1, KeptInv, NoFailure,
         NEW h \in Handlers, OpenJournal(h)
  PROVE  Table!Next
<1>1. /\ pc[h] = "open" /\ committed' = mem[h]
  BY DEF OpenJournal
<1>2. /\ IsTable(committed) /\ OneHandler /\ Bounded /\ AllKept /\ ControlType
  BY DEF KeptInv, ExactInv, SerialInv, NoFailure, TextInv, TotalInv
<1>3. PICK j, pid, name, t :
        /\ pid \in 1..MaxCrashes[limit] /\ name \in Names /\ t \in Clock
        /\ IsTable(j) /\ IsRead(j) /\ mem[h] = RecordCrash(j, pid, name, Exact(t))
  BY <1>1, <1>2 DEF AllKept, IsUpdated
<1>4. AtRest
  BY <1>1, <1>2 DEF AllKept, OneHandler, Writing
<1>5. /\ Clock \subseteq UpTo(MaxTime) /\ 1..MaxCrashes[limit] \subseteq UpTo(MaxCrashes)
      /\ Clock \subseteq Nat
  <2>1. limit \in Limits /\ MaxTime[limit] \in Nat \ {0}
    BY <1>2, BoundAssumption DEF Bounded
  <2>2. 1 \in 1..MaxTime[limit]
    BY <2>1
  <2> QED
    BY <2>1, <2>2 DEF Clock, UpTo
<1>6. IsPlain(name) /\ pid \in Nat /\ t \in Nat /\ Exact(t) \in Times
  BY <1>3, <1>5, ExactTimes DEF PlainNames
<1> DEFINE g == RecordCrash(j, pid, name, Exact(t))
           T == TableOfCrashes(committed)
           U == TableOfCrashes(g)
           N == NamesOf(j)
           new == EntryOf(NewRecord(pid, name, Exact(t)))
           more == [pid |-> T[name].pid, count |-> T[name].count + 1,
                    times |-> Prepend(t, T[name].times)]
<1>7. TableOfCrashes(j) = T
  BY <1>2, <1>3, <1>4, ReadTable DEF AtRest
<1>8. /\ g.start = j.start /\ g.count = j.count + 1
  <2> DEFINE r == NewRecord(pid, name, Exact(t))
  <2>1. /\ g = [start |-> j.start, count |-> j.count + 1, recCount |-> g.recCount, slots |-> g.slots]
        /\ g.slots = [i \in Slots |-> g.slots[i]]
        /\ \/ \E i \in 1..j.recCount : j.slots[i].name = name /\ IsTouched(j, g, i, Exact(t))
           \/ Unnamed(j, name) /\ (IsInserted(j, g, r) \/ IsOverwritten(j, g, r))
    BY <1>3, <1>6, CrashIsRecorded
  <2> HIDE DEF g
  <2> QED
    BY <2>1
<1>9. /\ committed'.count = committed.count + 1
      /\ IF committed.count = 0 THEN committed'.start.at \in UpTo(MaxTime)
                                ELSE committed'.start.at = committed.start.at
  <2>1. committed' = g
    BY <1>1, <1>3
  <2> HIDE DEF g
  <2>2. CASE committed.count = 0
    <3>1. PICK s \in Times : s.at \in Clock /\ j = BlankJournal(s)
      BY <1>3, <2>2 DEF IsRead
    <3>2. j.start = s /\ j.count = 0
      BY <3>1 DEF BlankJournal
    <3> QED
      BY <1>5, <1>8, <2>1, <2>2, <3>1, <3>2
  <2>3. CASE committed.count # 0
    BY <1>3, <1>8, <2>1, <2>3 DEF IsRead, IsMoved
  <2> QED
    BY <2>2, <2>3
<1>10. /\ T = [x \in N |-> T[x]] /\ DOMAIN T = N /\ Cardinality(N) = j.recCount
       /\ \/ name \in N /\ U = PutEntry(T, N, name, more)
          \/ name \notin N /\ j.recCount < MaxRecs /\ U = PutEntry(T, N, name, new)
          \/ /\ name \notin N /\ j.recCount = MaxRecs
             /\ \E victim \in N : U = PutEntry(T, N \ {victim}, name, new)
  BY <1>3, <1>6, <1>7, TableAfterCrash, TableEntries
<1>11. new = Table!First(pid, t)
  <2> DEFINE r == NewRecord(pid, name, Exact(t))
  <2>1. r.pid = pid /\ r.count = 1 /\ r.times = << Exact(t) >>
    BY DEF NewRecord
  <2>2. CrashTimes(<< Exact(t) >>) = << t >>
    BY DEF CrashTimes, Exact
  <2> HIDE DEF r
  <2>3. EntryOf(r) = [pid |-> pid, count |-> 1, times |-> << t >>]
    BY <2>1, <2>2 DEF EntryOf
  <2> QED
    BY <2>3 DEF Table!First, r
<1>12. name \in N => /\ T[name] = [pid |-> T[name].pid, count |-> T[name].count, times |-> T[name].times]
                     /\ Table!Latest(t, T[name].times) = Prepend(t, T[name].times)
  <2> SUFFICES ASSUME name \in N
               PROVE  /\ T[name] = [pid |-> T[name].pid, count |-> T[name].count, times |-> T[name].times]
                      /\ Table!Latest(t, T[name].times) = Prepend(t, T[name].times)
    OBVIOUS
  <2>1. PICK i \in 1..j.recCount : j.slots[i].name = name
    BY DEF NamesOf
  <2>2. T[name] = EntryOf(j.slots[i])
    BY <1>3, <1>7, <2>1, TableEntries
  <2>3. i \in Slots /\ j.slots[i].times \in Seq(Times) /\ Len(j.slots[i].times) <= MaxLast
    BY <1>3, TableFacts DEF IsTable
  <2>4. T[name].times = CrashTimes(j.slots[i].times)
    BY <2>2 DEF EntryOf
  <2>5. Table!Latest(t, T[name].times) = Prepend(t, T[name].times)
    BY <1>6, <2>3, <2>4, CrashTimesAre, LatestIsPrepended
  <2>6. T[name] = [pid |-> T[name].pid, count |-> T[name].count, times |-> T[name].times]
    BY <2>2 DEF EntryOf
  <2> QED
    BY <2>5, <2>6
<1>13. TableOfCrashes(committed)' = U
  BY <1>1, <1>3
<1> HIDE DEF T, U, N, new, g
<1>14. \/ name \in N /\ U = [T EXCEPT ![name].count = @ + 1, ![name].times = Table!Latest(t, @)]
       \/ /\ name \notin N
          /\ \/ Cardinality(N) < MaxRecs /\ U = Table!Put(T, name, new)
             \/ /\ Cardinality(N) = MaxRecs
                /\ \E victim \in N :
                     U = Table!Put([x \in N \ {victim} |-> T[x]], name, new)
  <2>1. CASE name \in N /\ U = PutEntry(T, N, name, more)
    <3> DEFINE l == Prepend(t, T[name].times)
    <3>1. Table!Latest(t, T[name].times) = l
      BY <1>12, <2>1
    <3> HIDE DEF l
    <3>2. N \cup {name} = N
      BY <2>1
    <3>3. U = [x \in N |-> IF x = name THEN more ELSE T[x]]
      BY <2>1, <3>2 DEF PutEntry
    <3>4. more = [T[name] EXCEPT !.count = @ + 1, !.times = l]
      <4> DEFINE e == T[name]
                 a == e.pid
                 b == e.count
                 c == e.times
      <4>1. e = [pid |-> a, count |-> b, times |-> c] /\ more = [pid |-> a, count |-> b + 1, times |-> l]
        BY <1>12, <2>1 DEF l
      <4> HIDE DEF e, a, b, c, l, more
      <4>2. e \in [pid : {a}, count : {b}, times : {c}] /\ e.count = b
        BY <4>1
      <4> DEFINE w == [e EXCEPT !.count = @ + 1, !.times = l]
      <4>3. w \in [pid : {a}, count : {b + 1}, times : {l}]
        BY <4>2
      <4> HIDE DEF w
      <4>4. w = [pid |-> a, count |-> b + 1, times |-> l]
        BY <4>3
      <4> QED
        BY <4>1, <4>4 DEF w, e
    <3> HIDE DEF more
    <3>5. [T EXCEPT ![name].count = @ + 1, ![name].times = Table!Latest(t, @)]
            = [T EXCEPT ![name] = [T[name] EXCEPT !.count = @ + 1, !.times = l]]
      BY <1>10, <1>12, <2>1, <3>1
    <3> QED
      BY <1>10, <2>1, <3>3, <3>4, <3>5
  <2>2. CASE name \notin N /\ j.recCount < MaxRecs /\ U = PutEntry(T, N, name, new)
    BY <1>10, <2>2 DEF PutEntry, Table!Put
  <2>3. ASSUME name \notin N, j.recCount = MaxRecs,
               NEW victim \in N, U = PutEntry(T, N \ {victim}, name, new)
        PROVE  /\ name \notin N /\ Cardinality(N) = MaxRecs
               /\ U = Table!Put([x \in N \ {victim} |-> T[x]], name, new)
    <3> DEFINE R == [x \in N \ {victim} |-> T[x]]
    <3>1. DOMAIN R = N \ {victim} /\ \A x \in N \ {victim} : R[x] = T[x]
      OBVIOUS
    <3> HIDE DEF R
    <3>2. PutEntry(T, N \ {victim}, name, new) = Table!Put(R, name, new)
      BY <3>1 DEF PutEntry, Table!Put
    <3> QED
      BY <1>10, <2>3, <3>2 DEF R
  <2> QED
    BY <1>10, <2>1, <2>2, <2>3
<1>15. Table!Cardinality(N) = Cardinality(N)
  BY DEF Table!Cardinality, Cardinality, Table!IsFiniteSet, IsFiniteSet
<1>16. ASSUME NEW victim \in N
       PROVE  Table!Restrict(T, N \ {victim}) = [x \in N \ {victim} |-> T[x]]
  BY DEF Table!Restrict
<1>17. \/ Table!CrashAgain(name, t)
       \/ Table!CrashAnew(name, pid, t)
  <2>1. CASE name \in N /\ U = [T EXCEPT ![name].count = @ + 1, ![name].times = Table!Latest(t, @)]
    BY <1>10, <1>13, <2>1 DEF Table!CrashAgain, T
  <2>2. CASE name \notin N /\ Cardinality(N) < MaxRecs /\ U = Table!Put(T, name, new)
    BY <1>10, <1>11, <1>13, <1>15, <2>2 DEF Table!CrashAnew, T
  <2>3. ASSUME name \notin N, Cardinality(N) = MaxRecs,
               NEW victim \in N, U = Table!Put([x \in N \ {victim} |-> T[x]], name, new)
        PROVE  Table!CrashAnew(name, pid, t)
    <3>1. U = Table!Put(Table!Restrict(T, N \ {victim}), name, new)
      BY <1>16, <2>3
    <3>2. /\ name \notin DOMAIN T /\ Table!Cardinality(DOMAIN T) = MaxRecs
          /\ \E v \in DOMAIN T :
               U = Table!Put(Table!Restrict(T, DOMAIN T \ {v}), name, Table!First(pid, t))
      BY <1>10, <1>11, <1>15, <2>3, <3>1
    <3> QED
      BY <1>13, <3>2 DEF Table!CrashAnew, T
  <2> QED
    BY <1>14, <2>1, <2>2, <2>3
<1> QED
  BY <1>3, <1>5, <1>9, <1>17 DEF Table!Next

(* One handler at a time, no failure and a clock that runs: the journal is *)
(* a table of which each crash changes one entry, for any number of        *)
(* programs, records and times.  The read, the update and the writes of a  *)
(* handler take effect as one, at the truncation of the file; the hours of *)
(* daylight saving its conversions may add are not part of the table.      *)
THEOREM TableImplemented ==
  ASSUME PlainNames, \A l \in Limits : MaxTime[l] # 0
  PROVE  Spec /\ [](Serial /\ NoFailure) => ImplementsTable
<1> DEFINE LimitedInv == limit = 1 => KeptInv
           Good == Serial /\ NoFailure
<1>1. ASSUME Init PROVE Table!Init
  <2>1. committed = BlankJournal(NoTime)
    BY <1>1 DEF Init, NoJournal
  <2>2. committed.start.at = 0 /\ committed.count = 0 /\ committed.recCount = 0
    BY <2>1 DEF BlankJournal, NoTime, Exact, Junk
  <2>3. TableOf(committed) = [x \in {} |-> 0]
    BY <2>2 DEF TableOf
  <2>4. TableOfCrashes(committed) = << >>
    BY <2>3 DEF TableOfCrashes
  <2> QED
    BY <2>2, <2>4 DEF Table!Init
<1>2. ASSUME LimitedInv, Good, [Next]_vars PROVE [Table!Next]_(Table!tableVars)
  <2>1. ASSUME NEW h \in Handlers, OpenJournal(h) PROVE Table!Next
    BY <1>2, <2>1, TruncationIsTableStep DEF Serial
  <2>2. ASSUME UNCHANGED committed PROVE UNCHANGED Table!tableVars
    BY <2>2 DEF Table!tableVars
  <2>3. (\E h \in Handlers : OpenJournal(h)) \/ UNCHANGED committed
    BY <1>2 DEF Next, HandlerStep, Kill, StartHandler, ReadFile, WildDeath, WildRecord, Update,
                OpenFails, WriteStart, WriteTotal, WriteHead, WriteTime, WriteNewline, CloseJournal,
                SkipCrash, Tick, histVars, vars
  <2> QED
    BY <2>1, <2>2, <2>3
<1>3. Spec => []LimitedInv
  BY KeptInvAlways
<1> QED
  BY <1>1, <1>2, <1>3, PTL DEF Spec, ImplementsTable, Table!Spec
----------------------------------------------------------------------------
(***************************************************************************)
(* The types, under any core_pipe_limit and any failure.  TypeOK says      *)
(* nothing of the file, from which the next handler's journal is made: the *)
(* invariant says which chunks it is made of, and that the header's are    *)
(* only written where the header is, wherever other handlers have got to.  *)
(***************************************************************************)
CursorType(h) ==
  /\ pc[h] \in Writing => rec[h] >= 1
  /\ pc[h] = "start" /\ h \in writer => Len(journal) = 0
  /\ pc[h] = "total" /\ h \in writer => Len(journal) <= 1
  /\ pc[h] = "times" => rec[h] <= mem[h].recCount /\ tim[h] >= 1

FileType ==
  /\ IsFile(journal)
  /\ torn => journal = <<>>
  /\ \A g, h \in writer : g = h

TypeInv ==
  /\ TypeOK
  /\ FileType
  /\ \A h \in Handlers : CursorType(h)

(* What may be written to the end of a file. *)
MayFollow(c, f) ==
  \/ c \in LineChunks \cup {NewlineChunk}
  \/ Len(f) = 0 /\ c \in [k : {"start"}, t : Times]
  \/ Len(f) <= 1 /\ c \in [k : {"total"}, n : Nat]

(* A write, or a write that fails or falls short, keeps the types. *)
LEMMA WriteKeepsTypes ==
  ASSUME TypeInv, NEW h \in Handlers, NEW c, h \in writer => MayFollow(c, journal), Write(h, c)
  PROVE  /\ FileType'
         /\ writer' = writer
         /\ {torn', spoilt'} \subseteq BOOLEAN
         /\ {faults', badWrites', wilds'} \subseteq Nat
         /\ h \in writer => Len(journal') <= Len(journal) + 1
         /\ h \notin writer => Len(journal') <= Len(journal)
         /\ Len(journal') \in Nat
<1>1. /\ IsFile(journal) /\ Len(journal) \in Nat /\ IsSequence(journal)
      /\ torn => journal = <<>>
      /\ \A g, k \in writer : g = k
      /\ {torn, spoilt} \subseteq BOOLEAN /\ {faults, badWrites, wilds} \subseteq Nat
      /\ writer' = writer
  BY DEF TypeInv, TypeOK, FileType, IsFile, IsSequence, Write
<1>2. IsFile(<<>>) /\ Len(<<>>) = 0
  BY DEF IsFile, IsSequence
<1>3. CASE /\ h \in writer
           /\ journal' = IF torn THEN <<>> ELSE Append(journal, c)
           /\ UNCHANGED << torn, spoilt, faultVars >>
  <2>1. CASE torn
    BY <1>1, <1>2, <1>3, <2>1 DEF FileType, faultVars
  <2>2. CASE ~torn
    <3> DEFINE g == journal'
    <3>1. g = Append(journal, c)
      BY <1>3, <2>2
    <3>2. /\ IsSequence(g) /\ Len(g) = Len(journal) + 1 /\ g[Len(journal) + 1] = c
          /\ \A i \in 1..Len(journal) : g[i] = journal[i]
      BY <1>1, <3>1, AppendIsSequence
    <3> HIDE DEF g
    <3>3. ASSUME NEW i \in 1..Len(g)
          PROVE  \/ g[i] \in LineChunks \cup {NewlineChunk}
                 \/ i = 1 /\ g[i] \in [k : {"start"}, t : Times]
                 \/ i \in {1, 2} /\ g[i] \in [k : {"total"}, n : Nat]
      <4>1. CASE i = Len(journal) + 1
        BY <1>1, <1>3, <3>2, <4>1 DEF MayFollow
      <4>2. CASE i # Len(journal) + 1
        <5>1. i \in 1..Len(journal)
          BY <1>1, <3>2, <4>2
        <5> QED
          BY <1>1, <3>2, <5>1 DEF IsFile
      <4> QED
        BY <4>1, <4>2
    <3>4. IsFile(g)
      BY <3>2, <3>3 DEF IsFile
    <3> QED
      BY <1>1, <1>3, <2>2, <3>2, <3>4 DEF g, FileType, faultVars
  <2> QED
    BY <2>1, <2>2
<1>4. CASE Tear /\ (UNCHANGED faultVars \/ BadWrite)
  BY <1>1, <1>2, <1>4 DEF Tear, BadWrite, faultVars, FileType
<1>5. CASE BadWrite /\ UNCHANGED << journal, torn, spoilt >>
  BY <1>1, <1>5 DEF BadWrite, FileType
<1> QED
  BY <1>3, <1>4, <1>5 DEF Write

(* The memory of a process that is no handler. *)
LEMMA NoJournalTypes == NoJournal \in Journals /\ NoCrash \in [pid : Nat, name : Texts]
<1>1. <<>> \in Seq(Times)
  OBVIOUS
<1>2. BlankRecord \in Records
  BY <1>1, TextAssumption DEF BlankRecord, Records
<1>3. [i \in Slots |-> BlankRecord] \in [Slots -> Records] /\ 0 \in 0..MaxRecs
  BY <1>2, BoundsAssumption
<1>4. NoJournal \in Journals
  BY <1>3, NoTimeIsTime DEF NoJournal, BlankJournal, Journals
<1> QED
  BY <1>4, TextAssumption DEF NoCrash

(* The types hold at the start. *)
LEMMA TypeInvInit == Init => TypeInv
<1> SUFFICES ASSUME Init PROVE TypeInv
  OBVIOUS
<1>1. IsFile(<<>>)
  BY DEF IsFile, IsSequence
<1>2. TypeOK
  <2>1. /\ pc \in [Handlers -> Steps]
        /\ rec \in [Handlers -> Nat] /\ tim \in [Handlers -> Nat]
    BY DEF Init, Steps
  <2>2. /\ crash \in [Handlers -> [pid : Nat, name : Texts]]
        /\ mem \in [Handlers -> Journals]
    BY NoJournalTypes DEF Init
  <2>3. /\ now \in Nat /\ limit \in Limits /\ writer \subseteq Handlers
        /\ torn = FALSE /\ spoilt = FALSE
        /\ {crashes, skipped, faults, badWrites, wilds} \subseteq Nat
    BY DEF Init
  <2>4. log \in Seq([pid : Nat, name : Texts, time : Nat])
    BY DEF Init
  <2> QED
    BY <2>1, <2>2, <2>3, <2>4 DEF TypeOK
<1> QED
  BY <1>1, <1>2 DEF Init, TypeInv, FileType, CursorType, Writing

(* Whatever a handler finds in the file is a journal. *)
LEMMA FoundIsJournal ==
  ASSUME TypeInv, NEW j \in Found
  PROVE  /\ j \in Journals
         /\ ReadsPastLastLine(journal) =>
              /\ j.recCount <= Len(Lines(journal))
              /\ Len(Lines(journal)) + 1 \in Slots
<1>1. /\ IsFile(journal) /\ now \in Nat /\ torn \in BOOLEAN
      /\ torn => journal = <<>>
  BY DEF TypeInv, TypeOK, FileType
<1>2. CASE torn
  <2>1. ~ReadsPastLastLine(journal)
    BY <1>1, <1>2 DEF ReadsPastLastLine, HasTotal
  <2> QED
    BY <1>2, <2>1, DataAssumption DEF Found
<1>3. CASE ~torn
  <2> DEFINE r == ReadJournal(journal, Exact(now))
  <2>1. PICK z \in Shifts : j = Converted(journal, Exact(now), z)
    BY <1>3 DEF Found
  <2>2. Exact(now) \in Times
    BY <1>1, ExactTimes
  <2>3. r \in Journals /\ \A i \in Slots : Len(r.slots[i].times) <= MaxLast
    BY <1>1, <2>2, FileIsJournal
  <2>4. IsMoved(r, j)
    BY <2>1, <2>3, ConvertedMoves, DataAssumption
  <2>5. j \in Journals /\ j.recCount = r.recCount
    BY <2>3, <2>4, JournalMoves DEF IsMoved
  <2>6. ASSUME ReadsPastLastLine(journal)
        PROVE  j.recCount <= Len(Lines(journal)) /\ Len(Lines(journal)) + 1 \in Slots
    <3>1. HasTotal(journal) /\ Len(Lines(journal)) < MaxRecs
      BY <2>6 DEF ReadsPastLastLine
    <3>2. r.recCount = ReadRecords(journal).recCount
      BY <3>1 DEF ReadJournal
    <3>3. ReadRecords(journal).recCount <= Len(Lines(journal))
      BY <1>1, RecordsOfFile
    <3>4. Len(Lines(journal)) \in Nat
      BY <1>1, LinesReadAt
    <3> QED
      BY <2>5, <3>1, <3>2, <3>3, <3>4, BoundsAssumption DEF Slots
  <2> QED
    BY <2>5, <2>6
<1> QED
  BY <1>1, <1>2, <1>3

(* And it remains one with a record from past the last line. *)
LEMMA StrayIsJournal ==
  ASSUME NEW j \in Journals, NEW i \in Slots, j.recCount < i, NEW r \in Records, NEW complete
  PROVE  WithStray(j, i, r, complete) \in Journals
<1> DEFINE n == IF complete THEN j.recCount + 1 ELSE j.recCount
           g == [j.slots EXCEPT ![i] = r]
           w == WithStray(j, i, r, complete)
<1>1. w = [j EXCEPT !.slots = g, !.recCount = n]
  BY DEF WithStray
<1>2. j = [start |-> j.start, count |-> j.count, recCount |-> j.recCount, slots |-> j.slots]
      /\ j.start \in Times /\ j.count \in Nat /\ j.recCount \in 0..MaxRecs
      /\ j.slots \in [Slots -> Records]
  BY DEF Journals
<1>3. n \in 0..MaxRecs
  BY <1>2, BoundsAssumption DEF Slots
<1>4. g \in [Slots -> Records]
  BY <1>2
<1> HIDE DEF w, n, g
<1>5. w = [start |-> j.start, count |-> j.count, recCount |-> n, slots |-> g]
  BY <1>1, <1>2
<1>6. w \in Journals
  BY <1>2, <1>3, <1>4, <1>5 DEF Journals
<1> QED
  BY <1>6 DEF w

(* Every step keeps the types. *)
LEMMA TypeInvStep == TypeInv /\ [Next]_vars => TypeInv'
<1> SUFFICES ASSUME TypeInv, [Next]_vars PROVE TypeInv'
  OBVIOUS
<1>0. /\ pc \in [Handlers -> Steps]
      /\ crash \in [Handlers -> [pid : Nat, name : Texts]]
      /\ mem \in [Handlers -> Journals]
      /\ rec \in [Handlers -> Nat] /\ tim \in [Handlers -> Nat]
      /\ now \in Nat /\ limit \in Limits
      /\ writer \subseteq Handlers
      /\ {torn, spoilt} \subseteq BOOLEAN
      /\ {crashes, skipped, faults, badWrites, wilds} \subseteq Nat
      /\ log \in Seq([pid : Nat, name : Texts, time : Nat])
      /\ FileType
      /\ \A h \in Handlers : CursorType(h)
  BY DEF TypeInv, TypeOK
<1>1. ASSUME NEW h \in Handlers, NEW n \in Names, StartHandler(h, n) PROVE TypeInv'
  <2>1. [pid |-> crashes + 1, name |-> n] \in [pid : Nat, name : Texts]
    BY <1>0, HandlerAssumption
  <2>2. crash' \in [Handlers -> [pid : Nat, name : Texts]] /\ pc' \in [Handlers -> Steps]
    BY <1>0, <1>1, <2>1 DEF StartHandler, Steps
  <2>3. TypeOK'
    BY <1>0, <1>1, <2>2 DEF StartHandler, TypeOK, fileVars, cursors, faultVars, histVars
  <2>4. ASSUME NEW g \in Handlers PROVE CursorType(g)'
    BY <1>0, <1>1 DEF StartHandler, CursorType, fileVars, cursors, Writing
  <2> QED
    BY <1>0, <1>1, <2>3, <2>4 DEF StartHandler, fileVars, TypeInv, FileType
<1>2. CASE SkipCrash \/ Tick \/ UNCHANGED vars
  <2>1. UNCHANGED << fileVars, pc, crash, mem, cursors, limit, faultVars, spoilt, histVars >>
    BY <1>2 DEF SkipCrash, Tick, vars, fileVars, cursors, kernelVars, faultVars, histVars
  <2>2. crashes' \in Nat /\ skipped' \in Nat /\ now' \in Nat
    BY <1>0, <1>2 DEF SkipCrash, Tick, vars, kernelVars
  <2>3. TypeOK'
    BY <1>0, <2>1, <2>2 DEF TypeOK, fileVars, cursors, faultVars, histVars
  <2>4. FileType' /\ \A h \in Handlers : CursorType(h)'
    BY <1>0, <2>1 DEF FileType, CursorType, fileVars, cursors
  <2> QED
    BY <2>3, <2>4 DEF TypeInv
(* The steps that leave the file alone and change a handler's memory. *)
<1>3. ASSUME NEW h \in Handlers, NEW j \in Journals, NEW s \in {"update", "open"},
             mem' = [mem EXCEPT ![h] = j], pc' = [pc EXCEPT ![h] = s],
             UNCHANGED << fileVars, crash, cursors, now, kernelVars >>,
             {faults', badWrites', wilds'} \subseteq Nat, spoilt' \in BOOLEAN,
             log' \in Seq([pid : Nat, name : Texts, time : Nat])
      PROVE  TypeInv'
  <2>1. mem' \in [Handlers -> Journals] /\ pc' \in [Handlers -> Steps]
    BY <1>0, <1>3 DEF Steps
  <2>2. TypeOK'
    BY <1>0, <1>3, <2>1 DEF TypeOK, fileVars, cursors, kernelVars
  <2>3. ASSUME NEW g \in Handlers PROVE CursorType(g)'
    <3>1. pc'[g] = (IF g = h THEN s ELSE pc[g]) /\ (g # h => mem'[g] = mem[g])
      BY <1>0, <1>3
    <3> QED
      BY <1>0, <1>3, <3>1 DEF CursorType, fileVars, cursors, Writing
  <2>4. FileType'
    BY <1>0, <1>3 DEF FileType, fileVars
  <2> QED
    BY <2>2, <2>3, <2>4 DEF TypeInv
<1>4. ASSUME NEW h \in Handlers, ReadFile(h) PROVE TypeInv'
  <2>1. PICK j \in Found : mem' = [mem EXCEPT ![h] = j]
    BY <1>4 DEF ReadFile
  <2>2. j \in Journals
    BY <2>1, FoundIsJournal
  <2>3. /\ pc' = [pc EXCEPT ![h] = "update"]
        /\ UNCHANGED << fileVars, crash, cursors, now, kernelVars >>
        /\ UNCHANGED << faults, badWrites, wilds, spoilt, log >>
    BY <1>4 DEF ReadFile, faultVars, histVars
  <2> QED
    BY <1>0, <1>3, <2>1, <2>2, <2>3
<1>5. ASSUME NEW h \in Handlers, WildRecord(h) PROVE TypeInv'
  <2> DEFINE i == Len(Lines(journal)) + 1
  <2>1. PICK j \in Found, r \in Strays, complete \in BOOLEAN :
          mem' = [mem EXCEPT ![h] = WithStray(j, i, r, complete)]
    BY <1>5 DEF WildRecord
  <2>2. ReadsPastLastLine(journal)
    BY <1>5 DEF WildRecord
  <2>3. j \in Journals /\ i \in Slots /\ j.recCount < i /\ r \in Records
    <3>1. j \in Journals /\ j.recCount <= Len(Lines(journal)) /\ i \in Slots
      BY <2>1, <2>2, FoundIsJournal
    <3>2. j.recCount \in Nat /\ Len(Lines(journal)) \in Nat
      BY <1>0, <3>1, LinesReadAt, BoundsAssumption DEF Journals, FileType
    <3> QED
      BY <2>1, <3>1, <3>2, DataAssumption
  <2>4. WithStray(j, i, r, complete) \in Journals
    BY <2>3, StrayIsJournal
  <2>5. /\ pc' = [pc EXCEPT ![h] = "update"]
        /\ UNCHANGED << fileVars, crash, cursors, now, kernelVars >>
        /\ UNCHANGED << faults, badWrites, log >> /\ wilds' = wilds + 1 /\ spoilt' = TRUE
    BY <1>5 DEF WildRecord, WildFault, histVars
  <2>6. /\ {faults', badWrites', wilds'} \subseteq Nat /\ spoilt' \in BOOLEAN
        /\ log' \in Seq([pid : Nat, name : Texts, time : Nat])
    BY <1>0, <2>5
  <2> DEFINE k == WithStray(j, i, r, complete)
  <2>7. k \in Journals /\ mem' = [mem EXCEPT ![h] = k]
    BY <2>1, <2>4
  <2> HIDE DEF k
  <2> QED
    BY <1>3, <2>5, <2>6, <2>7
<1>6. ASSUME NEW h \in Handlers, Update(h) PROVE TypeInv'
  <2> DEFINE j == RecordCrash(mem[h], crash[h].pid, crash[h].name, Exact(now))
             e == [pid |-> crash[h].pid, name |-> crash[h].name, time |-> now]
  <2>1. crash[h].pid \in Nat /\ crash[h].name \in Texts /\ Exact(now) \in Times
    BY <1>0, ExactTimes
  <2>2. j \in Journals
    BY <1>0, <2>1, RecordCrashInAny
  <2>3. /\ mem' = [mem EXCEPT ![h] = j] /\ pc' = [pc EXCEPT ![h] = "open"] /\ log' = Append(log, e)
        /\ UNCHANGED << fileVars, crash, cursors, now, kernelVars >>
        /\ UNCHANGED << faults, badWrites, wilds, spoilt >>
    BY <1>6 DEF Update, faultVars
  <2>4. e \in [pid : Nat, name : Texts, time : Nat]
    BY <1>0, <2>1
  <2> HIDE DEF j, e
  <2>5. log' \in Seq([pid : Nat, name : Texts, time : Nat])
    BY <1>0, <2>3, <2>4
  <2> QED
    BY <1>0, <1>3, <2>2, <2>3, <2>5
<1>7. ASSUME NEW h \in Handlers, WildDeath(h) \/ OpenFails(h) \/ CloseJournal(h) \/ Kill(h)
      PROVE  TypeInv'
  <2>1. Exit(h) /\ UNCHANGED << now, crashes, limit, skipped, spoilt, log >>
    BY <1>7 DEF WildDeath, OpenFails, CloseJournal, Kill, kernelVars, histVars
  <2>2. {faults', badWrites', wilds'} \subseteq Nat
    BY <1>0, <1>7 DEF WildDeath, OpenFails, CloseJournal, Kill, Fault, WildFault, faultVars
  <2>3. TypeOK'
    BY <1>0, <2>1, <2>2, NoJournalTypes DEF Exit, TypeOK, Steps
  <2>4. ASSUME NEW g \in Handlers PROVE CursorType(g)'
    <3>1. CASE g = h
      <4>1. pc'[g] = "idle"
        BY <1>0, <2>1, <3>1 DEF Exit
      <4> QED
        BY <4>1 DEF CursorType, Writing
    <3>2. CASE g # h
      BY <1>0, <2>1, <3>2 DEF Exit, CursorType
    <3> QED
      BY <3>1, <3>2
  <2>5. FileType'
    BY <1>0, <2>1 DEF FileType, Exit
  <2> QED
    BY <2>3, <2>4, <2>5 DEF TypeInv
<1>8. ASSUME NEW h \in Handlers, OpenJournal(h) PROVE TypeInv'
  <2>1. IsFile(<<>>) /\ Len(<<>>) = 0
    BY DEF IsFile, IsSequence
  <2>2. TypeOK'
    BY <1>0, <1>8 DEF OpenJournal, TypeOK, Steps, kernelVars, faultVars
  <2>3. ASSUME NEW g \in Handlers PROVE CursorType(g)'
    BY <1>0, <1>8, <2>1 DEF OpenJournal, CursorType, Writing
  <2>4. FileType'
    BY <1>8, <2>1 DEF OpenJournal, FileType
  <2> QED
    BY <2>2, <2>3, <2>4 DEF TypeInv
<1>9. ASSUME NEW h \in Handlers, NEW c, h \in writer => MayFollow(c, journal), Write(h, c),
             pc' \in [Handlers -> Steps], rec' \in [Handlers -> Nat], tim' \in [Handlers -> Nat],
             \A g \in Handlers \ {h} : pc'[g] = pc[g] /\ rec'[g] = rec[g] /\ tim'[g] = tim[g],
             UNCHANGED << crash, mem, now, kernelVars, histVars >>,
             /\ pc'[h] \in Writing \ {"start"} => rec'[h] >= 1
             /\ pc'[h] = "total" => pc[h] = "start"
             /\ pc'[h] = "times" => rec'[h] <= mem[h].recCount /\ tim'[h] >= 1,
             pc'[h] # "start"
      PROVE  TypeInv'
  <2>1. /\ FileType' /\ writer' = writer
        /\ {torn', spoilt'} \subseteq BOOLEAN
        /\ {faults', badWrites', wilds'} \subseteq Nat
        /\ h \in writer => Len(journal') <= Len(journal) + 1
        /\ h \notin writer => Len(journal') <= Len(journal)
        /\ Len(journal') \in Nat
    BY <1>9, WriteKeepsTypes
  <2>2. TypeOK'
    BY <1>0, <1>9, <2>1 DEF TypeOK, kernelVars, histVars
  <2>3. Len(journal) \in Nat
    BY <1>0 DEF FileType, IsFile, IsSequence
  <2>4. ASSUME NEW g \in Handlers PROVE CursorType(g)'
    <3>1. CASE g = h
      <4>1. pc'[h] = "total" /\ h \in writer => Len(journal') <= 1
        BY <1>0, <1>9, <2>1, <2>3 DEF CursorType
      <4> QED
        BY <1>9, <2>1, <3>1, <4>1 DEF CursorType
    <3>2. CASE g # h
      <4>1. g \in writer => h \notin writer
        BY <1>0, <3>2 DEF FileType
      <4>2. g \in writer => Len(journal') <= Len(journal)
        BY <2>1, <4>1
      <4>3. /\ pc'[g] = pc[g] /\ rec'[g] = rec[g] /\ tim'[g] = tim[g] /\ mem'[g] = mem[g]
            /\ CursorType(g)
        BY <1>0, <1>9, <3>2
      <4> QED
        BY <2>1, <2>3, <4>2, <4>3 DEF CursorType
    <3> QED
      BY <3>1, <3>2
  <2> QED
    BY <2>1, <2>2, <2>4 DEF TypeInv
<1>10. ASSUME NEW h \in Handlers
       PROVE  /\ rec[h] \in Nat /\ tim[h] \in Nat /\ mem[h] \in Journals
              /\ mem[h].start \in Times /\ mem[h].count \in Nat
              /\ mem[h].recCount \in Nat /\ mem[h].recCount <= MaxRecs
              /\ \A i \in 1..mem[h].recCount : mem[h].slots[i] \in Records
  <2>1. mem[h] \in Journals
    BY <1>0
  <2>2. MaxRecs \in Nat
    BY BoundsAssumption
  <2> QED
    BY <1>0, <2>1, <2>2 DEF Journals, Slots
<1>11. ASSUME NEW h \in Handlers, WriteStart(h) PROVE TypeInv'
  <2> DEFINE c == StartChunk(mem[h].start)
  <2>1. pc[h] = "start" /\ (h \in writer => Len(journal) = 0) /\ rec[h] >= 1
    BY <1>0, <1>11 DEF WriteStart, CursorType, Writing
  <2>2. h \in writer => MayFollow(c, journal)
    BY <1>10, <2>1 DEF MayFollow, StartChunk
  <2> HIDE DEF c
  <2>3. /\ Write(h, c) /\ pc' = [pc EXCEPT ![h] = "total"]
        /\ UNCHANGED << crash, mem, rec, tim, now, kernelVars, histVars >>
    BY <1>11 DEF WriteStart, c
  <2>4. /\ pc' \in [Handlers -> Steps] /\ rec' \in [Handlers -> Nat] /\ tim' \in [Handlers -> Nat]
        /\ \A g \in Handlers \ {h} : pc'[g] = pc[g] /\ rec'[g] = rec[g] /\ tim'[g] = tim[g]
        /\ pc'[h] = "total" /\ rec'[h] = rec[h]
    BY <1>0, <2>3 DEF Steps
  <2> QED
    BY <1>9, <2>1, <2>2, <2>3, <2>4
<1>12. ASSUME NEW h \in Handlers, WriteTotal(h) PROVE TypeInv'
  <2> DEFINE c == TotalChunk(mem[h].count)
  <2>1. pc[h] = "total" /\ (h \in writer => Len(journal) <= 1) /\ rec[h] >= 1
    BY <1>0, <1>12 DEF WriteTotal, CursorType, Writing
  <2>2. h \in writer => MayFollow(c, journal)
    BY <1>10, <2>1 DEF MayFollow, TotalChunk
  <2> HIDE DEF c
  <2>3. /\ Write(h, c) /\ pc' = [pc EXCEPT ![h] = "head"]
        /\ UNCHANGED << crash, mem, rec, tim, now, kernelVars, histVars >>
    BY <1>12 DEF WriteTotal, c
  <2>4. /\ pc' \in [Handlers -> Steps] /\ rec' \in [Handlers -> Nat] /\ tim' \in [Handlers -> Nat]
        /\ \A g \in Handlers \ {h} : pc'[g] = pc[g] /\ rec'[g] = rec[g] /\ tim'[g] = tim[g]
        /\ pc'[h] = "head" /\ rec'[h] = rec[h]
    BY <1>0, <2>3 DEF Steps
  <2> QED
    BY <1>9, <2>1, <2>2, <2>3, <2>4
<1>13. ASSUME NEW h \in Handlers, WriteHead(h) PROVE TypeInv'
  <2> DEFINE r == mem[h].slots[rec[h]]
             c == HeadChunk(r)
  <2>1. pc[h] = "head" /\ rec[h] >= 1 /\ rec[h] <= mem[h].recCount
    BY <1>0, <1>13 DEF WriteHead, CursorType, Writing
  <2>2. r \in Records
    BY <1>10, <2>1
  <2>3. MayFollow(c, journal)
    BY <2>2 DEF MayFollow, HeadChunk, Records, LineChunks, HeadChunks
  <2>4. Write(h, c)
    BY <1>13 DEF WriteHead
  <2> HIDE DEF r, c
  <2>5. /\ pc' = [pc EXCEPT ![h] = "times"] /\ tim' = [tim EXCEPT ![h] = 1]
        /\ UNCHANGED << crash, mem, rec, now, kernelVars, histVars >>
    BY <1>13 DEF WriteHead
  <2>6. /\ pc' \in [Handlers -> Steps] /\ rec' \in [Handlers -> Nat] /\ tim' \in [Handlers -> Nat]
        /\ \A g \in Handlers \ {h} : pc'[g] = pc[g] /\ rec'[g] = rec[g] /\ tim'[g] = tim[g]
        /\ pc'[h] = "times" /\ rec'[h] = rec[h] /\ tim'[h] = 1
    BY <1>0, <2>5 DEF Steps
  <2> QED
    BY <1>9, <2>1, <2>3, <2>4, <2>5, <2>6
<1>14. ASSUME NEW h \in Handlers, WriteTime(h) PROVE TypeInv'
  <2> DEFINE times == CurrentTimes(h)
             t == times[tim[h]]
             c == TimeChunk(t)
  <2>1. /\ pc[h] = "times" /\ rec[h] >= 1 /\ rec[h] <= mem[h].recCount /\ tim[h] >= 1
        /\ tim[h] <= Len(times)
    BY <1>0, <1>14 DEF WriteTime, CursorType, Writing
  <2>2. times \in Seq(Times)
    BY <1>10, <2>1 DEF CurrentTimes, Records
  <2> HIDE DEF times
  <2>3. t \in Times
    BY <1>10, <2>1, <2>2
  <2>4. MayFollow(c, journal)
    BY <2>3 DEF MayFollow, TimeChunk, LineChunks, TimeChunks
  <2>5. Write(h, c)
    BY <1>14 DEF WriteTime, times
  <2> HIDE DEF t, c
  <2>6. /\ tim' = [tim EXCEPT ![h] = @ + 1]
        /\ UNCHANGED << pc, crash, mem, rec, now, kernelVars, histVars >>
    BY <1>14 DEF WriteTime
  <2>7. /\ pc' \in [Handlers -> Steps] /\ rec' \in [Handlers -> Nat] /\ tim' \in [Handlers -> Nat]
        /\ \A g \in Handlers \ {h} : pc'[g] = pc[g] /\ rec'[g] = rec[g] /\ tim'[g] = tim[g]
        /\ pc'[h] = "times" /\ rec'[h] = rec[h] /\ tim'[h] = tim[h] + 1
    BY <1>0, <2>1, <2>6
  <2>8. tim'[h] >= 1
    BY <1>10, <2>1, <2>7
  <2> QED
    BY <1>9, <2>1, <2>4, <2>5, <2>6, <2>7, <2>8
<1>15. ASSUME NEW h \in Handlers, WriteNewline(h) PROVE TypeInv'
  <2>1. pc[h] = "times" /\ rec[h] >= 1
    BY <1>0, <1>15 DEF WriteNewline, CursorType, Writing
  <2>2. MayFollow(NewlineChunk, journal)
    BY DEF MayFollow
  <2>3. /\ Write(h, NewlineChunk) /\ pc' = [pc EXCEPT ![h] = "head"]
        /\ rec' = [rec EXCEPT ![h] = @ + 1]
        /\ UNCHANGED << crash, mem, tim, now, kernelVars, histVars >>
    BY <1>15 DEF WriteNewline
  <2>4. /\ pc' \in [Handlers -> Steps] /\ rec' \in [Handlers -> Nat] /\ tim' \in [Handlers -> Nat]
        /\ \A g \in Handlers \ {h} : pc'[g] = pc[g] /\ rec'[g] = rec[g] /\ tim'[g] = tim[g]
        /\ pc'[h] = "head" /\ rec'[h] = rec[h] + 1
    BY <1>0, <2>3 DEF Steps
  <2>5. rec'[h] >= 1
    BY <1>10, <2>1, <2>4
  <2> QED
    BY <1>9, <2>1, <2>2, <2>3, <2>4, <2>5
<1> QED
  BY <1>1, <1>2, <1>4, <1>5, <1>6, <1>7, <1>8, <1>11, <1>12, <1>13, <1>14, <1>15
     DEF Next, HandlerStep

(* The types, always. *)
LEMMA TypeInvAlways == Spec => []TypeInv
BY TypeInvInit, TypeInvStep, PTL DEF Spec

(* Every variable has its type, whatever handlers overlap, are killed or   *)
(* fail to write: what they leave in the file is always read into records  *)
(* (read_record, read_crash_journal).                                      *)
THEOREM JournalTypes == Spec => []TypeOK
<1>1. TypeInv => TypeOK
  BY DEF TypeInv
<1> QED
  BY <1>1, TypeInvAlways, PTL
----------------------------------------------------------------------------
(***************************************************************************)
(* One handler at a time, which may be killed at any step and whose writes *)
(* may fail.  What is in the file is then no beginning of any text, but no *)
(* program has two heads in it, and so none has two records in what the    *)
(* next handler reads: the heads are those of records that the writer has  *)
(* behind it.                                                              *)
(***************************************************************************)
Behind(r, p, q) == q < r \/ (q = r /\ p = "times")

HeadsWritten(h) ==
  \A i \in 1..Len(journal) :
    journal[i].k = "head" =>
      \E q \in 1..mem[h].recCount : Behind(rec[h], pc[h], q) /\ journal[i].name = mem[h].slots[q].name

HeadsInv ==
  /\ ~torn
  /\ HeadsApart(journal)
  /\ \A h \in Handlers : Apart(mem[h])
  /\ \A h \in Handlers : pc[h] \in Writing => HeadsWritten(h)

(* No program has a record in a journal that was not read. *)
LEMMA BlankIsApart == Apart(NoJournal)
<1> DEFINE j == NoJournal
<1>1. j.recCount = 0 /\ \A i \in Slots : j.slots[i].name = NoName
  BY DEF NoJournal, BlankJournal, BlankRecord
<1> HIDE DEF j
<1>2. Apart(j)
  BY <1>1 DEF Apart, Known, Odd
<1> QED
  BY <1>2 DEF j

(* The invariant holds at the start. *)
LEMMA HeadsInvInit == Init => HeadsInv
<1> SUFFICES ASSUME Init PROVE HeadsInv
  OBVIOUS
<1>1. journal = <<>> /\ ~torn /\ \A h \in Handlers : pc[h] = "idle" /\ mem[h] = NoJournal
  BY DEF Init
<1>2. \A h \in Handlers : Apart(mem[h])
  BY <1>1, BlankIsApart
<1>3. HeadsApart(journal)
  BY <1>1 DEF HeadsApart
<1> QED
  BY <1>1, <1>2, <1>3 DEF HeadsInv, Writing

(* A write of the one handler that runs, or one that fails. *)
LEMMA WriteKeepsHeads ==
  ASSUME TypeInv, OneHandler, HeadsInv, ~spoilt', NEW h \in Handlers, pc[h] \in Writing,
         NEW c, Write(h, c), UNCHANGED mem,
         \A g \in Handlers \ {h} : pc'[g] = pc[g],
         \A q \in 1..mem[h].recCount : Behind(rec[h], pc[h], q) => Behind(rec'[h], pc'[h], q),
         c.k = "head" => /\ rec[h] \in 1..mem[h].recCount
                         /\ pc[h] = "head"
                         /\ c.name = mem[h].slots[rec[h]].name
                         /\ Behind(rec'[h], pc'[h], rec[h])
  PROVE  HeadsInv'
<1>1. /\ IsSequence(journal) /\ Len(journal) \in Nat
      /\ mem[h] \in Journals /\ rec[h] \in Nat
  BY DEF TypeInv, TypeOK, FileType, IsFile, IsSequence
<1>2. \A g \in Handlers : pc'[g] \in Writing => g = h
  BY DEF OneHandler, Writing
<1>3. /\ ~torn /\ HeadsApart(journal) /\ HeadsWritten(h)
      /\ \A g \in Handlers : Apart(mem[g])
  BY DEF HeadsInv
<1>4. CASE BadWrite /\ UNCHANGED << journal, torn, spoilt >>
  <2>1. HeadsWritten(h)'
    BY <1>3, <1>4 DEF HeadsWritten
  <2> QED
    BY <1>2, <1>3, <1>4, <2>1 DEF HeadsInv
<1>5. CASE Tear
  BY <1>5 DEF Tear
<1>6. CASE /\ h \in writer
           /\ journal' = IF torn THEN <<>> ELSE Append(journal, c)
           /\ UNCHANGED << torn, spoilt, faultVars >>
  <2> DEFINE f == journal
             g == journal'
             n == Len(journal) + 1
  <2>1. /\ Len(g) = n /\ g[n] = c /\ ~torn'
        /\ \A i \in 1..Len(f) : g[i] = f[i]
    BY <1>1, <1>3, <1>6, AppendIsSequence
  <2>2. \A i \in 1..Len(g) : i \in 1..Len(f) \/ i = n
    BY <1>1, <2>1
  <2> HIDE DEF f, g, n
  <2>3. \A i \in 1..Len(f) :
          f[i].k = "head" => \E q \in 1..mem[h].recCount : /\ Behind(rec[h], pc[h], q)
                                                          /\ f[i].name = mem[h].slots[q].name
    BY <1>3 DEF HeadsWritten, f
  <2>4. c.k = "head" => Known(c.name)
    <3> SUFFICES ASSUME c.k = "head" PROVE Known(c.name)
      OBVIOUS
    <3>1. rec[h] \in Slots
      BY <1>1, BoundsAssumption DEF Journals, Slots
    <3> QED
      BY <1>3, <3>1 DEF Apart
  <2>5. c.k = "head" /\ c.name \notin Odd =>
          \A i \in 1..Len(f) : f[i].k = "head" => f[i].name # c.name
    <3> SUFFICES ASSUME c.k = "head", c.name \notin Odd,
                        NEW i \in 1..Len(f), f[i].k = "head", f[i].name = c.name
                 PROVE  FALSE
      OBVIOUS
    <3>1. PICK q \in 1..mem[h].recCount : Behind(rec[h], pc[h], q) /\ f[i].name = mem[h].slots[q].name
      BY <2>3
    <3>2. q = rec[h]
      BY <1>3, <3>1 DEF Apart
    <3>3. ~(q < rec[h]) /\ pc[h] # "times"
      BY <1>1, <3>2
    <3> QED
      BY <3>1, <3>3 DEF Behind
  <2>6. HeadsApart(f)
    BY <1>3 DEF f
  <2>7. HeadsApart(g)
    <3>1. \A i \in 1..Len(g) : g[i].k = "head" => Known(g[i].name)
      BY <2>1, <2>2, <2>4, <2>6 DEF HeadsApart
    <3>2. ASSUME NEW i \in 1..Len(g), NEW k \in 1..Len(g), g[i].k = "head", g[k].k = "head",
                 g[i].name = g[k].name, g[i].name \notin Odd
          PROVE  i = k
      <4>1. CASE i \in 1..Len(f) /\ k \in 1..Len(f)
        BY <2>1, <2>6, <3>2, <4>1 DEF HeadsApart
      <4>2. CASE i = n /\ k \in 1..Len(f)
        BY <2>1, <2>5, <3>2, <4>2
      <4>3. CASE k = n /\ i \in 1..Len(f)
        BY <2>1, <2>5, <3>2, <4>3
      <4> QED
        BY <2>2, <4>1, <4>2, <4>3
    <3> QED
      BY <3>1, <3>2 DEF HeadsApart
  <2>8. ASSUME NEW i \in 1..Len(g), g[i].k = "head"
        PROVE  \E q \in 1..mem[h].recCount : /\ Behind(rec'[h], pc'[h], q)
                                             /\ g[i].name = mem[h].slots[q].name
    <3>1. CASE i \in 1..Len(f)
      <4>1. g[i] = f[i]
        BY <2>1, <3>1
      <4>2. PICK q \in 1..mem[h].recCount : Behind(rec[h], pc[h], q) /\ f[i].name = mem[h].slots[q].name
        BY <2>3, <2>8, <3>1, <4>1
      <4>3. Behind(rec'[h], pc'[h], q)
        BY <4>2
      <4> QED
        BY <4>1, <4>2, <4>3
    <3>2. CASE i = n
      <4>1. g[i] = c /\ c.k = "head"
        BY <2>1, <2>8, <3>2
      <4>2. /\ rec[h] \in 1..mem[h].recCount /\ Behind(rec'[h], pc'[h], rec[h])
            /\ c.name = mem[h].slots[rec[h]].name
        BY <4>1
      <4> QED
        BY <4>1, <4>2
    <3> QED
      BY <2>2, <3>1, <3>2
  <2>9. HeadsWritten(h)'
    <3>1. \A i \in 1..Len(journal') :
            journal'[i].k = "head" => \E q \in 1..mem'[h].recCount :
                                        Behind(rec'[h], pc'[h], q) /\ journal'[i].name = mem'[h].slots[q].name
      BY <2>8 DEF g
    <3> QED
      BY <3>1 DEF HeadsWritten
  <2> QED
    BY <1>2, <1>3, <2>1, <2>7, <2>9 DEF HeadsInv, g
<1> QED
  BY <1>4, <1>5, <1>6 DEF Write

(* What was spoilt before is spoilt. *)
LEMMA SpoiltStays == [Next]_vars /\ ~spoilt' => ~spoilt
<1> SUFFICES ASSUME [Next]_vars, ~spoilt' PROVE ~spoilt
  OBVIOUS
<1>1. CASE \/ SkipCrash \/ Tick \/ UNCHANGED vars
           \/ \E h \in Handlers : \E n \in Names : StartHandler(h, n)
  BY <1>1 DEF SkipCrash, Tick, StartHandler, vars
<1>2. ASSUME NEW h \in Handlers,
             ReadFile(h) \/ WildDeath(h) \/ WildRecord(h) \/ Update(h) \/ OpenJournal(h)
             \/ OpenFails(h) \/ CloseJournal(h) \/ Kill(h)
      PROVE  ~spoilt
  BY <1>2 DEF ReadFile, WildDeath, WildRecord, Update, OpenJournal, OpenFails, CloseJournal, Kill
<1>3. ASSUME NEW h \in Handlers, NEW c, Write(h, c)
      PROVE  ~spoilt
  BY <1>3 DEF Write, Tear
<1>4. ASSUME NEW h \in Handlers,
             WriteStart(h) \/ WriteTotal(h) \/ WriteHead(h) \/ WriteTime(h) \/ WriteNewline(h)
      PROVE  ~spoilt
  BY <1>3, <1>4 DEF WriteStart, WriteTotal, WriteHead, WriteTime, WriteNewline
<1> QED
  BY <1>1, <1>2, <1>4 DEF Next, HandlerStep

(* Every step of a system with one handler at a time keeps the invariant,  *)
(* as long as it tears no file and takes no stray record.                  *)
LEMMA HeadsInvStep ==
  ASSUME PlainNames, TypeInv, OneHandler, Loops, HeadsInv, [Next]_vars, ~spoilt'
  PROVE  HeadsInv'
<1>0. /\ pc \in [Handlers -> Steps] /\ mem \in [Handlers -> Journals] /\ now \in Nat
      /\ crash \in [Handlers -> [pid : Nat, name : Texts]]
      /\ rec \in [Handlers -> Nat] /\ tim \in [Handlers -> Nat]
      /\ IsFile(journal)
      /\ \A h \in Handlers : CursorType(h)
      /\ ~torn
      /\ HeadsApart(journal)
      /\ \A h \in Handlers : Apart(mem[h])
      /\ \A h \in Handlers : pc[h] \in Writing => HeadsWritten(h)
  BY DEF TypeInv, TypeOK, FileType, HeadsInv
(* Steps that leave the file alone, and the memory of handlers that write. *)
<1>1. ASSUME UNCHANGED << journal, torn >>, \A h \in Handlers : Apart(mem'[h]),
             \A h \in Handlers : pc'[h] \in Writing =>
               UNCHANGED << pc[h], mem[h], rec[h] >>
      PROVE  HeadsInv'
  <2>1. ASSUME NEW h \in Handlers, pc'[h] \in Writing PROVE HeadsWritten(h)'
    <3>1. pc'[h] = pc[h] /\ mem'[h] = mem[h] /\ rec'[h] = rec[h]
      BY <1>1, <2>1
    <3>2. HeadsWritten(h)
      BY <1>0, <2>1, <3>1
    <3>3. \A q \in 1..mem[h].recCount : Behind(rec[h], pc[h], q) => Behind(rec'[h], pc'[h], q)
      BY <3>1 DEF Behind
    <3> QED
      BY <1>1, <3>1, <3>2, <3>3 DEF HeadsWritten
  <2> QED
    BY <1>0, <1>1, <2>1 DEF HeadsInv
<1>2. ASSUME NEW h \in Handlers, NEW n \in Names, StartHandler(h, n) PROVE HeadsInv'
  <2>1. /\ pc' = [pc EXCEPT ![h] = "read"]
        /\ UNCHANGED << journal, torn, mem, rec >>
    BY <1>2 DEF StartHandler, fileVars, cursors
  <2> QED
    BY <1>0, <1>1, <2>1 DEF Writing
<1>3. CASE SkipCrash \/ Tick \/ UNCHANGED vars
  BY <1>0, <1>1, <1>3 DEF SkipCrash, Tick, vars, fileVars, cursors
<1>4. ASSUME NEW h \in Handlers, ReadFile(h) PROVE HeadsInv'
  <2> DEFINE r == ReadJournal(journal, Exact(now))
  <2>1. PICK z \in Shifts : mem' = [mem EXCEPT ![h] = Converted(journal, Exact(now), z)]
    BY <1>0, <1>4 DEF ReadFile, Found
  <2> DEFINE j == Converted(journal, Exact(now), z)
  <2>2. Exact(now) \in Times
    BY <1>0, ExactTimes
  <2>3. r \in Journals /\ \A i \in Slots : Len(r.slots[i].times) <= MaxLast
    BY <1>0, <2>2, FileIsJournal
  <2>4. Apart(r)
    BY <1>0, <2>2, ReadsApart
  <2>5. IsMoved(r, j)
    BY <2>3, ConvertedMoves, DataAssumption
  <2>6. Apart(j)
    BY <2>3, <2>4, <2>5, JournalMoves
  <2>7. /\ mem' = [mem EXCEPT ![h] = j] /\ pc' = [pc EXCEPT ![h] = "update"]
        /\ UNCHANGED << journal, torn, rec >>
    BY <1>4, <2>1 DEF ReadFile, fileVars, cursors
  <2> HIDE DEF j, r
  <2> QED
    BY <1>0, <1>1, <2>6, <2>7 DEF Writing
<1>5. ASSUME NEW h \in Handlers, WildDeath(h) \/ OpenFails(h) \/ CloseJournal(h) \/ Kill(h)
      PROVE  HeadsInv'
  <2>1. Exit(h)
    BY <1>5 DEF WildDeath, OpenFails, CloseJournal, Kill
  <2>2. \A g \in Handlers : Apart(mem'[g])
    BY <1>0, <2>1, BlankIsApart DEF Exit
  <2>3. \A g \in Handlers : pc'[g] \in Writing => UNCHANGED << pc[g], mem[g], rec[g] >>
    BY <1>0, <2>1 DEF Exit, Writing
  <2>4. UNCHANGED << journal, torn >>
    BY <2>1 DEF Exit
  <2> QED
    BY <1>1, <2>2, <2>3, <2>4
<1>6. ASSUME NEW h \in Handlers, WildRecord(h) PROVE FALSE
  BY <1>6 DEF WildRecord
<1>7. ASSUME NEW h \in Handlers, Update(h) PROVE HeadsInv'
  <2> DEFINE j == RecordCrash(mem[h], crash[h].pid, crash[h].name, Exact(now))
  <2>1. /\ crash[h].pid \in Nat /\ crash[h].name \in Texts /\ IsPlain(crash[h].name)
        /\ Exact(now) \in Times
    BY <1>0, <1>7, ExactTimes DEF Update, Loops, PlainNames
  <2>2. Apart(j)
    BY <1>0, <2>1, RecordCrashInAny
  <2>3. /\ mem' = [mem EXCEPT ![h] = j] /\ pc' = [pc EXCEPT ![h] = "open"]
        /\ UNCHANGED << journal, torn, rec >>
    BY <1>7 DEF Update, fileVars, cursors
  <2> HIDE DEF j
  <2> QED
    BY <1>0, <1>1, <2>2, <2>3 DEF Writing
<1>8. ASSUME NEW h \in Handlers, OpenJournal(h) PROVE HeadsInv'
  <2>1. /\ pc[h] = "open" /\ journal' = <<>> /\ torn' = FALSE
        /\ pc' = [pc EXCEPT ![h] = "start"] /\ mem' = mem
    BY <1>0, <1>8 DEF OpenJournal
  <2>2. HeadsApart(journal')
    BY <2>1 DEF HeadsApart
  <2>3. HeadsWritten(h)'
    BY <2>1 DEF HeadsWritten
  <2>4. \A g \in Handlers : pc'[g] \in Writing => g = h
    BY <1>0, <2>1 DEF OneHandler, Writing
  <2> QED
    BY <1>0, <2>1, <2>2, <2>3, <2>4 DEF HeadsInv
<1>9. ASSUME NEW h \in Handlers, WriteStart(h) \/ WriteTotal(h) \/ WriteTime(h) PROVE HeadsInv'
  <2>1. PICK c : Write(h, c) /\ c.k # "head"
    BY <1>9 DEF WriteStart, WriteTotal, WriteTime, StartChunk, TotalChunk, TimeChunk
  <2>2. pc[h] \in Writing /\ UNCHANGED << mem, rec >>
    BY <1>9 DEF WriteStart, WriteTotal, WriteTime, Writing
  <2>3. \A g \in Handlers \ {h} : pc'[g] = pc[g]
    BY <1>0, <1>9 DEF WriteStart, WriteTotal, WriteTime
  <2>4. pc[h] = "times" => pc'[h] = "times"
    BY <1>9 DEF WriteStart, WriteTotal, WriteTime
  <2>5. \A q \in 1..mem[h].recCount : Behind(rec[h], pc[h], q) => Behind(rec'[h], pc'[h], q)
    BY <2>2, <2>4 DEF Behind
  <2> QED
    BY <2>1, <2>2, <2>3, <2>5, WriteKeepsHeads
<1>10. ASSUME NEW h \in Handlers, WriteHead(h) PROVE HeadsInv'
  <2> DEFINE c == HeadChunk(mem[h].slots[rec[h]])
  <2>1. /\ pc[h] = "head" /\ rec[h] <= mem[h].recCount /\ Write(h, c)
        /\ pc' = [pc EXCEPT ![h] = "times"] /\ UNCHANGED << mem, rec >>
    BY <1>10 DEF WriteHead
  <2>2. pc[h] \in Writing /\ rec[h] >= 1
    BY <1>0, <2>1 DEF CursorType, Writing
  <2>3. mem[h].recCount \in Nat
    BY <1>0, BoundsAssumption DEF Journals
  <2>4. c.name = mem[h].slots[rec[h]].name
    BY DEF HeadChunk
  <2> HIDE DEF c
  <2>5. rec[h] \in 1..mem[h].recCount
    BY <1>0, <2>1, <2>2, <2>3
  <2>6. pc'[h] = "times" /\ \A g \in Handlers \ {h} : pc'[g] = pc[g]
    BY <1>0, <2>1
  <2>7. /\ Behind(rec'[h], pc'[h], rec[h])
        /\ \A q \in 1..mem[h].recCount : Behind(rec[h], pc[h], q) => Behind(rec'[h], pc'[h], q)
    BY <2>1, <2>6 DEF Behind
  <2> QED
    BY <2>1, <2>2, <2>4, <2>5, <2>6, <2>7, WriteKeepsHeads
<1>11. ASSUME NEW h \in Handlers, WriteNewline(h) PROVE HeadsInv'
  <2>1. /\ pc[h] = "times" /\ Write(h, NewlineChunk) /\ pc' = [pc EXCEPT ![h] = "head"]
        /\ rec' = [rec EXCEPT ![h] = @ + 1] /\ UNCHANGED mem
    BY <1>11 DEF WriteNewline
  <2>2. pc[h] \in Writing /\ NewlineChunk.k # "head"
    BY <2>1 DEF Writing, NewlineChunk
  <2>3. /\ \A g \in Handlers \ {h} : pc'[g] = pc[g]
        /\ rec[h] \in Nat /\ rec'[h] = rec[h] + 1
    BY <1>0, <2>1
  <2>4. \A q \in 1..mem[h].recCount : Behind(rec[h], pc[h], q) => Behind(rec'[h], pc'[h], q)
    <3>1. mem[h].recCount \in Nat
      BY <1>0, BoundsAssumption DEF Journals
    <3> SUFFICES ASSUME NEW q \in 1..mem[h].recCount, Behind(rec[h], pc[h], q)
                 PROVE  Behind(rec'[h], pc'[h], q)
      OBVIOUS
    <3>2. q <= rec[h] /\ q \in Nat
      BY <2>3, <3>1 DEF Behind
    <3>3. q < rec'[h]
      BY <2>3, <3>2
    <3> QED
      BY <2>3, <3>2, <3>3 DEF Behind
  <2> QED
    BY <2>1, <2>2, <2>3, <2>4, WriteKeepsHeads
<1> QED
  BY <1>2, <1>3, <1>4, <1>5, <1>6, <1>7, <1>8, <1>9, <1>10, <1>11 DEF Next, HandlerStep

(* With core_pipe_limit 1 no program ever has two records, wherever the    *)
(* handlers before were killed and whichever of their writes failed:       *)
(* find_crash_record finds the one there is, and a line that lost chunks   *)
(* is taken for no other program's (read_record, record_crash_to_journal). *)
THEOREM RecordsAreNeverDuplicated ==
  ASSUME PlainNames
  PROVE  Spec => []NoDuplicateRecords
<1> DEFINE LimitedInv == limit = 1 /\ ~spoilt => HeadsInv
<1>1. LimitedInv /\ TypeInv /\ (limit = 1 => SerialInv) /\ [Next]_vars => LimitedInv'
  BY HeadsInvStep, LimitStays, SpoiltStays DEF SerialInv
<1>2. Init => LimitedInv
  BY HeadsInvInit
<1>3. Spec => []LimitedInv
  BY <1>1, <1>2, TypeInvAlways, SerialInvAlways, PTL DEF Spec
<1>4. LimitedInv /\ TypeInv => NoDuplicateRecords
  <2> SUFFICES ASSUME HeadsInv, TypeInv PROVE NoDuplicateRecords
    BY DEF NoDuplicateRecords, Serial
  <2>1. IsFile(journal) /\ Exact(now) \in Times /\ HeadsApart(journal)
    BY ExactTimes DEF TypeInv, TypeOK, FileType, HeadsInv
  <2>2. Apart(OnDisk)
    BY <2>1, ReadsApart DEF OnDisk
  <2> QED
    BY <2>2 DEF Apart, Odd, NoDuplicateRecords
<1> QED
  BY <1>3, <1>4, TypeInvAlways, PTL
=============================================================================
