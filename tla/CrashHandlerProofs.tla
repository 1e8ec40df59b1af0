------------------------- MODULE CrashHandlerProofs -------------------------
(***************************************************************************)
(* Proofs about CrashHandler for any processes, any failures and any       *)
(* number of installations, started with or without an installed handler.  *)
(***************************************************************************)
EXTENDS CrashHandler, FiniteSetTheorems, TLAPS

(* What a handler has behind it, by what it does next. *)
BeyondLog       == {"detach", "close", "exited"}
BeyondStack     == BeyondLog \cup {"kernel log"}
BeyondCode      == BeyondStack \cup {"stack"}
BeyondRegisters == BeyondCode \cup {"code"}
BeyondSignal    == BeyondRegisters \cup {"registers"}
BeyondAttach    == BeyondSignal \cup {"signal"}
BeyondMaps      == BeyondAttach \cup {"attach"}
BeyondJournal   == BeyondMaps \cup {"maps"}
BeyondStatus    == BeyondJournal \cup {"journal"}
BeyondName      == BeyondStatus \cup {"status", "read status"}

(* A handler started under the limit keeps its process from going away,    *)
(* and so reads what it sets out to read.                                  *)
HandlerInv(p) ==
  limited[p] =>
    /\ pc[p] # "none"
    /\ pc[p] # "exited" => proc[p] = "dumping"
    /\ pc[p] \in {"read cmdline", "read status"} => fd[p]
    /\ pc[p] \in BeyondName => name[p] = "cmdline" /\ "cmdline" \in sections[p]
    /\ pc[p] \in BeyondStatus => "status" \in sections[p]
    /\ pc[p] \in BeyondJournal => journal[p] \in {"cmdline", "lost", "died"}
    /\ journal[p] # "died" =>
         /\ pc[p] \in BeyondMaps => "maps" \in sections[p]
         /\ pc[p] \in {"signal", "registers", "code", "stack"} /\ faults = 0 => attached[p]
         /\ pc[p] \in BeyondSignal /\ faults = 0 => "signal" \in sections[p]
         /\ pc[p] \in BeyondRegisters /\ faults = 0 => "registers" \in sections[p]
         /\ pc[p] \in BeyondCode /\ faults = 0 => "code" \in sections[p]
         /\ pc[p] \in BeyondStack /\ faults = 0 => "stack" \in sections[p]
         /\ pc[p] \in BeyondLog /\ faults = 0 => "kernel log" \in sections[p]

(* The limit is 1 once it is in force, and it stays in force. *)
LimitInv ==
  /\ limit \in {0, 1}
  /\ \A p \in Processes : limited[p] => limit = 1
  /\ \A p \in Processes : proc[p] = "running" => pc[p] = "none"

CrashInv ==
  /\ TypeOK
  /\ LimitInv
  /\ \A p \in Processes : HandlerInv(p)
  /\ LimitedHandlersAreAlone

----------------------------------------------------------------------------
(* The invariant holds at the start. *)
LEMMA CrashInvInit == Init => CrashInv
<1> SUFFICES ASSUME Init PROVE CrashInv
  OBVIOUS
<1>1. TypeOK
  BY SystemAssumption DEF Init, TypeOK, Names, Entries
<1>2. LimitInv
  BY DEF Init, LimitInv
<1>3. (\A p \in Processes : HandlerInv(p)) /\ LimitedHandlersAreAlone
  BY DEF Init, HandlerInv, LimitedHandlersAreAlone, Handlers
<1> QED
  BY <1>1, <1>2, <1>3 DEF CrashInv

(* A counter that stays or is counted up. *)
LEMMA Counts ==
  ASSUME NEW x \in Nat, NEW y, y = x \/ y = x + 1
  PROVE  y \in Nat /\ (y = 0 => x = 0)
OBVIOUS

(* A step of the installer. *)
LEMMA InstallKeeps ==
  ASSUME CrashInv, Install
  PROVE  CrashInv'
<1> USE DEF handlerVars
<1>1. /\ UNCHANGED << proc, limited, pc, name, fd, attached, journal, sections >>
      /\ limit' = limit \/ limit' = 1
      /\ faults' = faults \/ faults' = faults + 1
      /\ installs' = installs \/ installs' = installs + 1
      /\ pattern' = pattern \/ pattern' = TRUE
      /\ inst' \in {"pattern", "limit", "done", "failed"}
  BY DEF Install, StartInstall, SetPattern, NoRealPath, SetLimit, InstallFails, Fault
<1>2. TypeOK /\ LimitInv /\ LimitedHandlersAreAlone
  BY DEF CrashInv
<1>3. faults' \in Nat /\ installs' \in Nat /\ (faults' = 0 => faults = 0)
  <2>1. faults \in Nat /\ installs \in Nat
    BY <1>2 DEF TypeOK
  <2> QED
    BY <1>1, <2>1, Counts
<1>4. TypeOK'
  <2>1. limit' \in Nat
    <3>1. limit \in Nat
      BY <1>2 DEF TypeOK
    <3> QED
      BY <1>1, <3>1
  <2>2. pattern' \in BOOLEAN
    <3>1. pattern \in BOOLEAN
      BY <1>2 DEF TypeOK
    <3> QED
      BY <1>1, <3>1
  <2> QED
    BY <1>1, <1>2, <1>3, <2>1, <2>2 DEF TypeOK
<1>5. LimitInv'
  BY <1>1, <1>2 DEF LimitInv
<1>6. ASSUME NEW p \in Processes PROVE HandlerInv(p)'
  BY <1>1, <1>3 DEF HandlerInv, CrashInv
<1>7. LimitedHandlersAreAlone'
  BY <1>1, <1>2 DEF LimitedHandlersAreAlone, Handlers
<1> QED
  BY <1>4, <1>5, <1>6, <1>7 DEF CrashInv

(* With as many handlers as the limit of 1 does not allow, there is none. *)
LEMMA NoHandlerBelowOne ==
  ASSUME CrashInv, Cardinality(Handlers) < 1
  PROVE  Handlers = {}
<1>1. IsFiniteSet(Handlers)
  BY SystemAssumption, FS_Subset DEF Handlers
<1>2. Cardinality(Handlers) \in Nat
  BY <1>1, FS_CardinalityType
<1>3. Cardinality(Handlers) = 0
  BY <1>2
<1> QED
  BY <1>1, <1>3, FS_EmptySet

(* A step of the kernel: under a limit it starts a handler only when there is none. *)
LEMMA KernelKeeps ==
  ASSUME CrashInv, NEW p \in Processes, Crash(p) \/ CrashMissed(p) \/ GoesAway(p)
  PROVE  CrashInv'
<1> USE DEF kernelVars, handlerVars
<1>1. TypeOK /\ LimitInv /\ LimitedHandlersAreAlone
      /\ \A q \in Processes : HandlerInv(q)
  BY DEF CrashInv
<1>2. CASE Crash(p)
  <2>1. UNCHANGED << pattern, limit, inst, installs, name, fd, attached, journal,
                     sections, faults >>
        /\ proc[p] = "running" /\ pc[p] = "none"
        /\ proc' = [proc EXCEPT ![p] = "dumping"]
        /\ limited' = [limited EXCEPT ![p] = limit # 0]
        /\ pc' = [pc EXCEPT ![p] = "report"]
    BY <1>1, <1>2 DEF Crash, LimitInv
  <2>2. TypeOK'
    BY <1>1, <2>1 DEF TypeOK
  <2>3. LimitInv'
    BY <1>1, <2>1 DEF LimitInv, TypeOK
  <2>4. ASSUME NEW q \in Processes PROVE HandlerInv(q)'
    <3>1. CASE q = p
      BY <1>1, <2>1, <3>1 DEF HandlerInv, TypeOK, BeyondName, BeyondStatus,
         BeyondJournal, BeyondMaps, BeyondAttach, BeyondSignal, BeyondRegisters,
     BeyondCode, BeyondStack, BeyondLog
    <3>2. CASE q # p
      BY <1>1, <2>1, <3>2 DEF HandlerInv, TypeOK
    <3> QED
      BY <3>1, <3>2
  <2>5. LimitedHandlersAreAlone'
    <3>1. CASE limit = 0
      <4>1. \A q \in Processes : ~limited[q]
        BY <1>1, <3>1 DEF LimitInv
      <4>2. limited \in [Processes -> BOOLEAN]
        BY <1>1 DEF TypeOK
      <4>3. \A q \in Processes : limited'[q] = limited[q] \/ limited'[q] = (limit # 0)
        BY <2>1, <4>2
      <4>4. \A q \in Processes : ~limited'[q]
        BY <3>1, <4>1, <4>3
      <4> QED
        BY <4>4 DEF LimitedHandlersAreAlone, Handlers
    <3>2. CASE limit # 0
      <4>1. Handlers = {}
        BY <1>1, <1>2, <3>2, NoHandlerBelowOne DEF Crash, LimitInv
      <4>2. Handlers' \subseteq {p}
        BY <1>1, <2>1, <4>1 DEF Handlers, TypeOK
      <4> QED
        BY <4>2 DEF LimitedHandlersAreAlone
    <3> QED
      BY <3>1, <3>2
  <2> QED
    BY <2>2, <2>3, <2>4, <2>5 DEF CrashInv
<1>3. CASE CrashMissed(p) \/ GoesAway(p)
  <2>1. /\ UNCHANGED << pattern, limit, inst, installs, limited, pc, name, fd, attached,
                        journal, sections, faults >>
        /\ proc' = [proc EXCEPT ![p] = "gone"]
        /\ proc[p] = "running" \/ (proc[p] = "dumping" /\ (limit = 0 \/ pc[p] = "exited"))
    BY <1>3 DEF CrashMissed, GoesAway
  <2>2. TypeOK' /\ LimitInv' /\ LimitedHandlersAreAlone'
    BY <1>1, <2>1 DEF TypeOK, LimitInv, LimitedHandlersAreAlone, Handlers
  <2>3. ASSUME NEW q \in Processes PROVE HandlerInv(q)'
    <3>1. CASE q = p
      <4>1. limited[p] => limit # 0
        BY <1>1 DEF LimitInv
      <4>2. limited[p] => pc[p] # "none"
        BY <1>1 DEF HandlerInv
      <4>3. limited[p] => pc[p] = "exited"
        BY <1>1, <2>1, <4>1, <4>2 DEF LimitInv
      <4> QED
        BY <1>1, <2>1, <3>1, <4>3 DEF HandlerInv, TypeOK
    <3>2. CASE q # p
      BY <1>1, <2>1, <3>2 DEF HandlerInv, TypeOK
    <3> QED
      BY <3>1, <3>2
  <2> QED
    BY <2>2, <2>3 DEF CrashInv
<1> QED
  BY <1>2, <1>3

(* What the steps of one handler have in common. *)
OwnStep(p) ==
  /\ UNCHANGED << pattern, limit, inst, installs, proc, limited >>
  /\ faults' = faults \/ faults' = faults + 1
  /\ pc[p] \notin {"none", "exited"} /\ pc'[p] # "none"
  /\ \A q \in Processes \ {p} :
       /\ pc'[q] = pc[q] /\ name'[q] = name[q] /\ fd'[q] = fd[q]
       /\ attached'[q] = attached[q] /\ journal'[q] = journal[q]
       /\ sections'[q] = sections[q]

(* A handler's step cannot break the invariant for the other handlers. *)
LEMMA OwnStepKeeps ==
  ASSUME CrashInv, TypeOK', NEW p \in Processes, OwnStep(p), HandlerInv(p)'
  PROVE  CrashInv'
<1>1. TypeOK /\ LimitInv /\ LimitedHandlersAreAlone
      /\ \A q \in Processes : HandlerInv(q)
  BY DEF CrashInv
<1>2. LimitInv'
  BY <1>1 DEF LimitInv, OwnStep
<1>3. faults' = 0 => faults = 0
  <2>1. faults \in Nat /\ (faults' = faults \/ faults' = faults + 1)
    BY <1>1 DEF OwnStep, TypeOK
  <2> QED
    BY <2>1, Counts
<1>4. ASSUME NEW q \in Processes, q # p PROVE HandlerInv(q)'
  BY ZenonT(30), <1>1, <1>3, <1>4 DEF HandlerInv, OwnStep
<1>5. Handlers' \subseteq Handlers
  BY DEF OwnStep, Handlers
<1>6. LimitedHandlersAreAlone'
  BY <1>1, <1>5 DEF LimitedHandlersAreAlone, OwnStep
<1> QED
  BY <1>2, <1>4, <1>6 DEF CrashInv

(* A step of a handler. *)
LEMMA HandlerKeeps ==
  ASSUME CrashInv, NEW p \in Processes, HandlerStep(p)
  PROVE  CrashInv'
<1> USE DEF kernelVars
<1>1. TypeOK /\ HandlerInv(p)
  BY DEF CrashInv
<1>2. SUFFICES TypeOK' /\ OwnStep(p) /\ HandlerInv(p)'
  BY OwnStepKeeps
<1> USE DEF HandlerInv, BeyondName, BeyondStatus, BeyondJournal, BeyondMaps,
            BeyondAttach, BeyondSignal, BeyondRegisters,
     BeyondCode, BeyondStack, BeyondLog
<1>3. CASE OpenReport(p)
  BY <1>1, <1>3 DEF OpenReport, TypeOK, OwnStep
<1>4. CASE OpenCmdline(p)
  BY <1>1, <1>4 DEF OpenCmdline, OpenProc, TypeOK, OwnStep
<1>5. CASE ReadCmdline(p)
  BY <1>1, <1>5 DEF ReadCmdline, TypeOK, OwnStep, Names, Sections
<1>6. CASE OpenStatus(p)
  BY <1>1, <1>6 DEF OpenStatus, OpenProc, TypeOK, OwnStep
<1>7. CASE ReadStatus(p)
  <2>1. /\ UNCHANGED << pattern, limit, inst, installs, proc, limited, name, fd,
                        attached, journal, faults >>
        /\ pc[p] = "read status"
        /\ pc' = [pc EXCEPT ![p] = "journal"] \/ pc' = [pc EXCEPT ![p] = "exited"]
        /\ sections' = sections \/ sections' = [sections EXCEPT ![p] = @ \cup {"status"}]
    BY <1>1, <1>7 DEF ReadStatus, TypeOK
  <2>2. limited[p] => /\ pc' = [pc EXCEPT ![p] = "journal"]
                      /\ sections' = [sections EXCEPT ![p] = @ \cup {"status"}]
    BY <1>1, <1>7 DEF ReadStatus, TypeOK
  <2>3. TypeOK'
    <3>1. pc' \in [Processes -> {"none", "report", "cmdline", "read cmdline", "status",
                     "read status", "journal", "maps", "attach", "signal", "registers",
                     "code", "stack", "hung", "kernel log", "detach", "close", "exited"}]
      BY <1>1, <2>1 DEF TypeOK
    <3>2. sections' \in [Processes -> SUBSET Sections]
      <4>1. sections \in [Processes -> SUBSET Sections]
        BY <1>1 DEF TypeOK
      <4>2. sections[p] \cup {"status"} \in SUBSET Sections
        BY <4>1 DEF Sections
      <4> QED
        BY <2>1, <4>1, <4>2
    <3> QED
      BY <1>1, <2>1, <3>1, <3>2 DEF TypeOK
  <2>4. OwnStep(p)
    BY <1>1, <2>1 DEF TypeOK, OwnStep
  <2>5. HandlerInv(p)'
    <3> SUFFICES ASSUME limited'[p] PROVE HandlerInv(p)'
      OBVIOUS
    <3>1. pc'[p] = "journal" /\ sections'[p] = sections[p] \cup {"status"}
      BY <1>1, <2>1, <2>2 DEF TypeOK
    <3> QED
      BY <1>1, <2>1, <3>1
  <2> QED
    BY <2>3, <2>4, <2>5
<1>8. CASE RecordCrash(p)
  <2>1. /\ UNCHANGED << pattern, limit, inst, installs, proc, limited, name, fd,
                        attached, sections >>
        /\ pc[p] = "journal"
    BY <1>8 DEF RecordCrash
  <2>2. PICK j \in Entries, s \in {"maps", "exited"} :
          /\ journal' = [journal EXCEPT ![p] = j] /\ pc' = [pc EXCEPT ![p] = s]
          /\ j \in {name[p], "lost", "died"} /\ (j # "died" => s = "maps")
          /\ faults' = faults \/ faults' = faults + 1
    <3>1. name[p] \in Names /\ Names \subseteq Entries /\ {"lost", "died"} \subseteq Entries
          /\ name[p] # "died"
      BY <1>1 DEF TypeOK, Names, Entries
    <3>2. CASE journal' = [journal EXCEPT ![p] = name[p]]
               /\ pc' = [pc EXCEPT ![p] = "maps"] /\ faults' = faults
      BY <3>1, <3>2
    <3>3. CASE journal' = [journal EXCEPT ![p] = "lost"]
               /\ pc' = [pc EXCEPT ![p] = "maps"] /\ faults' = faults + 1
      BY <3>1, <3>3
    <3>4. CASE journal' = [journal EXCEPT ![p] = "died"]
               /\ pc' = [pc EXCEPT ![p] = "exited"] /\ faults' = faults
      BY <3>1, <3>4
    <3> QED
      BY <1>8, <3>2, <3>3, <3>4 DEF RecordCrash, Fault
  <2>3. faults' \in Nat /\ (faults' = 0 => faults = 0)
    <3>1. faults \in Nat
      BY <1>1 DEF TypeOK
    <3> QED
      BY <2>2, <3>1, Counts
  <2>4. /\ pc' \in [Processes -> {"none", "report", "cmdline", "read cmdline", "status",
                      "read status", "journal", "maps", "attach", "signal", "registers",
                      "code", "stack", "hung", "kernel log", "detach", "close", "exited"}]
        /\ journal' \in [Processes -> Entries]
    BY <1>1, <2>2 DEF TypeOK
  <2>5. TypeOK'
    BY <1>1, <2>1, <2>3, <2>4 DEF TypeOK
  <2>6. /\ journal'[p] = j /\ pc'[p] = s
        /\ \A q \in Processes \ {p} : pc'[q] = pc[q] /\ journal'[q] = journal[q]
    BY <1>1, <2>2 DEF TypeOK
  <2>7. OwnStep(p)
    BY <2>1, <2>2, <2>6 DEF OwnStep
  <2>8. HandlerInv(p)'
    BY <1>1, <2>1, <2>2, <2>6
  <2> QED
    BY <2>5, <2>7, <2>8
<1>9. CASE Maps(p)
  BY <1>1, <1>9 DEF Maps, TypeOK, OwnStep, Sections
<1>10. CASE Attach(p)
  <2>1. /\ UNCHANGED << pattern, limit, inst, installs, proc, limited, name, fd,
                        journal, sections >>
        /\ pc[p] = "attach" /\ pc' = [pc EXCEPT ![p] = "signal"]
    BY <1>10 DEF Attach
  <2>2. \/ attached' = [attached EXCEPT ![p] = proc[p] # "gone"] /\ faults' = faults
        \/ attached' = attached /\ faults' = faults + 1
    BY <1>10 DEF Attach, Fault
  <2>3. TypeOK'
    <3>1. attached' \in [Processes -> BOOLEAN]
      BY <1>1, <2>2 DEF TypeOK
    <3>2. faults' \in Nat
      <4>1. faults \in Nat
        BY <1>1 DEF TypeOK
      <4> QED
        BY <2>2, <4>1
    <3>3. pc' \in [Processes -> {"none", "report", "cmdline", "read cmdline", "status",
                     "read status", "journal", "maps", "attach", "signal", "registers",
                     "code", "stack", "hung", "kernel log", "detach", "close", "exited"}]
      BY <1>1, <2>1 DEF TypeOK
    <3> QED
      BY <1>1, <2>1, <3>1, <3>2, <3>3 DEF TypeOK
  <2>4. OwnStep(p)
    BY <1>1, <2>1, <2>2 DEF TypeOK, OwnStep
  <2>5. HandlerInv(p)'
    <3>1. pc'[p] = "signal"
      BY <1>1, <2>1 DEF TypeOK
    <3>2. limited[p] /\ faults' = 0 => attached'[p]
      <4>1. limited[p] => proc[p] # "gone"
        BY <1>1, <2>1
      <4>2. faults \in Nat /\ attached \in [Processes -> BOOLEAN]
        BY <1>1 DEF TypeOK
      <4>3. CASE attached' = [attached EXCEPT ![p] = proc[p] # "gone"]
        BY <4>1, <4>2, <4>3
      <4>4. CASE faults' = faults + 1
        BY <4>2, <4>4
      <4> QED
        BY <2>2, <4>3, <4>4
    <3> QED
      BY <1>1, <2>1, <3>1, <3>2
  <2> QED
    BY <2>3, <2>4, <2>5
<1>11. CASE DumpFaultAddr(p)
  BY <1>1, <1>11 DEF DumpFaultAddr, DumpSection, TypeOK, OwnStep, Sections
<1>12. CASE Detach(p)
  BY <1>1, <1>12 DEF Detach, TypeOK, OwnStep
<1>13. CASE Exit(p)
  BY <1>1, <1>13 DEF Exit, TypeOK, OwnStep
<1>14. CASE DumpRegisters(p)
  BY <1>1, <1>14 DEF DumpRegisters, DumpSection, TypeOK, OwnStep, Sections
<1>15. CASE DumpPcCode(p)
  BY <1>1, <1>15 DEF DumpPcCode, DumpSection, TypeOK, OwnStep, Sections
<1>16. CASE DumpCrashReport(p)
  <2>1. CASE DumpSection(p, "stack", "kernel log")
    BY <1>1, <2>1 DEF DumpSection, TypeOK, OwnStep, Sections
  <2>2. CASE /\ pc[p] = "stack" /\ pc' = [pc EXCEPT ![p] = "hung"]
             /\ UNCHANGED << pattern, limit, inst, installs, proc, limited, name, fd,
                             attached, journal, sections, faults >>
    BY <1>1, <2>2 DEF TypeOK, OwnStep
  <2> QED
    BY <1>16, <2>1, <2>2 DEF DumpCrashReport
<1>17. CASE DumpKlogTail(p)
  <2>1. /\ UNCHANGED << pattern, limit, inst, installs, proc, limited, name, fd,
                        attached, journal >>
        /\ pc[p] = "kernel log"
        /\ pc' = [pc EXCEPT ![p] = "detach"]
    BY <1>17 DEF DumpKlogTail
  <2>2. \/ /\ sections' = [sections EXCEPT ![p] = @ \cup {"kernel log"}]
           /\ faults' = faults
        \/ /\ sections' = sections
           /\ faults' = faults + 1
    BY <1>17 DEF DumpKlogTail, Fault
  <2>3. faults' \in Nat /\ (faults' = 0 => faults = 0)
    <3>1. faults \in Nat
      BY <1>1 DEF TypeOK
    <3> QED
      BY <2>2, <3>1, Counts
  <2>4. sections' \in [Processes -> SUBSET Sections]
    <3>1. sections \in [Processes -> SUBSET Sections]
      BY <1>1 DEF TypeOK
    <3>2. sections[p] \cup {"kernel log"} \in SUBSET Sections
      BY <3>1 DEF Sections
    <3> QED
      BY <2>2, <3>1, <3>2
  <2>5. pc' \in [Processes -> {"none", "report", "cmdline", "read cmdline", "status",
                   "read status", "journal", "maps", "attach", "signal", "registers",
                   "code", "stack", "hung", "kernel log", "detach", "close", "exited"}]
    BY <1>1, <2>1 DEF TypeOK
  <2>6. TypeOK'
    BY <1>1, <2>1, <2>3, <2>4, <2>5 DEF TypeOK
  <2>7. OwnStep(p)
    <3>1. \A q \in Processes \ {p} : pc'[q] = pc[q]
      BY <1>1, <2>1 DEF TypeOK
    <3>2. \A q \in Processes \ {p} : sections'[q] = sections[q]
      BY <1>1, <2>2 DEF TypeOK
    <3>3. pc'[p] = "detach"
      BY <1>1, <2>1 DEF TypeOK
    <3> QED
      BY <2>1, <2>2, <3>1, <3>2, <3>3 DEF OwnStep
  <2>8. HandlerInv(p)'
    <3>1. pc'[p] = "detach"
      BY <1>1, <2>1 DEF TypeOK
    <3>2. sections[p] \subseteq sections'[p]
      BY <1>1, <2>2 DEF TypeOK
    <3>3. faults' = 0 => "kernel log" \in sections'[p]
      <4>1. faults \in Nat /\ sections \in [Processes -> SUBSET Sections]
        BY <1>1 DEF TypeOK
      <4>2. CASE faults' = faults + 1
        <5>1. faults' # 0
          BY <4>1, <4>2
        <5> QED
          BY <5>1
      <4>3. CASE sections' = [sections EXCEPT ![p] = @ \cup {"kernel log"}]
        BY <4>1, <4>3
      <4>4. \/ sections' = [sections EXCEPT ![p] = @ \cup {"kernel log"}]
            \/ faults' = faults + 1
        BY <2>2
      <4> QED
        BY <4>2, <4>3, <4>4
    <3> QED
      BY <1>1, <2>1, <2>3, <3>1, <3>2, <3>3
  <2> QED
    BY <2>6, <2>7, <2>8
<1> QED
  BY <1>3, <1>4, <1>5, <1>6, <1>7, <1>8, <1>9, <1>10, <1>11, <1>12, <1>13, <1>14, <1>15,
     <1>16, <1>17 DEF HandlerStep

(* Every step keeps the invariant. *)
LEMMA CrashInvStep == CrashInv /\ [Next]_vars => CrashInv'
<1> SUFFICES ASSUME CrashInv, [Next]_vars PROVE CrashInv'
  OBVIOUS
<1>1. CASE Next
  BY <1>1, InstallKeeps, KernelKeeps, HandlerKeeps DEF Next
<1>2. CASE UNCHANGED vars
  BY <1>2 DEF vars, CrashInv, TypeOK, LimitInv, HandlerInv, LimitedHandlersAreAlone,
     Handlers
<1> QED
  BY <1>1, <1>2

----------------------------------------------------------------------------
(* The invariant, always. *)
LEMMA CrashInvHolds == Spec => []CrashInv
BY CrashInvInit, CrashInvStep, PTL DEF Spec

(* Every variable has its type, whatever is installed and fails. *)
THEOREM CrashTypes == Spec => []TypeOK
<1>1. CrashInv => TypeOK
  BY DEF CrashInv
<1> QED
  BY <1>1, CrashInvHolds, PTL

(* However often the handler is installed while processes crash, two       *)
(* handlers that were started under the limit never run at once: the       *)
(* installer only ever sets core_pipe_limit to 1.                          *)
THEOREM HandlersRunOneByOne == Spec => []LimitedHandlersAreAlone
<1>1. CrashInv => LimitedHandlersAreAlone
  BY DEF CrashInv
<1> QED
  BY <1>1, CrashInvHolds, PTL

(* A handler started under the limit that comes to its end has entered its *)
(* crash in the journal under the name of the process, though it may have  *)
(* got no report file and could not attach to the process, unless it was   *)
(* the journal's own file that could not be written, or the handler died   *)
(* of what it read from it.                                                *)
THEOREM LimitKeepsNames == Spec => []CrashesAreRecorded
<1>1. CrashInv => CrashesAreRecorded
  BY DEF CrashInv, HandlerInv, CrashesAreRecorded, BeyondJournal, BeyondMaps,
     BeyondAttach, BeyondSignal, BeyondRegisters,
     BeyondCode, BeyondStack, BeyondLog
<1> QED
  BY <1>1, CrashInvHolds, PTL

(* And if nothing failed, its report has every section. *)
THEOREM LimitKeepsReportsWhole == Spec => []ReportsAreComplete
<1>1. CrashInv => ReportsAreComplete
  <2> SUFFICES ASSUME CrashInv, NEW p \in Processes,
                      limited[p], pc[p] = "exited", faults = 0, journal[p] # "died"
               PROVE  sections[p] = Sections
    BY DEF ReportsAreComplete
  <2>1. {"cmdline", "status", "maps", "signal", "registers", "code", "stack", "kernel log"}
          \subseteq sections[p]
    BY DEF CrashInv, HandlerInv, BeyondName, BeyondStatus, BeyondJournal, BeyondMaps,
       BeyondAttach, BeyondSignal, BeyondRegisters,
     BeyondCode, BeyondStack, BeyondLog
  <2>2. sections[p] \subseteq Sections
    BY DEF CrashInv, TypeOK
  <2> QED
    BY <2>1, <2>2 DEF Sections
<1> QED
  BY <1>1, CrashInvHolds, PTL
=============================================================================
