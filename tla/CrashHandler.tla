---------------------------- MODULE CrashHandler ----------------------------
(***************************************************************************)
(* The life of the crash handler (main, generate_crash_report and          *)
(* dump_task_info in crash_handler.c): its installation, the kernel that   *)
(* starts it for a process that crashes, and what it gathers about that    *)
(* process while the process is, or is not, kept from going away.  How the *)
(* reports and the journal are kept is in ReportSlots and CrashJournal.    *)
(***************************************************************************)
EXTENDS Naturals, FiniteSets

CONSTANTS
  Processes,    \* the processes that may crash; each crashes at most once
  MaxFaults,    \* bound: system calls of the installation and the handler that fail
  MaxInstalls,  \* bound: installations
  Installed     \* is the handler installed at the start

ASSUME SystemAssumption ==
  /\ IsFiniteSet(Processes)
  /\ {MaxFaults, MaxInstalls} \subseteq Nat
  /\ Installed \in BOOLEAN

VARIABLES
  pattern,    \* does core_pattern name the handler
  limit,      \* core_pipe_limit
  inst,       \* what the installer does next, or how it ended
  installs,   \* installations so far
  proc,       \* the processes: running, dumping core, or gone
  limited,    \* was there a limit when the process's handler was started
  pc,         \* what the handler of each process does next
  name,       \* its cmdline: "cmdline", "UNKNOWN" or "garbage"
  fd,         \* the file of /proc it has open
  attached,   \* attach_status = 0
  journal,    \* the name each crash was entered in the journal with, or what else came of it
  sections,   \* the sections of each report that hold their data
  faults      \* failures so far

kernelVars  == << pattern, limit, inst, installs >>
handlerVars == << pc, name, fd, attached, journal, sections >>
vars == << pattern, limit, inst, installs, proc, limited, pc, name, fd, attached,
           journal, sections, faults >>

Handlers == {p \in Processes : pc[p] \notin {"none", "exited"}}
Names    == {"none", "cmdline", "UNKNOWN", "garbage"}
Entries  == Names \cup {"lost", "died"}
Sections == {"cmdline", "status", "maps", "signal", "registers", "code", "stack",
             "kernel log"}

Init ==
  /\ pattern = Installed
  /\ limit = IF Installed THEN 1 ELSE 0
  /\ inst = "idle"
  /\ installs = 0
  /\ proc = [p \in Processes |-> "running"]
  /\ limited = [p \in Processes |-> FALSE]
  /\ pc = [p \in Processes |-> "none"]
  /\ name = [p \in Processes |-> "none"]
  /\ fd = [p \in Processes |-> FALSE]
  /\ attached = [p \in Processes |-> FALSE]
  /\ journal = [p \in Processes |-> "none"]
  /\ sections = [p \in Processes |-> {}]
  /\ faults = 0

Fault == faults < MaxFaults /\ faults' = faults + 1

----------------------------------------------------------------------------
(* main with --install.                                                    *)
StartInstall ==
  /\ installs < MaxInstalls
  /\ inst \notin {"pattern", "limit"}
  /\ installs' = installs + 1
  /\ inst' = "pattern"
  /\ UNCHANGED << pattern, limit, proc, limited, handlerVars, faults >>

SetPattern ==
  /\ inst = "pattern"
  /\ pattern' = TRUE
  /\ inst' = "limit"
  /\ UNCHANGED << limit, installs, proc, limited, handlerVars, faults >>

(* realpath() of argv[0] fails: a message, and the installation goes on. *)
NoRealPath ==
  /\ inst = "pattern"
  /\ Fault
  /\ inst' = "limit"
  /\ UNCHANGED << pattern, limit, installs, proc, limited, handlerVars >>

(* Mutant of SetLimit: two handlers at a time. *)
SetLimitTwo ==
  /\ inst = "limit"
  /\ limit' = 2
  /\ inst' = "done"
  /\ UNCHANGED << pattern, installs, proc, limited, handlerVars, faults >>

SetLimit ==
  /\ inst = "limit"
  /\ limit' = 1
  /\ inst' = "done"
  /\ UNCHANGED << pattern, installs, proc, limited, handlerVars, faults >>

(* One of the settings cannot be opened: exit(1). *)
InstallFails ==
  /\ inst \in {"pattern", "limit"}
  /\ Fault
  /\ inst' = "failed"
  /\ UNCHANGED << pattern, limit, installs, proc, limited, handlerVars >>

----------------------------------------------------------------------------
(* The kernel dumps the core of a process into a handler, unless there are *)
(* as many handlers as the limit allows.                                   *)
Crash(p) ==
  /\ proc[p] = "running"
  /\ pattern
  /\ limit = 0 \/ Cardinality(Handlers) < limit
  /\ proc' = [proc EXCEPT ![p] = "dumping"]
  /\ limited' = [limited EXCEPT ![p] = limit # 0]
  /\ pc' = [pc EXCEPT ![p] = "report"]
  /\ UNCHANGED << kernelVars, name, fd, attached, journal, sections, faults >>

CrashMissed(p) ==
  /\ proc[p] = "running"
  /\ pattern
  /\ limit # 0 /\ Cardinality(Handlers) >= limit
  /\ proc' = [proc EXCEPT ![p] = "gone"]
  /\ UNCHANGED << kernelVars, limited, handlerVars, faults >>

(* The process goes away: at any time without a limit, and only after its  *)
(* handler, and not while it is being traced, with one.                    *)
GoesAway(p) ==
  /\ proc[p] = "dumping"
  /\ \/ limit = 0
     \/ pc[p] = "exited"
  /\ ~attached[p]
  /\ proc' = [proc EXCEPT ![p] = "gone"]
  /\ UNCHANGED << kernelVars, limited, handlerVars, faults >>

----------------------------------------------------------------------------
(* The handler of p.  Whether it gets a report file or not, it goes on.    *)
OpenReport(p) ==
  /\ pc[p] = "report"
  /\ pc' = [pc EXCEPT ![p] = "cmdline"]
  /\ UNCHANGED << kernelVars, proc, limited, name, fd, attached, journal, sections,
                  faults >>

(* A file of /proc can be opened while the process is there. *)
OpenProc(p, at, to) ==
  /\ pc[p] = at
  /\ fd' = [fd EXCEPT ![p] = proc[p] # "gone"]
  /\ pc' = [pc EXCEPT ![p] = to]
  /\ UNCHANGED << kernelVars, proc, limited, attached, journal, faults >>

OpenCmdline(p) ==
  /\ OpenProc(p, "cmdline", "read cmdline")
  /\ UNCHANGED << name, sections >>

(* Mutant of ReadCmdline: the file is closed before it is read. *)
ReadCmdlineClosed(p) ==
  /\ pc[p] = "read cmdline"
  /\ name' = [name EXCEPT ![p] = IF fd[p] THEN "garbage" ELSE "UNKNOWN"]
  /\ pc' = [pc EXCEPT ![p] = "status"]
  /\ UNCHANGED << kernelVars, proc, limited, fd, attached, journal, sections, faults >>

(* What cmdline says, "UNKNOWN" without it, and what the buffer happens to *)
(* hold when nothing is read.                                              *)
ReadCmdline(p) ==
  /\ pc[p] = "read cmdline"
  /\ LET got == fd[p] /\ proc[p] # "gone"
     IN  /\ name' = [name EXCEPT ![p] = IF got THEN "cmdline"
                                        ELSE IF fd[p] THEN "garbage" ELSE "UNKNOWN"]
         /\ sections' = [sections EXCEPT ![p] = IF got THEN @ \cup {"cmdline"} ELSE @]
  /\ pc' = [pc EXCEPT ![p] = "status"]
  /\ UNCHANGED << kernelVars, proc, limited, fd, attached, journal, faults >>

OpenStatus(p) ==
  /\ OpenProc(p, "status", "read status")
  /\ UNCHANGED << name, sections >>

(* The end of the first line is looked for in what was read; in what was   *)
(* in the buffer before it may not be there, and then the handler crashes. *)
ReadStatus(p) ==
  /\ pc[p] = "read status"
  /\ \/ /\ ~fd[p] \/ proc[p] # "gone"
        /\ sections' = [sections EXCEPT ![p] = IF fd[p] THEN @ \cup {"status"} ELSE @]
        /\ pc' = [pc EXCEPT ![p] = "journal"]
     \/ /\ fd[p] /\ proc[p] = "gone"
        /\ pc' \in {[pc EXCEPT ![p] = s] : s \in {"journal", "exited"}}
        /\ UNCHANGED sections
  /\ UNCHANGED << kernelVars, proc, limited, name, fd, attached, journal, faults >>

(* record_crash_to_journal: CrashJournal says what becomes of the file.    *)
(* The crash is lost if the file cannot be opened or written, and the      *)
(* handler may crash itself when it reads records past the last line.      *)
RecordCrash(p) ==
  /\ pc[p] = "journal"
  /\ \/ /\ journal' = [journal EXCEPT ![p] = name[p]]
        /\ pc' = [pc EXCEPT ![p] = "maps"]
        /\ UNCHANGED faults
     \/ /\ Fault
        /\ journal' = [journal EXCEPT ![p] = "lost"]
        /\ pc' = [pc EXCEPT ![p] = "maps"]
     \/ /\ journal' = [journal EXCEPT ![p] = "died"]
        /\ pc' = [pc EXCEPT ![p] = "exited"]
        /\ UNCHANGED faults
  /\ UNCHANGED << kernelVars, proc, limited, name, fd, attached, sections >>

Maps(p) ==
  /\ pc[p] = "maps"
  /\ sections' = [sections EXCEPT ![p] = IF proc[p] # "gone" THEN @ \cup {"maps"} ELSE @]
  /\ pc' = [pc EXCEPT ![p] = "attach"]
  /\ UNCHANGED << kernelVars, proc, limited, name, fd, attached, journal, faults >>

(* Mutant of Attach: the process is let go before the dump. *)
AttachBriefly(p) ==
  /\ pc[p] = "attach"
  /\ attached' = [attached EXCEPT ![p] = FALSE]
  /\ pc' = [pc EXCEPT ![p] = "signal"]
  /\ UNCHANGED << kernelVars, proc, limited, name, fd, journal, sections, faults >>

(* Mutant of Attach: it is tried again until the process is attached. *)
AttachAgain(p) ==
  /\ pc[p] = "attach"
  /\ proc[p] # "gone"
  /\ \/ /\ attached' = [attached EXCEPT ![p] = TRUE]
        /\ pc' = [pc EXCEPT ![p] = "signal"]
        /\ UNCHANGED faults
     \/ Fault /\ UNCHANGED << attached, pc >>
  /\ UNCHANGED << kernelVars, proc, limited, name, fd, journal, sections >>

(* PTRACE_ATTACH may fail; the handler goes on all the same. *)
Attach(p) ==
  /\ pc[p] = "attach"
  /\ \/ /\ attached' = [attached EXCEPT ![p] = proc[p] # "gone"]
        /\ UNCHANGED faults
     \/ Fault /\ UNCHANGED attached
  /\ pc' = [pc EXCEPT ![p] = "signal"]
  /\ UNCHANGED << kernelVars, proc, limited, name, fd, journal, sections >>

(* What is read with ptrace() is read of a process that is attached. *)
DumpSection(p, section, to) ==
  /\ pc[p] = section
  /\ sections' = [sections EXCEPT ![p] = IF attached[p] THEN @ \cup {section} ELSE @]
  /\ pc' = [pc EXCEPT ![p] = to]
  /\ UNCHANGED << kernelVars, proc, limited, name, fd, attached, journal, faults >>

DumpFaultAddr(p) == DumpSection(p, "signal", "registers")
DumpRegisters(p) == DumpSection(p, "registers", "code")
DumpPcCode(p)    == DumpSection(p, "code", "stack")

(* The call stack and the stack.  The dump of a process that is attached   *)
(* may not end: UnwindFrame and CallStack say when.                        *)
DumpCrashReport(p) ==
  \/ DumpSection(p, "stack", "kernel log")
  \/ /\ pc[p] = "stack"
     /\ attached[p]
     /\ pc' = [pc EXCEPT ![p] = "hung"]
     /\ UNCHANGED << kernelVars, proc, limited, name, fd, attached, journal, sections,
                     faults >>

(* The end of the kernel's log, unless klogctl() or malloc() fails. *)
DumpKlogTail(p) ==
  /\ pc[p] = "kernel log"
  /\ \/ /\ sections' = [sections EXCEPT ![p] = @ \cup {"kernel log"}]
        /\ UNCHANGED faults
     \/ Fault /\ UNCHANGED sections
  /\ pc' = [pc EXCEPT ![p] = "detach"]
  /\ UNCHANGED << kernelVars, proc, limited, name, fd, attached, journal >>

Detach(p) ==
  /\ pc[p] = "detach"
  /\ attached' = [attached EXCEPT ![p] = FALSE]
  /\ pc' = [pc EXCEPT ![p] = "close"]
  /\ UNCHANGED << kernelVars, proc, limited, name, fd, journal, sections, faults >>

(* close() and exit(). *)
Exit(p) ==
  /\ pc[p] = "close"
  /\ pc' = [pc EXCEPT ![p] = "exited"]
  /\ UNCHANGED << kernelVars, proc, limited, name, fd, attached, journal, sections,
                  faults >>

Install == StartInstall \/ SetPattern \/ NoRealPath \/ SetLimit \/ InstallFails

HandlerStep(p) ==
  \/ OpenReport(p) \/ OpenCmdline(p) \/ ReadCmdline(p) \/ OpenStatus(p)
  \/ ReadStatus(p) \/ RecordCrash(p) \/ Maps(p) \/ Attach(p)
  \/ DumpFaultAddr(p) \/ DumpRegisters(p) \/ DumpPcCode(p) \/ DumpCrashReport(p)
  \/ DumpKlogTail(p) \/ Detach(p) \/ Exit(p)

Next ==
  \/ Install
  \/ \E p \in Processes : Crash(p) \/ CrashMissed(p) \/ GoesAway(p) \/ HandlerStep(p)

(* The scheduler runs every handler, and the kernel ends every dump. *)
Spec ==
  /\ Init /\ [][Next]_vars
  /\ \A p \in Processes : WF_vars(HandlerStep(p)) /\ WF_vars(GoesAway(p))

----------------------------------------------------------------------------
(***************************************************************************)
(* Properties.                                                             *)
(***************************************************************************)

(* Every variable has its type. *)
TypeOK ==
  /\ pattern \in BOOLEAN
  /\ limit \in Nat
  /\ inst \in {"idle", "pattern", "limit", "done", "failed"}
  /\ installs \in Nat
  /\ proc \in [Processes -> {"running", "dumping", "gone"}]
  /\ limited \in [Processes -> BOOLEAN]
  /\ pc \in [Processes -> {"none", "report", "cmdline", "read cmdline", "status",
               "read status", "journal", "maps", "attach", "signal", "registers",
               "code", "stack", "hung", "kernel log", "detach", "close", "exited"}]
  /\ name \in [Processes -> Names]
  /\ fd \in [Processes -> BOOLEAN]
  /\ attached \in [Processes -> BOOLEAN]
  /\ journal \in [Processes -> Entries]
  /\ sections \in [Processes -> SUBSET Sections]
  /\ faults \in Nat

(* Once the limit is in force, a handler that comes to its end has entered *)
(* its crash in the journal under the process's name, though the process   *)
(* lives only as long as the kernel waits for the handler, and it may have *)
(* got no report file and have failed to attach.  Only what fails in the   *)
(* journal itself can lose it.                                             *)
CrashesAreRecorded ==
  \A p \in Processes :
    limited[p] /\ pc[p] = "exited" => journal[p] \in {"cmdline", "lost", "died"}

(* And if nothing failed, its report has every section.                    *)
ReportsAreComplete ==
  \A p \in Processes :
    limited[p] /\ pc[p] = "exited" /\ faults = 0 /\ journal[p] # "died" =>
      sections[p] = Sections

(* Two handlers that were started under the limit never run at once.       *)
LimitedHandlersAreAlone ==
  \A p, q \in Handlers : limited[p] /\ limited[q] => p = q

(* Neither a crashed process nor its handler stays behind, whatever fails  *)
(* and in whatever order they end: the handler lets go of the process, and *)
(* comes to its end if its dump does.                                      *)
ProcessesGoAway ==
  \A p \in Processes :
    proc[p] = "dumping" ~> \/ proc[p] = "gone" /\ pc[p] = "exited"
                           \/ pc[p] = "hung"
=============================================================================
