----------------------------- MODULE ReportSlots -----------------------------
(***************************************************************************)
(* find_and_open_crash_report and the report file it returns               *)
(* (crash_handler.c).  The reports are the files crash_report_00 onwards   *)
(* of one directory; the handlers share nothing else, and each looks at    *)
(* one file at a time: stat(), then open(O_CREAT|O_EXCL) where stat()      *)
(* found none.                                                             *)
(***************************************************************************)
EXTENDS Integers, FiniteSets

CONSTANTS
  MaxReports,   \* MAX_CRASH_REPORTS
  Handlers,     \* the processes that may be crash handlers at one time
  PipeLimit,    \* /proc/sys/kernel/core_pipe_limit; 0 means no limit
  MaxCrashes,   \* bound: crashes in a behaviour
  MaxTime,      \* bound: the clock
  MaxFaults     \* bound: failing system calls and killed handlers

ASSUME ReportAssumption == /\ MaxReports \in Nat \ {0}
                           /\ IsFiniteSet(Handlers)
                           /\ PipeLimit \in Nat
ASSUME LimitAssumption == {MaxCrashes, MaxTime, MaxFaults} \subseteq Nat

Slots    == 0..(MaxReports - 1)
Overflow == MaxReports          \* the index the path is formatted with after the loop
Paths    == Slots \cup {Overflow}
NoFile   == -1                  \* a failed open; also: no crash, no report

VARIABLES
  dir,       \* does CRASH_REPORT_DIR exist
  creator,   \* the crash whose handler created or last truncated each file
  content,   \* the crashes whose reports were written to each file
  mtime,     \* the files' st_mtime
  pc,        \* what each handler does next
  crash,     \* the crash each handler was started for
  i,         \* the loop variable
  oldest, mt, tsNum,   \* the locals oldest and mtime, the static ts_num
  fd,        \* report_fd: the path it is open on
  now,       \* the time of day
  crashes,   \* crashes so far
  done,      \* history: crashes whose handler came to its end
  faults     \* failures so far

fileVars == << dir, creator, content, mtime >>
locals   == << i, oldest, mt, tsNum >>
vars == << dir, creator, content, mtime, pc, crash, i, oldest, mt, tsNum, fd,
           now, crashes, done, faults >>

Steps  == {"idle", "mkdir", "stat", "create", "overflow", "report", "close"}
Active == {h \in Handlers : pc[h] # "idle"}
Exists(p) == creator[p] # NoFile

Init ==
  /\ dir = FALSE
  /\ creator = [p \in Paths |-> NoFile]
  /\ content = [p \in Paths |-> {}]
  /\ mtime = [p \in Paths |-> 0]
  /\ pc = [h \in Handlers |-> "idle"]
  /\ crash = [h \in Handlers |-> NoFile]
  /\ i = [h \in Handlers |-> 0]
  /\ oldest = [h \in Handlers |-> 0]
  /\ mt = [h \in Handlers |-> -1]
  /\ tsNum = [h \in Handlers |-> 0]
  /\ fd = [h \in Handlers |-> NoFile]
  /\ now = 0
  /\ crashes = 0
  /\ done = {}
  /\ faults = 0

BelowLimit == PipeLimit = 0 \/ Cardinality(Active) < PipeLimit

Fault == faults < MaxFaults /\ faults' = faults + 1

----------------------------------------------------------------------------
(* The handler of a new process; time_t mtime = ULONG_MAX makes mtime -1.  *)
StartHandler(h) ==
  /\ crashes < MaxCrashes
  /\ BelowLimit
  /\ pc[h] = "idle"
  /\ crashes' = crashes + 1
  /\ crash' = [crash EXCEPT ![h] = crashes + 1]
  /\ pc' = [pc EXCEPT ![h] = "mkdir"]
  /\ i' = [i EXCEPT ![h] = 0]
  /\ oldest' = [oldest EXCEPT ![h] = 0]
  /\ mt' = [mt EXCEPT ![h] = -1]
  /\ tsNum' = [tsNum EXCEPT ![h] = 0]
  /\ fd' = [fd EXCEPT ![h] = NoFile]
  /\ UNCHANGED << fileVars, now, done, faults >>

(* mkdir(); that it exists or cannot be made goes unnoticed. *)
MakeDir(h) ==
  /\ pc[h] = "mkdir"
  /\ \/ dir' = TRUE /\ UNCHANGED faults
     \/ Fault /\ UNCHANGED dir
  /\ pc' = [pc EXCEPT ![h] = "stat"]
  /\ UNCHANGED << creator, content, mtime, crash, locals, fd, now, crashes, done >>

(* Go on with the loop, or leave it after the last slot. *)
NextSlot(h) ==
  /\ i' = [i EXCEPT ![h] = @ + 1]
  /\ pc' = [pc EXCEPT ![h] = IF i[h] + 1 < MaxReports THEN "stat" ELSE "overflow"]

(* stat() finds a report: it may be the oldest so far. *)
StatFound(h) ==
  /\ pc[h] = "stat"
  /\ Exists(i[h])
  /\ tsNum' = [tsNum EXCEPT ![h] = i[h]]
  /\ IF mtime[i[h]] < mt[h]
     THEN /\ oldest' = [oldest EXCEPT ![h] = i[h]]
          /\ mt' = [mt EXCEPT ![h] = mtime[i[h]]]
     ELSE UNCHANGED << oldest, mt >>
  /\ NextSlot(h)
  /\ UNCHANGED << fileVars, crash, fd, now, crashes, done, faults >>

(* stat() says ENOENT. *)
StatAbsent(h) ==
  /\ pc[h] = "stat"
  /\ ~Exists(i[h])
  /\ tsNum' = [tsNum EXCEPT ![h] = i[h]]
  /\ pc' = [pc EXCEPT ![h] = "create"]
  /\ UNCHANGED << fileVars, crash, i, oldest, mt, fd, now, crashes, done, faults >>

(* stat() fails for another reason. *)
StatFails(h) ==
  /\ pc[h] = "stat"
  /\ Fault
  /\ tsNum' = [tsNum EXCEPT ![h] = i[h]]
  /\ NextSlot(h)
  /\ UNCHANGED << fileVars, crash, oldest, mt, fd, now, crashes, done >>

(* The handler has a report file, new or emptied. *)
OpensReport(h, p) ==
  /\ creator' = [creator EXCEPT ![p] = crash[h]]
  /\ content' = [content EXCEPT ![p] = {}]
  /\ mtime' = [mtime EXCEPT ![p] = now]
  /\ fd' = [fd EXCEPT ![h] = p]
  /\ pc' = [pc EXCEPT ![h] = "report"]

(* Mutant of CreateReport: O_TRUNC in place of O_EXCL. *)
CreateReportShared(h) ==
  /\ pc[h] = "create"
  /\ dir
  /\ OpensReport(h, i[h])
  /\ UNCHANGED << dir, crash, locals, now, crashes, done, faults >>

(* open(O_CREAT|O_EXCL) of a slot that is still free. *)
CreateReport(h) ==
  /\ pc[h] = "create"
  /\ dir
  /\ ~Exists(i[h])
  /\ OpensReport(h, i[h])
  /\ UNCHANGED << dir, crash, locals, now, crashes, done, faults >>

(* Mutants of CreateFails: the search is given up, or the same slot is     *)
(* tried again.                                                            *)
CreateFailsGivesUp(h) ==
  /\ pc[h] = "create"
  /\ ~dir \/ Exists(i[h])
  /\ i' = [i EXCEPT ![h] = MaxReports]
  /\ pc' = [pc EXCEPT ![h] = "overflow"]
  /\ UNCHANGED << fileVars, crash, oldest, mt, tsNum, fd, now, crashes, done, faults >>
CreateFailsRetries(h) ==
  /\ pc[h] = "create"
  /\ \/ (~dir \/ Exists(i[h])) /\ UNCHANGED faults
     \/ Fault
  /\ pc' = [pc EXCEPT ![h] = "stat"]
  /\ UNCHANGED << fileVars, crash, locals, fd, now, crashes, done >>

(* It is not, or the open fails for another reason: try the next slot. *)
CreateFails(h) ==
  /\ pc[h] = "create"
  /\ \/ (~dir \/ Exists(i[h])) /\ UNCHANGED faults
     \/ Fault
  /\ NextSlot(h)
  /\ UNCHANGED << fileVars, crash, oldest, mt, tsNum, fd, now, crashes, done >>

(* After the loop: open(O_CREAT|O_TRUNC) of the path with index i. *)
OpenOverflow(h) ==
  /\ pc[h] = "overflow"
  /\ dir
  /\ tsNum' = [tsNum EXCEPT ![h] = oldest[h]]
  /\ OpensReport(h, i[h])
  /\ UNCHANGED << dir, crash, i, oldest, mt, now, crashes, done, faults >>

(* That fails too: the handler goes on without a report. *)
OverflowFails(h) ==
  /\ pc[h] = "overflow"
  /\ \/ ~dir /\ UNCHANGED faults
     \/ Fault
  /\ tsNum' = [tsNum EXCEPT ![h] = oldest[h]]
  /\ fd' = [fd EXCEPT ![h] = NoFile]
  /\ pc' = [pc EXCEPT ![h] = "report"]
  /\ UNCHANGED << fileVars, crash, i, oldest, mt, now, crashes, done >>

(* generate_crash_report: report_out writes to the descriptor if it has one. *)
WriteReport(h) ==
  /\ pc[h] = "report"
  /\ IF fd[h] = NoFile
     THEN UNCHANGED << content, mtime >>
     ELSE /\ content' = [content EXCEPT ![fd[h]] = @ \cup {crash[h]}]
          /\ mtime' = [mtime EXCEPT ![fd[h]] = now]
  /\ pc' = [pc EXCEPT ![h] = "close"]
  /\ UNCHANGED << dir, creator, crash, locals, fd, now, crashes, done, faults >>

(* close() and exit(). *)
CloseReport(h) ==
  /\ pc[h] = "close"
  /\ done' = done \cup {crash[h]}
  /\ pc' = [pc EXCEPT ![h] = "idle"]
  /\ fd' = [fd EXCEPT ![h] = NoFile]
  /\ UNCHANGED << fileVars, crash, locals, now, crashes, faults >>

Kill(h) ==
  /\ pc[h] # "idle"
  /\ Fault
  /\ pc' = [pc EXCEPT ![h] = "idle"]
  /\ fd' = [fd EXCEPT ![h] = NoFile]
  /\ UNCHANGED << fileVars, crash, locals, now, crashes, done >>

Tick ==
  /\ now < MaxTime
  /\ now' = now + 1
  /\ UNCHANGED << fileVars, pc, crash, locals, fd, crashes, done, faults >>

HandlerStep(h) ==
  \/ MakeDir(h)
  \/ StatFound(h) \/ StatAbsent(h) \/ StatFails(h)
  \/ CreateReport(h) \/ CreateFails(h)
  \/ OpenOverflow(h) \/ OverflowFails(h)
  \/ WriteReport(h) \/ CloseReport(h)

Next ==
  \/ \E h \in Handlers : StartHandler(h) \/ HandlerStep(h) \/ Kill(h)
  \/ Tick

(* The scheduler runs every handler that can run. *)
Spec == Init /\ [][Next]_vars /\ \A h \in Handlers : WF_vars(HandlerStep(h))

----------------------------------------------------------------------------
(***************************************************************************)
(* Properties.                                                             *)
(***************************************************************************)

(* Every variable has its type. *)
TypeOK ==
  /\ dir \in BOOLEAN
  /\ creator \in [Paths -> Nat \cup {NoFile}]
  /\ content \in [Paths -> SUBSET Nat]
  /\ mtime \in [Paths -> Nat]
  /\ pc \in [Handlers -> Steps]
  /\ crash \in [Handlers -> Nat \cup {NoFile}]
  /\ i \in [Handlers -> Paths]
  /\ oldest \in [Handlers -> Slots]
  /\ mt \in [Handlers -> Nat \cup {-1}]
  /\ tsNum \in [Handlers -> Slots]
  /\ fd \in [Handlers -> Paths \cup {NoFile}]
  /\ {now, crashes, faults} \subseteq Nat
  /\ done \subseteq Nat

(* However the stat() and open() of the handlers interleave, no two of     *)
(* them write to the same numbered report, and such a report holds what    *)
(* was written for the crash whose handler created it and nothing else.    *)
SlotsAreExclusive ==
  /\ \A g, h \in Handlers : fd[g] \in Slots /\ fd[g] = fd[h] => g = h
  /\ \A s \in Slots : content[s] \subseteq {creator[s]}

(* A report that stays its crash's and keeps what was written to it. *)
Kept(s) == creator'[s] = creator[s] /\ content[s] \subseteq content'[s]

(* A numbered report is emptied, or given to another crash, by a handler   *)
(* alone whose search found no slot it could create a report in, and       *)
(* unless something failed there is then no slot without a report.         *)
ReportsAreKept ==
  [][\A s \in Slots : Exists(s) /\ ~Kept(s) =>
       /\ \E h \in Handlers : pc[h] = "overflow" /\ pc'[h] = "report"
       /\ faults = 0 => \A t \in Slots : Exists(t)]_vars

(* While nothing fails, each of the first MaxReports crashes that are done *)
(* has a report of its own, in whatever order their handlers ran.          *)
FirstCrashesAreReported ==
  faults = 0 /\ crashes <= MaxReports =>
    \A c \in done : \E s \in Slots : content[s] = {c}

(* The search ends: a handler that was started is through with its report  *)
(* or was killed.                                                          *)
HandlersFinish == \A h \in Handlers : pc[h] = "mkdir" ~> pc[h] = "idle"

(* The slots behave as claims, whatever happens: none is given up before   *)
(* every slot is claimed.                                                  *)
Claims == INSTANCE SlotClaims WITH
  Crashes   <- 1..MaxCrashes,
  Nobody    <- NoFile,
  claimedBy <- [s \in Slots |-> creator[s]]

ImplementsClaims == Claims!Spec

(* The comments at the fallback: the report that is clobbered is the least *)
(* recently modified one.                                                  *)
ClobbersOldest ==
  [][\A p \in Paths : Exists(p) /\ creator'[p] # creator[p] =>
       \A q \in Paths : Exists(q) => mtime[p] <= mtime[q]]_vars
=============================================================================
