---------------------------- MODULE CrashJournal ----------------------------
(***************************************************************************)
(* The crash journal as the crash handlers of a system keep it: each crash *)
(* the kernel pipes to a handler makes one process read the journal,       *)
(* account for the crash in its own memory, truncate the file and write it *)
(* anew, one write() at a time and with no lock (journal.c).               *)
(*                                                                         *)
(* The lines of the file differ in length from one journal to the next, so *)
(* what a file holds once two handlers wrote it at their own offsets, or   *)
(* once a write() put only a part of its chunk, is no sequence of chunks:  *)
(* such a file is torn, and reading it may yield any of the journals of    *)
(* Garbled.  Truncating the file mends it.                                 *)
(***************************************************************************)
EXTENDS JournalData

CONSTANTS
  Handlers,     \* the processes that may be crash handlers at one time
  Names,        \* the texts that occur as argv[0] of a crashing process
  Limits,       \* the values core_pipe_limit may have; 0 means no limit
  MaxCrashes,   \* bounds, for each limit: crashes in a behaviour,
  MaxTime,      \* the clock,
  MaxFaults,    \* handlers that die early,
  MaxBadWrites, \* writes that fail or fall short,
  MaxWilds,     \* and reads past the last line that go wrong
  Shifts,       \* how conversions may move the times that are read
  Garbled,      \* what may be read of a torn file
  Strays        \* the records that may be found past the last line

ASSUME HandlerAssumption == /\ IsFiniteSet(Handlers)
                            /\ Limits \subseteq Nat
                            /\ Names \subseteq Texts
ASSUME BoundAssumption ==
  {MaxCrashes, MaxTime, MaxFaults, MaxBadWrites, MaxWilds} \subseteq [Limits -> Nat]
ASSUME DataAssumption == /\ Shifts \subseteq AllShifts
                         /\ Garbled \subseteq Journals
                         /\ Strays \subseteq Records

VARIABLES
  journal,   \* the chunks of the journal file; <<>> if empty, absent or torn
  torn,      \* whether the file is torn
  writer,    \* the handler that truncated the file last, while it writes it
  pc,        \* what each handler does next
  crash,     \* the pid and the cmdline each handler was started for
  mem,       \* crash_journal, the global of each handler's process
  rec, tim,  \* i and j of the loops of write_crash_journal
  now,       \* time(NULL)
  crashes,   \* crashes so far (the last one's pid)
  limit,     \* /proc/sys/kernel/core_pipe_limit
  skipped,   \* crashes the kernel did not pipe because of the limit
  faults,    \* handlers that died before they closed the journal, so far
  badWrites, \* write() calls that failed or fell short, so far
  wilds,     \* reads past the last line that went wrong, so far
  spoilt,    \* history: a file was torn or a stray record taken before
  log,       \* history: the crashes the handlers accounted for, in order
  committed  \* history: the journal the last truncation of the file is for

fileVars   == << journal, torn, writer >>
kernelVars == << crashes, limit, skipped >>
cursors    == << rec, tim >>
histVars   == << log, committed >>
faultVars  == << faults, badWrites, wilds >>
vars == << journal, torn, writer, pc, crash, mem, rec, tim, now, crashes, limit,
           skipped, faults, badWrites, wilds, spoilt, log, committed >>

Steps   == {"idle", "read", "update", "open", "start", "total", "head", "times"}
Writing == {"start", "total", "head", "times"}
Active  == {h \in Handlers : pc[h] # "idle"}

NoCrash == [pid |-> 0, name |-> NoName]
NoJournal == BlankJournal(NoTime)

Init ==
  /\ journal = <<>>
  /\ torn = FALSE
  /\ writer = {}
  /\ pc = [h \in Handlers |-> "idle"]
  /\ crash = [h \in Handlers |-> NoCrash]
  /\ mem = [h \in Handlers |-> NoJournal]
  /\ rec = [h \in Handlers |-> 0]
  /\ tim = [h \in Handlers |-> 0]
  /\ now = 1
  /\ crashes = 0
  /\ limit \in Limits
  /\ skipped = 0
  /\ faults = 0
  /\ badWrites = 0
  /\ wilds = 0
  /\ spoilt = FALSE
  /\ log = <<>>
  /\ committed = NoJournal

----------------------------------------------------------------------------
(* The kernel starts a handler unless core_pipe_limit of them are running. *)
BelowLimit == limit = 0 \/ Cardinality(Active) < limit

StartHandler(h, n) ==
  /\ crashes < MaxCrashes[limit]
  /\ BelowLimit
  /\ pc[h] = "idle"
  /\ crashes' = crashes + 1
  /\ crash' = [crash EXCEPT ![h] = [pid |-> crashes + 1, name |-> n]]
  /\ pc' = [pc EXCEPT ![h] = "read"]
  /\ UNCHANGED << fileVars, mem, cursors, now, limit, skipped, faultVars, spoilt, histVars >>

SkipCrash ==
  /\ crashes < MaxCrashes[limit]
  /\ ~BelowLimit
  /\ crashes' = crashes + 1
  /\ skipped' = skipped + 1
  /\ UNCHANGED << fileVars, pc, crash, mem, cursors, now, limit, faultVars, spoilt, histVars >>

(* The end of a handler's process, whatever the reason. *)
Exit(h) ==
  /\ pc' = [pc EXCEPT ![h] = "idle"]
  /\ crash' = [crash EXCEPT ![h] = NoCrash]
  /\ mem' = [mem EXCEPT ![h] = NoJournal]
  /\ rec' = [rec EXCEPT ![h] = 0]
  /\ tim' = [tim EXCEPT ![h] = 0]
  /\ writer' = writer \ {h}
  /\ UNCHANGED << journal, torn >>

Fault ==
  /\ faults < MaxFaults[limit]
  /\ faults' = faults + 1
  /\ UNCHANGED << badWrites, wilds >>

WildFault ==
  /\ wilds < MaxWilds[limit]
  /\ wilds' = wilds + 1
  /\ UNCHANGED << faults, badWrites >>

----------------------------------------------------------------------------
(* read_crash_journal: one read() takes the whole file. *)
Found == IF torn THEN Garbled ELSE {Converted(journal, Exact(now), z) : z \in Shifts}

(* The lines fill the slots, or the read past the last of them finds the   *)
(* end of the line before.                                                 *)
ReadFile(h) ==
  /\ pc[h] = "read"
  /\ \E j \in Found : mem' = [mem EXCEPT ![h] = j]
  /\ pc' = [pc EXCEPT ![h] = "update"]
  /\ UNCHANGED << fileVars, crash, cursors, now, kernelVars, faultVars, spoilt, histVars >>

(* When the lines run out strtok_r follows an uninitialised pointer: it    *)
(* may kill the handler.                                                   *)
WildDeath(h) ==
  /\ pc[h] = "read"
  /\ ReadsPastLastLine(journal)
  /\ WildFault
  /\ Exit(h)
  /\ UNCHANGED << now, kernelVars, spoilt, histVars >>

(* Or it may find the text of a record there. *)
WildRecord(h) ==
  /\ pc[h] = "read"
  /\ ReadsPastLastLine(journal)
  /\ WildFault
  /\ \E j \in Found, r \in Strays, complete \in BOOLEAN :
       mem' = [mem EXCEPT ![h] = WithStray(j, Len(Lines(journal)) + 1, r, complete)]
  /\ spoilt' = TRUE
  /\ pc' = [pc EXCEPT ![h] = "update"]
  /\ UNCHANGED << fileVars, crash, cursors, now, kernelVars, histVars >>

(* record_crash_to_journal: the crash is accounted for in memory. *)
Update(h) ==
  /\ pc[h] = "update"
  /\ mem' = [mem EXCEPT ![h] = RecordCrash(@, crash[h].pid, crash[h].name, Exact(now))]
  /\ log' = Append(log, [pid |-> crash[h].pid, name |-> crash[h].name, time |-> now])
  /\ pc' = [pc EXCEPT ![h] = "open"]
  /\ UNCHANGED << fileVars, crash, cursors, now, kernelVars, faultVars, spoilt, committed >>

(* open(O_CREAT|O_TRUNC|O_WRONLY); on failure nothing is written. *)
OpenJournal(h) ==
  /\ pc[h] = "open"
  /\ journal' = <<>>
  /\ torn' = FALSE
  /\ writer' = {h}
  /\ rec' = [rec EXCEPT ![h] = 1]
  /\ pc' = [pc EXCEPT ![h] = "start"]
  /\ committed' = mem[h]
  /\ UNCHANGED << crash, mem, tim, now, kernelVars, faultVars, spoilt, log >>

OpenFails(h) ==
  /\ pc[h] = "open"
  /\ Fault
  /\ Exit(h)
  /\ UNCHANGED << now, kernelVars, spoilt, histVars >>

Tear ==
  /\ journal' = <<>>
  /\ torn' = TRUE
  /\ spoilt' = TRUE

BadWrite ==
  /\ badWrites < MaxBadWrites[limit]
  /\ badWrites' = badWrites + 1
  /\ UNCHANGED << faults, wilds >>

(* write(), whose result nobody looks at.  The chunk comes to stand behind *)
(* the others, or within or far behind those of another handler that has   *)
(* truncated the file since; or nothing is written, or a part of it.       *)
Write(h, chunk) ==
  /\ UNCHANGED writer
  /\ \/ /\ h \in writer
        /\ journal' = IF torn THEN <<>> ELSE Append(journal, chunk)
        /\ UNCHANGED << torn, spoilt, faultVars >>
     \/ /\ h \notin writer
        /\ Tear
        /\ UNCHANGED faultVars
     \/ /\ BadWrite
        /\ UNCHANGED << journal, torn, spoilt >>
     \/ /\ BadWrite
        /\ Tear

WriteStart(h) ==
  /\ pc[h] = "start"
  /\ Write(h, StartChunk(mem[h].start))
  /\ pc' = [pc EXCEPT ![h] = "total"]
  /\ UNCHANGED << crash, mem, rec, tim, now, kernelVars, histVars >>

WriteTotal(h) ==
  /\ pc[h] = "total"
  /\ Write(h, TotalChunk(mem[h].count))
  /\ pc' = [pc EXCEPT ![h] = "head"]
  /\ UNCHANGED << crash, mem, rec, tim, now, kernelVars, histVars >>

WriteHead(h) ==
  /\ pc[h] = "head"
  /\ rec[h] <= mem[h].recCount
  /\ Write(h, HeadChunk(mem[h].slots[rec[h]]))
  /\ tim' = [tim EXCEPT ![h] = 1]
  /\ pc' = [pc EXCEPT ![h] = "times"]
  /\ UNCHANGED << crash, mem, rec, now, kernelVars, histVars >>

CurrentTimes(h) == mem[h].slots[rec[h]].times

WriteTime(h) ==
  /\ pc[h] = "times"
  /\ tim[h] <= Len(CurrentTimes(h))
  /\ Write(h, TimeChunk(CurrentTimes(h)[tim[h]]))
  /\ tim' = [tim EXCEPT ![h] = @ + 1]
  /\ UNCHANGED << pc, crash, mem, rec, now, kernelVars, histVars >>

WriteNewline(h) ==
  /\ pc[h] = "times"
  /\ tim[h] > Len(CurrentTimes(h))
  /\ Write(h, NewlineChunk)
  /\ rec' = [rec EXCEPT ![h] = @ + 1]
  /\ pc' = [pc EXCEPT ![h] = "head"]
  /\ UNCHANGED << crash, mem, tim, now, kernelVars, histVars >>

(* Mutant of CloseJournal: the last record is left out. *)
CloseJournalEarly(h) ==
  /\ pc[h] = "head"
  /\ rec[h] >= mem[h].recCount
  /\ Exit(h)
  /\ UNCHANGED << now, kernelVars, faultVars, spoilt, histVars >>

(* close(); the rest of the handler does not touch the journal. *)
CloseJournal(h) ==
  /\ pc[h] = "head"
  /\ rec[h] > mem[h].recCount
  /\ Exit(h)
  /\ UNCHANGED << now, kernelVars, faultVars, spoilt, histVars >>

----------------------------------------------------------------------------
(* A handler can be killed between any two of its system calls. *)
Kill(h) ==
  /\ pc[h] # "idle"
  /\ Fault
  /\ Exit(h)
  /\ UNCHANGED << now, kernelVars, spoilt, histVars >>

Tick ==
  /\ now < MaxTime[limit]
  /\ now' = now + 1
  /\ UNCHANGED << fileVars, pc, crash, mem, cursors, kernelVars, faultVars, spoilt, histVars >>

HandlerStep(h) ==
  \/ ReadFile(h)   \/ WildDeath(h) \/ WildRecord(h) \/ Update(h)
  \/ OpenJournal(h) \/ OpenFails(h)
  \/ WriteStart(h) \/ WriteTotal(h) \/ WriteHead(h)
  \/ WriteTime(h)  \/ WriteNewline(h) \/ CloseJournal(h)

Next ==
  \/ \E h \in Handlers :
       \/ HandlerStep(h)
       \/ Kill(h)
       \/ \E n \in Names : StartHandler(h, n)
  \/ SkipCrash
  \/ Tick

(* The scheduler runs every handler that can run.  A handler that is not   *)
(* idle can always take a step, and a step of a handler (and nothing else  *)
(* once it runs) changes its pc or its tim, so fairness is stated on that  *)
(* change alone: TLC need not compute a whole journal to find it enabled.  *)
Advance(h) ==
  /\ pc[h] # "idle"
  /\ \E s \in Steps, i \in 0..(MaxLast + 1) :
       /\ pc' = [pc EXCEPT ![h] = s]
       /\ tim' = [tim EXCEPT ![h] = i]

Fairness == \A h \in Handlers : WF_<<pc, tim>>(Advance(h))

Spec == Init /\ [][Next]_vars /\ Fairness

----------------------------------------------------------------------------
(***************************************************************************)
(* Properties.                                                             *)
(***************************************************************************)

(* What the text of the journal says in this state. *)
OnDisk == ReadJournal(journal, Exact(now))
Entries == {OnDisk.slots[i] : i \in 1..OnDisk.recCount}

(* No handler is between the read and the close of the journal. *)
Quiet == Active = {}

NoFailure == faults = 0 /\ badWrites = 0 /\ wilds = 0

(* The installed limit: handlers run one at a time. *)
Serial == limit = 1

CrashesOf(name, first) ==
  {i \in first..Len(log) : log[i].name = name}

(* Every variable has its type. *)
TypeOK ==
  /\ pc \in [Handlers -> Steps]
  /\ crash \in [Handlers -> [pid : Nat, name : Texts]]
  /\ mem \in [Handlers -> Journals]
  /\ rec \in [Handlers -> Nat]
  /\ tim \in [Handlers -> Nat]
  /\ now \in Nat
  /\ limit \in Limits
  /\ writer \subseteq Handlers
  /\ {torn, spoilt} \subseteq BOOLEAN
  /\ {crashes, skipped, faults, badWrites, wilds} \subseteq Nat
  /\ log \in Seq([pid : Nat, name : Texts, time : Nat])

(* With one handler at a time and no failure the total in the journal is   *)
(* the number of crashes the handlers processed: no read-modify-write of   *)
(* record_crash_to_journal is lost or counted twice.                       *)
TotalCountsCrashes ==
  Serial /\ Quiet /\ NoFailure => ReadTotal(journal) = Len(log)

(* A record describes the crashes of its program from some crash on: that  *)
(* crash's pid, how many there were, and the times of the last of them,    *)
(* newest first (by however many hours each was moved since).              *)
DescribesFrom(r, first) ==
  LET mine == CrashesOf(r.name, first)
  IN  /\ first \in mine
      /\ r.pid = log[first].pid
      /\ r.count = Cardinality(mine)
      /\ Len(r.times) = (IF r.count < MaxLast THEN r.count ELSE MaxLast)
      /\ \A j \in 1..Len(r.times) :
           \E i \in mine : /\ Cardinality({k \in mine : k > i}) = j - 1
                           /\ r.times[j].at = log[i].time

(* Without faults every record of a journal at rest tells the truth about  *)
(* its program (record_crash_to_journal and both codecs together).  As     *)
(* long as the journal never had to drop a record, it has one for every    *)
(* program whose crash was processed, and from its first crash on.         *)
RecordsDescribeCrashes ==
  LET names == {log[i].name : i \in 1..Len(log)}
  IN  Serial /\ Quiet /\ NoFailure =>
        /\ \A r \in Entries : \E first \in 1..Len(log) : DescribesFrom(r, first)
        /\ Cardinality(names) <= MaxRecs =>
             \A n \in names :
               \E r \in Entries : r.name = n /\ DescribesFrom(r, Min(CrashesOf(n, 1)))

(* One handler at a time: no program ever has two records, wherever        *)
(* handlers were killed and writes failed before: find_crash_record always *)
(* sees the one there is.  (A line whose head was not written has no       *)
(* program's name.)                                                        *)
NoDuplicateRecords ==
  Serial /\ ~spoilt => \A i, j \in 1..OnDisk.recCount :
    /\ OnDisk.slots[i].name = OnDisk.slots[j].name
    /\ OnDisk.slots[i].name \notin {NoName, OtherText}
    => i = j

(* The total never exceeds the number of crashes that were processed: not  *)
(* when handlers overlap, not when they are killed in the middle of a      *)
(* write and not when writes fail, as long as no file was torn.            *)
TotalNeverOverstated == ~spoilt => OnDisk.count <= Len(log)

(* A handler that dies in the read past the last line (journal.c:164-165)  *)
(* loses its own crash and no other: one handler at a time, every crash    *)
(* that was piped to a handler is in the total, but for those, when no     *)
(* other handler was killed and no open or write failed.                   *)
WildReadLosesOneCrash ==
  Serial /\ Quiet /\ faults = 0 /\ badWrites = 0 /\ ~spoilt =>
    ReadTotal(journal) = crashes - skipped - wilds

(* One handler at a time: nor does the count of any record, even when      *)
(* handlers are killed in the middle of a write.                           *)
CountsNeverOverstated ==
  Serial /\ ~spoilt /\ badWrites = 0 =>
    \A r \in Entries : r.count <= Cardinality(CrashesOf(r.name, 1))

(* One handler at a time: a record never shows a time at which its program *)
(* did not crash, even when handlers are killed in the middle of a write,  *)
(* but for the hour that each rewrite of the journal since may move it by. *)
TimesAreGenuine ==
  Serial /\ ~spoilt /\ badWrites = 0 =>
    \A r \in Entries : \A j \in 1..Len(r.times) :
      \E i \in CrashesOf(r.name, 1) :
        /\ log[i].time = r.times[j].at
        /\ r.times[j].off \in -(Len(log) - i)..(Len(log) - i)

(* A crash a handler was started for is eventually readable: the handler   *)
(* ends and the journal holds a record of the program with the crash's     *)
(* exact time, unless something failed.  One handler at a time is assumed. *)
CrashReachesDisk ==
  \A h \in Handlers, n \in Names :
    Serial /\ pc[h] = "read" /\ crash[h].name = n
      ~> \/ ~NoFailure
         \/ /\ pc[h] = "idle"
            /\ log # <<>> /\ log[Len(log)].name = n
            /\ \E r \in Entries : /\ r.name = Cut[n]
                                 /\ r.times # <<>>
                                 /\ r.times[1] = Exact(log[Len(log)].time)

(* find_oldest_crash_record: the record that is overwritten is the one     *)
(* whose most recent crash is the oldest.                                  *)
NewestTime(r) == IF r.times = <<>> THEN 0 ELSE r.times[1].at

EvictsOldest ==
  [][\A h \in Handlers :
       Update(h) /\ mem[h].recCount = MaxRecs =>
         \A i \in Slots :
           mem'[h].slots[i].name # mem[h].slots[i].name =>
             \A j \in Slots : NewestTime(mem[h].slots[i]) <= NewestTime(mem[h].slots[j])]_vars

(* The journal keeps the date and time of a program's most recent crashes: *)
(* without a failure every time it shows is a crash's, to the hour.        *)
TimesAreExact ==
  Serial /\ Quiet /\ NoFailure =>
    \A r \in Entries : \A j \in 1..Len(r.times) :
      \E i \in CrashesOf(r.name, 1) : r.times[j] = Exact(log[i].time)

(* For each program path that was seen the journal records how many times  *)
(* that program crashed, without a failure and while there is room.        *)
PathsAreCounted ==
  LET names == {log[i].name : i \in 1..Len(log)}
  IN  Serial /\ Quiet /\ NoFailure /\ Cardinality(names) <= MaxRecs =>
        \A n \in names :
          \E r \in Entries : r.name = Cut[n] /\ r.count = Cardinality(CrashesOf(n, 1))
=============================================================================
