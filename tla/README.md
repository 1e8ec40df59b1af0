# A verification project for crash_handler

crash_handler is a program for embedded ARM Linux.  Installed in
`/proc/sys/kernel/core_pattern`, it is started by the kernel for every process
that crashes; it writes a *crash report* about that process to a file, accounts
for the crash in the *crash journal*, lets the process go and exits.  The
program has no threads and no daemon: what makes it hard is that several copies
may run at once on the same files, that a copy may be killed at any point or
see any of its calls fail, that the process it looks at may go away, and that
almost everything it reads (tables, instructions, stack) is the memory of a
process that has just proved to be broken.

Paths below are relative to the repository.  Line numbers are those of the
commit that was modelled.

## 1. Inventory

| Part | Code | State | Operations |
|---|---|---|---|
| Crash journal | `journal.c` | the journal file; per process `crash_journal` (start, count, up to 10 records of pid, path, count, up to 3 times) | `read_crash_journal`, `read_record`, `find_crash_record`, `find_oldest_crash_record`, `record_crash_to_journal`, `write_crash_journal` |
| Report files | `crash_handler.c:157-209`, `report_out` | the files `crash_report_00`.. of one directory, their times; per process `report_fd` and the locals of the search | `find_and_open_crash_report`, `report_out`, the `close` in `main` |
| Life of a handler | `crash_handler.c:221-267, 687-825` | `core_pattern`, `core_pipe_limit`; per process what it has open, what it has attached to | `main` (install, handle), `dump_task_info`, `generate_crash_report` |
| Exception index search | `table-unwind-arm.c:228-317` | the mappings and the tables in the crashed process; the bounds of the search | `get_eitp`, `search_EIT_table`, `selfrel_offset31` |
| Unwinding of a frame | `table-unwind-arm.c:150-395, 533-663`, `table-pr-support.c` | the virtual registers, the position in the unwinding instructions | `get_eit_entry`, the personality routines, `unwind_execute_with_ptrace`, `unwind_VRS_Pop_with_ptrace` |
| Call stack and stack dump | `crash_handler.c:485-685`, `table-unwind-arm.c:397-560`, `guess-unwinder.c` | `sp_list`, the frame count, the position of a dump | `dump_crash_report`, `log_function`, both unwinders' loops, `dump_stack_and_code`, `dump_pc_and_lr` |
| List of mappings | `crash_handler.c:289-356, 435-483`, `utility.c` | the list `milist`, `stack_map` | `parse_maps_line`, `get_mapinfo_list`, `parse_exidx_info`, `pc_to_mapinfo`, `map_to_name` |
| Registers, signal, code | `crash_handler.c:358-429` | none | `dump_registers`, `dump_fault_addr`, `dump_pc_code` |
| Kernel log tail | `crash_handler.c:602-632` | none | `dump_klog_tail` |
| Symbol annotation | `scripts/crash_syms` | none (a host script) | |
| McTernan unwinder | `mcternan-unwinder/` | simulated registers with their origins, simulated memory (a hash), the instructions left | `UnwindStart`, `UnwStartArm`, `UnwStartThumb`, `UnwMemHash...`, the client's `CliReport`; not built into the program (`crash_handler.c:663-667`) |

How they interact.  The kernel starts a handler (`Life of a handler`), which
opens a report file, enters the crash in the journal under the process's
`cmdline`, builds the list of mappings, attaches to the process with
`ptrace()` and dumps its registers, its call stack and its stack; then it
detaches, closes the report and exits.  `dump_crash_report` calls the table
unwinder, which for each frame searches the exception index of the mapping the
pc is in and interprets the instructions of the entry it finds; the best-guess
unwinder, which scans the stack; and the dump, which uses the list of stack
pointers that the unwinders leave.  Handlers share the journal file and the
report directory, and nothing else.  The McTernan unwinder is a part that the
program has the source of, but does not call: it unwinds a process by
interpreting the code ahead of the pc until it has seen a function return.

What makes each part correct, and what could go wrong that a test would hardly
reach:

* *Journal*: it is read, updated and truncated and rewritten in many small
  writes, without a lock.  A reader must find what a writer meant, through any
  number of rewrites; a crash must be counted once; a handler killed in the
  middle, or a write that fails, must not make the next one invent crashes.
  Times go through text and back on the way, and parsing may run past the text.
* *Report files*: `stat()` and `open(O_EXCL)` race with those of other handlers;
  no two crashes may share a report, none may be taken from its crash while a slot is
  free, and losing a race may not cost a free slot.
* *Life of a handler*: the two settings of the installation are made one after the
  other while processes crash; without `core_pipe_limit` nothing keeps the
  process; with it, a process may only go when its handler is done, and must.
* *Index search*: a binary search over words that may be anything must stay in
  the table and end, and be right when the table is sorted.
* *List of mappings*: the list is made in one order and searched by two lookups
  that do not agree on the end of a mapping; an address must be looked up in the
  table that its own file declares, if what is read of that file shows it.
* *Sections of a report*: every section is read from a process that may be gone; a
  report with a section that looks whole must be whole.
* *Frame*: the interpreter must not take other words for instructions, must end,
  and must undo the function's prologue exactly.
* *Call stack*: frame numbers are indexes of `sp_list`; unsigned positions wrap;
  two unwinders fill the same list; the process may vanish between two peeks.
* *McTernan unwinder*: what it takes a register or a word of the stack for must be
  what the processor would have there, however its hash was filled, freed and
  filled again; an address it reports must be one that the code returns to; and
  it must end, whatever the code does.

The file `PROJECT.json` lists these hazards with their lines.

## 2. Modules

| Module | What it is |
|---|---|
| `JournalData` | the records, the text of the file as chunks, `ReadJournal`, `RecordCrash`: pure operators |
| `CrashJournal` | handlers that read, update, truncate and write the journal; the journal's properties |
| `JournalTable` | abstract: a start, a total and a table with one entry per program, updated at once |
| `CrashJournalRefinement` | `CrashJournal` implements `JournalTable`; the file shows what was committed |
| `JournalDataProofs` | lemmas about `JournalData`: what is read of any file, and of a part of a journal's text |
| `CrashJournalProofs` | theorems about `CrashJournal`, among them that it implements `JournalTable` |
| `ReportSlots` | handlers that search the report directory and write their reports |
| `SlotClaims` | abstract: slots that are claimed once, until all are |
| `ReportSlotsProofs` | theorems about `ReportSlots`, among them that it implements `SlotClaims` |
| `Mappings` | words, and a mapping as the handler keeps it |
| `MapInfo` | the lines of `/proc/pid/maps`, `get_mapinfo_list`, `parse_exidx_info`, the lookups of `utility.c` |
| `ExidxSearch` | `get_eitp` and `search_EIT_table` on any tables |
| `MappedSearch` | `MapInfo` makes the list, `ExidxSearch` is called with it |
| `ExidxSearchProofs` | theorems about `ExidxSearch`, and about `MappedSearch`, among them that it implements `ExidxSearch` |
| `UnwindFrame` | `get_eit_entry`, the personality routine and the instruction interpreter |
| `UnwindFrameProofs` | theorems about `UnwindFrame` |
| `CallStack` | both unwinders' loops, `sp_list` and the dumps |
| `CallStackProofs` | theorems about `CallStack` |
| `CrashHandler` | installation, kernel, and the life of each handler |
| `CrashHandlerProofs` | theorems about `CrashHandler` |
| `Words` | arithmetic, logic and shifts of an ARM processor on words of `Bits` bits |
| `MemHash` | the hash that holds what a function has pushed (`unwarmmem.c`) |
| `Unwarm` | what the two halves of the McTernan unwinder share, and the client |
| `UnwarmThumb`, `UnwarmArm` | `UnwStartThumb` and `UnwStartArm`, one operator per instruction format |
| `ArmMachine` | a reference: the processor that executes the same instructions |
| `Unwarminder` | the unwinder at work with the processor beside it, and what misleads it; its properties |
| `UnwarminderProofs` | theorems about `MemHash` and `Unwarminder` |
| `MC...` | the instances that TLC checks |

Each module's mutants (definitions whose comment says "Mutant of ...") are
plausible faults of the code: a dropped check, an off-by-one, a missing step.
They are not part of any specification; for every property there is one that
breaks it.

### CrashJournal

One action per system call of the handler that touches the journal, as another
handler may run, or the handler be killed, between any two of them.  `pc[h]`
is the place in `record_crash_to_journal` and `write_crash_journal`; `mem[h]`
is the global `crash_journal` of the process, blank when it starts, since each
handler is a process of its own; `rec` and `tim` are the loop variables.  `ReadFile` is the
one `read()` and the parsing of its buffer, which is local; `Update` is the
accounting in memory, also local.

The file is a sequence of chunks, one for each `write()`, as long as the handler
that truncated it last (`writer`) is the only one that writes it, and each of its
writes puts all of its chunk or nothing.  Numbers have no fixed width, so when a
handler goes on writing at its own offset after another one has truncated the
file, or a `write()` puts only a part of its chunk, digits of two numbers may
join, a newline may be overwritten, or zeros be left between: then the file
is *torn* (`Tear`), and reading it yields any of the journals of `Garbled`, until it is
truncated again.  `spoilt` remembers that this has happened, since what was read
of a torn file lives on in the next one.

Within a file that is not torn, what the structure decides is kept: a chunk that was not
written at all leaves the others; missing newlines glue the count to the next pid
(`ChunkTokens`); a line with too few words is read into a slot that is not
counted (`ReadRecords`).  Numbers, dates and paths are tokens; what the parser
makes of a token in the wrong place (a date where a number is expected) is a
fixed `Junk` or `OtherText`.

A time is the reading of the clock it was made of and the hours by which
conversions have moved it since.  `strptime()` leaves `tm_isdst` as it finds it, and the
`struct tm` is not initialised (lines 51, 104), so that `mktime()` may move each
time that is read by an hour either way: `Converted` does so to every time of the
journal, by any of `Shifts`.  `ReadJournal` is what the text says before that.

When the lines run out before the slots do, `read_record` is called with no line,
and `strtok_r` continues from an uninitialised pointer (53, 162-165).  Where that leads
depends on what the stack held: to the end of the line before (`ReadFile` alone), to the
death of the handler (`WildDeath`), or to text that is taken for a record
(`WildRecord`, any of `Strays`, complete or not).

`committed` and `log` are history variables.  A crash becomes part of the journal
when the file is truncated for it; the refinement maps the table to `committed`,
and `FileShowsCommitted` links the bytes of the file to it.  The table
knows when a crash was, so a time is mapped to the reading of the clock it was made of: the hours that
conversions add are the subject of `TimesAreGenuine` and `TimesAreExact`.

### ReportSlots

One action per `stat`, `open`, `mkdir`, write and close.  `i`, `oldest`, `mt`
and `tsNum` are the locals of the search; `mt` starts at -1, which is what
`ULONG_MAX` is as a `time_t`, so that no file is ever older (lines 163-188).  The
path after the loop has index `MAX_CRASH_REPORTS`, called `Overflow`.

`SlotClaims` lets a crash take over another's slot (`Reuse`) when every slot is
claimed, as the comment at 152-156 announces.  `ReportsAreKept` says the same of the files: a
numbered report may only be emptied or given away by a handler whose search found
no slot, and unless something failed all are taken then.  The code never does so: it
opens `Overflow` in place of the oldest slot, which is the disagreement of `slots_rotation`.

### MapInfo, MappedSearch

One action per line of the file and per program header that is read.  The
file is a constant of a behaviour, as the process does not run; a file that ends
early (the process went away, or a read failed) is one of the shorter
`Files`.  Characters are abstracted: a line has its addresses, whether its
third permission is x, and a name, `NoName` where `sscanf` finds too few words.
`Image` is what is found at the start of a mapping: `headers` are the program
headers of the file, and `reads` is what `parse_exidx_info` reads, at `e_phoff`, `e_phoff +
1`, ..., since it advances its pointer by a byte and not by a header (471).  The first
read is the first header; the others are any bytes.  `Declared` is the list as it ought to be, with the
tables of the *headers*, written without the loops.  The code's list is that one for files
whose table the reads find (`TableIsRead`: it is in the first header, or there is none
and nothing that looks like one); `ListIsOfProcess` and `ImplementsSearch` are about those,
and `TablesAreDeclared`, about all, is among the disagreements below.

### ExidxSearch, UnwindFrame, CallStack

The crashed process is stopped, so its memory is a constant of a behaviour that
`Init` chooses: any table for the search, any instructions, registers and stack for
a frame.  A word that cannot be read is all ones, as -1 is what `ptrace()`
returns.  `Modulus` is the number of addresses: arithmetic wraps as `unsigned
int` does.  In `UnwindFrame` and `CallStack` an address counts words, as every
address the code computes there is a multiple of four.  In `CallStack` the
unwinding of a frame is `Callers`, any relation between the frame's level and
stack pointer and the next stack pointer, or a failure; how it is computed is
`UnwindFrame`.  A machine of `UnwindFrame` also has the prologue that the function has executed, which no
action looks at: its steps, each with the bytes of the entry that undo it, and between the steps the registers of
that moment, those of them that the entry can still give back, and the number of the byte where the instructions
for the earlier steps go on.  `Vanish` is the process going away: every `ptrace()` fails from
then on.  The return without a value in `guess-unwinder.c:95` leaves `Garbage`.  Positions of
the dumps wrap: `GoesRound` says when the position (`crash_handler.c:514, 554, 573`) can wrap to 0
without having passed the end, so that the dump does not end.

### CrashHandler

The kernel's side is external: it starts the handler named by `core_pattern`
for a process that dumps core, if `core_pipe_limit` allows it, and keeps the
process until its handler is gone if there is a limit.  The handler's side is
one action per call that looks at the process or changes what it depends on.  A
report has sections, in the order of `dump_task_info` and `generate_crash_report`:
`DumpFaultAddr`, `DumpRegisters` and `DumpPcCode` are the sections whose reads need
the process attached, `DumpCrashReport` is the call stack and the stack dump as a
whole, `DumpKlogTail` the tail of the kernel log, which needs no process.
`sections` are those that hold their data.

`RecordCrash` is the whole of `record_crash_to_journal`, of which `CrashJournal` tells the steps: the
crash is entered, or lost because the file cannot be opened or written (`Fault`), or the
handler dies in the read past the last line (`journal` is `lost` or `died`).  `DumpCrashReport`
ends, or it does not (`hung`): the unwinding of a frame may not (`frame_uleb`), nor may a dump whose
position goes round (`DumpEnds`).  A handler that hangs keeps its process attached, and under the limit its place.
`open()` of a file of `/proc` fails only when the process is gone: this is the kernel's part.

### McTernan unwinder

`UnwStartThumb` and `UnwStartArm` are loops that interpret one instruction at a time;
an action of `Unwarminder` is one turn of such a loop.  `mode` is the function
that runs, `regData` and `memData` are the state passed between the two, `t` is the
loop's counter, which starts again with each call, `frames` is the client's `CliStack`,
and `result` is what `UnwindStart` returns (`RUNNING` before).  An origin is a set of
flags, empty for `REG_VAL_INVALID`.  `real` and `mem` are the registers and the
memory of a processor that executes the same instructions; the unwinder does
not see them, and the properties compare the two.

Code is not laid out in advance: the instruction at an address is settled when it is
first read (`code`), out of the instructions of the `Images`.  So the runs cover every
program made of those instructions, of any shape, branches and loops included.
Instructions are records whose fields are those the decoder takes out of the word.  The
masks and shifts of the decoding are abstracted where both sides agree on them.  Where
the unwinder takes a word for something else than the processor does, the record keeps
the bit that tells: a shift by a register with bit 7 set is a multiplication or a
halfword transfer (`isDataProc`, `unwarm_arm.c:61-79`, does not look at it), which changes other
registers (`IsDataProcessing`, `Other` in `ArmMachine`), and the test for an illegal shift (284-293) looks at bit 11,
the top bit of the shift register's number (`Illegal`).  SWP and the status register transfers are in
the range that `isDataProc` excludes and are not known to the unwinder.  An
instruction the unwinder does not know may change any register but r13 and r15, and no
memory.  Words below the stack pointer belong to no one.  C leaves a shift by the width of
a word or more undefined: where the code relies on it, the result is that of the
processor the unwinder runs on, also an ARM.

In `MemHash` the arrays have `HashSize` cells, and the probe runs to one more:
`Overrun` is the cell after the last one, whose address is the bitmap of the used
cells and whose value is the address of cell 0 (`unwarm.h`: the arrays follow one another in
`MemData`).  Later writes to those fields do not show in `Overrun`; the unwinder counts as misled by then.

`misled` is the set of the things that have happened of which the model knows that the
unwinder gets them wrong: r14 happened to hold a valid origin at the start (`garbage`), an
instruction of `Misread` was interpreted (`misread`), the cell after the hash was written (`overran`),
a word of the hash can no longer be found (`lost`), or a word below the stack pointer is
still in it (`stale`: a return to the other mode hands the hash over before the garbage
collection).  `TrackedIsTrue`, `StackIsTrue` and `ReportsAreReturns` say what holds as long as
none of this happened, and that nothing else goes wrong.  `StoredWordsAreFound` says that `lost` is
none of its own: the garbage collection, which frees single cells of a hash with open probing, breaks no chain
as long as the hash has not overrun and is not stale, since the words below the stack pointer are those that were
stored last.  For the other four, `Unwarminder` states what the code's own comment promises and
the unwinder does not keep; these are among the disagreements below.

## 3. Runs

Every run is on all states reachable within the bounds named in its
configuration; the bounds cap histories (`MaxCrashes`, `MaxTime`), failures
(`MaxFaults`, `MaxBadWrites`, `MayVanish`) and inputs (`Names`, `Ranges`,
`Machines`, `Processes`, `Callers`).  Deadlock is not checked: all these systems
come to rest (no more crashes within the bound, a finished search or dump).

| Run | Question | States |
|---|---|---|
| `journal_serial` | One handler, no failure, three programs and two slots, four crashes, times that move or do not: does the journal tell the truth, does a crash reach the disk, does it implement the table? | 353 979 |
| `journal_faults` | With a limit: one handler at a time, which is killed anywhere, a write that fails or falls short, and a read past the last line that goes wrong. Without: two handlers at once, of which one may be killed. What still holds, and are crashes ever invented? | 1 839 203 |
| `slots` | Two handlers, two slots, four crashes, two failures: are reports exclusive and kept while a slot is free, is every free slot found, does the search end? | 299 884 |
| `exidx_search` | All tables of up to four entries over three-bit words, all addresses; files of mappings that touch, lines that are not wanted, headers and reads of every kind, each file cut off anywhere: is the right table searched, is the answer right, does the search end? | 803 944 |
| `frame` | All sequences of three instructions of sixteen kinds, headers and tables of all routines, and the entries for a set of function prologues | 17 037 |
| `stack_dump` | With both unwinders and with the table unwinder alone, frames in order or anyhow, a process that may vanish, sp and pc in the middle and at both ends of memory | 344 576 |
| `handler_installing` | Two processes crash during two installations, with a failing call, a handler that dies in the journal, a dump that hangs: are the reports whole, the names right, do the processes go? | 258 341 |
| `mcternan` | All programs of the given instructions: does the unwinder know what it says it knows, does it report returns only, does it end? | 136 985 |

Why the bounds are enough.  Two slots and three names reach a full table and an
eviction, four crashes reach the shift of the last times and an eviction after
a repetition; two times per record suffice for the shift to move and drop one.  Two
handlers race for two slots, and a third and a fourth crash find them taken.  Four
entries give the search three rounds and each way to leave it.  Prologues push low
registers, ranges, masks and `lr`, set a frame pointer, and reserve space
for each of the encodings of an offset (two short ones in a row, and a ULEB128 of one byte and of two).  A `sp_list` of four is reached
and passed by frames on four spots of the stack.  Of two mappings that touch both
orders of lookup are seen, and the address at an end with nothing above it.

`mcternan` has words of 20 bits, so that the eleven bits of a Thumb branch, the 24 of an ARM
branch (which wrap) and the tests of bit 15 are all real; a hash of three cells, which
is filled, freed and overrun; four instructions for each half and three frames, instead of 100 and
32.  Its six processes have Thumb prologues and epilogues, other Thumb instructions, the same two
for ARM, and two mixtures with switches of mode.  Every result of `UnwindStart` but
those of an unsupported build is reached: `TRUNCATED`, `EXHAUSTED`, `RESET`, a failing read of data or
instructions, a failing write, `FAILURE`, `INCONSISTENT` and `ILLEGAL_INSTR`.

`journal_faults` has one torn or stray journal (`Garbled`, `Strays`), which says of a program that it crashed more
often than there were crashes, twice, at a time that never was: the worst for its properties.  Times are
moved by no hour, or all of them by one, in both directions.

The properties, in words, are at their definitions.  Some hold under an
assumption that the property names.  `TotalCountsCrashes` and the others of
`journal_serial` need one handler at a time and no failure.  What is left after a kill or a
failing write is in `journal_faults`: `TotalNeverOverstated` needs no limit, and holds under any kill and any write that
fails whole; like the others of that run it says nothing once a file was torn or a stray
record taken (`spoilt`): then any number may stand in the file.
`CountsNeverOverstated` and `TimesAreGenuine` need one handler at a time and no failed write, as
the count of one record and the pid of the next become one number where the newline between them is
missing; and a time may be off by an hour for each crash processed since it.
`WildReadLosesOneCrash` says what the read past the last line costs: where it kills the handler, that handler's crash
and no other.
`NoDuplicateRecords` needs one handler at a time, and leaves out
the lines that lost their head, which have no program's name.  `RestoresCaller` is about entries that
describe (`Described`) the prologue the function has executed: each step has bytes that undo it, in the right
place, and of r4 to r11, lr and sp each is saved, or has been left alone since the call.  `SearchesOwnMapping` holds although
`get_eitp` and `pc_to_mapinfo` differ on the end of a mapping, because the upper of two mappings
that touch comes first in the list.  `TrackedIsTrue`, `StackIsTrue` and
`ReportsAreReturns` hold as long as `misled` is empty, `StoredWordsAreFound` as long as it has neither `overran` nor
`stale`; `ComesNearer` and `UnwindEnds` always.  `FramesAreLabelled` is
about the table unwinder alone, stacks in order and a stack pointer not in the first 64 bytes of memory.
`CrashesAreRecorded` excepts what fails in the journal itself, `DumpEnds` a position that goes round, and
`ProcessesGoAway` a handler that hangs in its dump.

### Runs that find a disagreement

* `journal_eviction`: `find_oldest_crash_record` compares the wrong way round and
  returns its loop variable, the last slot; its comment says "find the crash
  record with the oldest most recent entry" (`journal.c:259-282`).
* `slots_rotation`: after the loop the path is formatted with `i` and not with
  `oldest` (`crash_handler.c:200-202`), so every crash after the tenth goes to an
  eleventh file and clobbers the most recent report of all, where the comment says
  "so we clobber the oldest one".
* `frame_uleb`: an instruction sequence that is cut off within a ULEB128 is read
  on as `CODE_FINISH` (0xb0), whose bit 7 says that more follows, for ever
  (`table-pr-support.c:219`).
* `stack_frames_lost`: the best-guess unwinder clears `sp_list` and returns its own
  frame count (`crash_handler.c:656-658`), but fills in no stack pointer, so the
  dump ends far before the frames the table unwinder found.
### Disagreements that no run is kept for

These were met in modelling.  The modules state, each with its place in the code or the manual, the claims that
the first of them break; put among the properties of the run that is named, each is found violated.

* `TimesAreExact`, in `journal_serial`: a time that is read is converted through an uninitialised
  `struct tm` (`journal.c:51, 84-85, 104, 141-142`) and written back as it came out, an hour off,
  with every crash.  The manual says "date and time for up to 3 of the most recent crashes for that program" (199).
* `PathsAreCounted`, in `journal_serial` with `Names = {a, long}`: a path of 64 characters or more is stored cut and
  looked up whole (`journal.c:252, 344-345`), so that it is never found and each crash gets a record of its own.
* `TablesAreDeclared`, in `exidx_search`: `(void *) ptr+i` advances by a byte (`crash_handler.c:471`), so that a
  `PT_ARM_EXIDX` segment that is not in the first header is missed, or other bytes are taken for one.
* `ReportEnds`, in `stack_dump`: with pc in the last 16 bytes of memory, or an end of the stack dump in its last
  word, `p <= end` always holds and the report never ends (`crash_handler.c:514, 554, 573`).
* `ReportsAreReturnsFromAnyStart`, in `mcternan`: "Invalidate all general purpose registers" leaves r14 out
  (`unwarm.c:71-82`), and what it happened to hold is reported.
* `InstructionsAreFollowed`, in `mcternan`: ADD sp keeps an offset of up to 508 in a byte (`unwarm_thumb.c:541`); the
  other instructions of `Misread` are listed below.
* `WordsAreStoredInCells`, in `mcternan`: the probe looks at the cell behind the last one (`unwarmmem.c:85`), and a
  word is written there.
* `HashIsOfTheStack`, in `mcternan`: the hash is handed over to the Thumb half before the garbage collection
  (`unwarm_arm.c:658, 686`), and what was popped is found again when the stack has grown over it.

The others are described by the modules; changing a constant or stating the property shows them.

* The read past the last line (`journal.c:162-165`) may kill the handler before its crash is counted, or
  add a record that was never written (`WildDeath`, `WildRecord`).
* Two handlers at once lose a crash (`journal.c:302` to 355 is a read-modify-write
  without a lock): `TotalCountsCrashes` says nothing with `limit = 0`, and fails
  there without its premise.  It can happen
  only until the limit is set (`crash_handler.c:757-762`).
* A path with a blank is read back as two words (`journal.c:196`; `myApp`); an empty one matches an unused
  slot and is never written (247; `empty`).
* The tail of the stack dump has seventeen words, not 64 bytes (`crash_handler.c:573`,
  comment at 570).
* In a thread whose stack is not `[stack]` the scan of the best-guess unwinder runs
  to `[stack]` (`guess-unwinder.c:139`).
* With `core_pipe_limit` 1, the kernel drops the crash of a process while the
  handler of another runs (`CrashMissed`); an installation that cannot find its own
  path still says "Installation done" (`NoRealPath`, `crash_handler.c:749-764`); without
  a limit, a process that goes away between `open()` and `read()` is entered in the
  journal under whatever was in the buffer (`ReadCmdline`, 234-237).
* `get_eitp` takes a mapping's end for a part of it, `pc_to_mapinfo` and
  `map_to_name` do not (`table-unwind-arm.c:304`, `utility.c:60, 72`): the difference shows
  only at an end with nothing above it.  The name
  of `[stack]` is copied into a flexible array member without room (304); the tail
  of the kernel log is 4000 bytes, where the manual says 1000.

In the McTernan unwinder, each of the following is an exemption in `Misread`, `Overran`,
`Lost`, `Stale` or `Init` of `Unwarminder`, at the definition of the instruction in
`UnwarmThumb` or `UnwarmArm`:

* Thumb shifts: ASR tests bit 15 for the sign; LSR #0 and ASR #0, which mean a
  distance of 32, shift by none; ROR and ASR by a register with more than 32 yield 0.
* Thumb arithmetic: ADD and SUB of registers ask for the validity of values in place of origins; SUB
  of an immediate adds; the ALU operations look at the origin of one operand twice; BIC and MVN negate with
  `!`; MOV to or from a high register adds and keeps the target's origin, ADD takes the source's; the
  offset of ADD sp is cut to a byte.
* A Thumb `bx pc` is reported as a return if r15 came from the stack, as after an ARM `ldm` with pc.  An ARM
  `mov ip, lr; bx ip` is followed, but not reported.
* ARM: multiplications and halfword transfers are taken for data processing (`unwarm_arm.c:61-79`), some
  of them for illegal shifts (284, which tests bit 11 where bit 7 is meant).  An operation that writes r15 goes on four bytes too far and is not
  reported; r15 as an operand is read without the prefetch; ASR by a register
  takes the whole register for the distance; STM writes all registers at r13; LDM with its base in the list
  writes back over what it loaded.
* The check for a reset vector comes before the pc is advanced, so that a `bx` to address 4 is
  taken for a reset.  r14 is not initialised before an origin is asked of it.
* The hash: a probe that starts at the last cells reaches index 31 and writes past the arrays; after
  that, or with a hash that is handed over stale, freeing a cell breaks the chain of probes behind it, and a word is then
  read from the process (`unwarmmem.c:171`, `unwarm.c:145-156`).  A return
  to the other mode leaves the words of the popped frame in the hash (`unwarm_arm.c:658`,
  `unwarm_thumb.c:505`): the next function finds them when the stack grows over them again.
* `unwarm.h:27-32` calls `UNW_MAX_INSTR_COUNT` the number of instructions for one
  frame.  The counter is not set back on a frame within one mode, and starts anew on a
  switch: what bounds the switches is the client's limit of reports.

### Fairness

A handler is a process of an ordinary scheduler: a handler that can run does
(`WF` of its steps), and so do the steps within one (`ExidxSearch`, `MappedSearch`,
`UnwindFrame`, `CallStack`, `Unwarminder`: sequential code that nothing holds up).  Crashes, ticks of the clock, kills, failures, vanishing
processes and installations are not fair: they need not happen.  In `CrashHandler`
the kernel ends a core dump whose handler is gone (`WF` of `GoesAway`).  `CrashJournal`
states the same fairness on the change of `pc` and `tim`, which every step of
a handler makes, so that TLC can decide quickly whether it is enabled.

## 4. Proofs

| Theorem | Says |
|---|---|
| `CrashJournalProofs!JournalTypes` | `Spec => []TypeOK`, for any `core_pipe_limit`, any kill, any write that fails or falls short |
| `CrashJournalProofs!TotalIsNeverOverstated` | `Spec => []TotalNeverOverstated`, for any `core_pipe_limit`, any kill, any failing write, until a file is torn |
| `CrashJournalProofs!TotalIsExact` | `Spec => []TotalCountsCrashes`, which speaks of one handler at a time and no failure |
| `CrashJournalProofs!RecordsAreNeverDuplicated` | `Spec => []NoDuplicateRecords` if `PlainNames` |
| `CrashJournalProofs!CountsAreNeverOverstated` | `Spec => []CountsNeverOverstated` if `PlainNames` |
| `CrashJournalProofs!TimesAreAlwaysGenuine` | `Spec => []TimesAreGenuine` if `PlainNames`: the times are genuine but for the hours that conversions move them |
| `CrashJournalProofs!FileAlwaysShowsCommitted` | `Spec => []FileShowsCommitted` if `PlainNames`, about the text of the file |
| `CrashJournalProofs!RecordsTellTheCrashes` | `Spec => []RecordsDescribeCrashes` if `PlainNames` |
| `CrashJournalProofs!TableImplemented` | `Spec /\ [](Serial /\ NoFailure) => ImplementsTable` if `PlainNames` and the bound of the clock is not 0: the refinement, in which a time is the crash it is of |
| `ReportSlotsProofs!TypeCorrect` | `Spec => []TypeOK` |
| `ReportSlotsProofs!SlotsExclusive` | `Spec => []SlotsAreExclusive` |
| `ReportSlotsProofs!ReportsStay` | `Spec => ReportsAreKept`: no report is given up unless the search found no slot |
| `ReportSlotsProofs!SlotsAreClaims` | `Spec => ImplementsClaims`: the refinement of claims that are given up only when all slots are claimed |
| `ReportSlotsProofs!CrashesReported` | `Spec => []FirstCrashesAreReported` |
| `ExidxSearchProofs!StaysInTable` | `Spec => []ReadsInTable` |
| `ExidxSearchProofs!AnswersAreRight` | `Spec => []AnswerIsRight` |
| `ExidxSearchProofs!FindsFunctions` | `Spec => []FindsTheFunction` |
| `ExidxSearchProofs!RoundsAreBounded` | `Spec => Narrows` |
| `ExidxSearchProofs!ListsAreOfProcess` | `MappedSpec => []ListIsOfProcess`, for any files, headers and reads |
| `ExidxSearchProofs!OwnMappingSearched` | `MappedSpec => []SearchesOwnMapping` |
| `ExidxSearchProofs!SearchImplemented` | `MappedSpec => ImplementsSearch`: the refinement, for files whose tables the reads find |
| `ExidxSearchProofs!MappedSearchIsSafe` | `MappedSpec` has the four properties above, too |
| `UnwindFrameProofs!FrameTypes` | `Spec => []TypeOK` |
| `UnwindFrameProofs!ReadsOnlyDeclared` | `Spec => []ReadsDeclaredWords` |
| `UnwindFrameProofs!CallersAreRestored` | `Spec => []RestoresCaller`: an entry that describes the prologue undoes it |
| `CallStackProofs!StackTypes` | `Spec => []TypeOK` |
| `CallStackProofs!ListStaysInBounds` | `Spec => []ListIndexesInBounds`, unless the dump goes round |
| `CallStackProofs!FramesLabelled` | `Spec => []FramesAreLabelled`, unless sp is in the first 64 bytes |
| `CrashHandlerProofs!CrashTypes` | `Spec => []TypeOK` |
| `CrashHandlerProofs!HandlersRunOneByOne` | `Spec => []LimitedHandlersAreAlone` |
| `CrashHandlerProofs!LimitKeepsNames` | `Spec => []CrashesAreRecorded`: under the process's name, unless the journal itself fails |
| `CrashHandlerProofs!LimitKeepsReportsWhole` | `Spec => []ReportsAreComplete` |
| `UnwarminderProofs!WrittenIsRead` | a word written to the hash is the word read at its address, if the overrun was not written |
| `UnwarminderProofs!OthersAreRead` | a write leaves what is read at every other address alone |
| `UnwarminderProofs!FramesAlwaysFit` | `Spec => []FramesFit`: no report goes past the client's array |
| `UnwarminderProofs!UnwindingComesNearer` | `Spec => ComesNearer` |
| `UnwarminderProofs!TrackedRegistersAreTrue` | `Spec => []TrackedIsTrue`: until it is misled, what the unwinder calls known is what the processor has |
| `UnwarminderProofs!TrackedWordsAreTrue` | `Spec => []StackIsTrue`: and so are the words it reads as known |
| `UnwarminderProofs!ReportedAddressesAreReturns` | `Spec => ReportsAreReturns`: and the addresses it reports are where the processor goes |

What is assumed: the named assumptions beside the constants
(`HandlerAssumption`: finitely many handlers; `ReportAssumption`: at least one
slot; `WordAssumption`: at least four addresses; `StackAssumption`: a list of at
least three frames; `TextAssumption`: the empty text has no words, and a number or a date is one word
that fits a record; `FileAssumption`: the kernel lists mappings in the order of their addresses, and one
`[stack]`; `ImageAssumption`: the code of a process is made of instructions that exist, its data and
registers are words; and so on), and in single theorems.  `PowersAssumption` says of exponents what no
prover here knows: powers of two are positive numbers, and a word has more than 255 values, a
multiple of 4.  In single theorems:

* `PlainNames`: the programs' paths are single words, not empty, and fit a record.  What paths of
  other forms do is among the disagreements above: their records are not found again, and the
  theorems would be false of them.
* for `TableImplemented`, that nothing fails and the limit is 1, as the abstract table knows no failure; and
  that the clock's bound admits the value the clock starts with.

*The journal.*  `TotalNeverOverstated` is not inductive: nothing in it bounds what
a handler that is still writing will write.  The invariant (`TotalInv`) says that,
until a file is torn, every total that stands anywhere in the file, and every total a handler
has in memory, is at most the length of the log.  It holds under any interleaving, kill and
failing write, because writes only move totals from a memory to the file, and
reads take one that stands there or none.  For `TotalCountsCrashes` the
invariant (`ExactInv`) adds that at most one handler is active, and says for each
place of that handler where the total is: in the file before the read, in
memory up to the second write, and in the file again.

The other theorems about the journal rest on what a reader makes of the file, which is the subject of
`JournalDataProofs`.  Of a journal in memory whose records have plain names of their own (`IsTable`), the
text has a place for every record (`Places`), and any file that begins that text is read as the records whose
lines are there, the last of them perhaps with fewer times, and the rest blank (`PartIsRead`): the round
trip of `write_crash_journal` and `read_crash_journal`, with the end of the file anywhere.  The
invariant `SerialInv` says, as long as no write failed and no stray record was taken, that the file begins the text of `committed`,
and how far the writer is; and that every journal in memory is a table all of whose records are
honest (count no crash that was not their program's, and show no time but one of its crashes, moved by
an hour for each crash since at most: `Drifted`, which a conversion and the next crash keep together).  A handler that reads a part of an
honest table has an honest table, and so has one that adds a crash to it.  `KeptInv` adds, if nothing
fails, that the file is the whole text whenever no one writes, so that the memory of the next
handler is `committed` with one crash more; from this come `FileShowsCommitted`,
`RecordsDescribeCrashes` (whose records are exact and not only honest) and the refinement, in which the
truncation is the step of the table.

With writes that fail, or two writers, the file begins no text at all.  `TypeInv` says what is left:
a file that is not torn is made of chunks a handler may write, in any order, but the header's stand only where
the header is, since a handler that may write them has truncated the file and written nothing but them.  Then
whatever is read of it is a journal (`FileIsJournal`), and so is what is read of a torn one, by assumption.  For `NoDuplicateRecords` the invariant (`HeadsInv`) is that no
program has two heads in the file, because all the heads there are those of records the writer has
behind it, in a memory where no program has two.  A line that lost its newline holds the heads
of two records and is read as the first, so the lines that are read have the names of different
heads (`ReadsApart`).

*Report slots.*  That no two handlers have the same report open follows from:
handlers at work have different crashes; a numbered report belongs to the crash
whose handler created it; a descriptor is open only on a report of the handler's
crash; and a handler that still searches has created none.  The same invariant
gives that each step is a claim of one free slot by a crash that has none, or
leaves the claims as they are.  For `FirstCrashesAreReported` it needs, as long as nothing failed, that
every slot a searching handler has passed over is taken, and that no crash has two numbered reports: a
handler past the last slot would make one crash more than there are slots, so it is none of
the first.

*Index search.*  For an unsorted table it is not obvious that the bounds do not
cross.  The invariant (`Bracketed`) is that the function of the entry `left`
is not after the address (or `left` is 0), and that of the entry after `right` is
(or there is none): with one entry left, this leaves no way to go on.

*The list of mappings.*  The loop of `get_mapinfo_list` builds the list from its end, and that of
`parse_exidx_info` fills in the tables in the order of the list, while the stack is found on the way.  The
invariant says for each line of the file behind the reader where its mapping is in the list,
and for each mapping behind the second loop that it has the table of the first header that counts, or
none; `AsRead` is what that makes of all lines, and `Declared` the same where the reads find the tables.  With the mappings in the order of their addresses,
and the list the other way round, the first one that has an address, its end included, is the one that
`pc_to_mapinfo` finds, if that finds any.

*A frame.*  The cursor and the number of words left move in different branches of
`_Unwind_get_next_byte` and of the personality routines.  The invariant
(`WordsInv`) is that together they always make up what the header declares, and
that the cursor is past the header while instructions run.

That callers are restored needs three things more (`CallerInv`).  `Stream`: what is left of the word in the
interpreter's hands is what the entry has from the byte number `Here` on, so that the next byte is
`CodeAt(Here)`, across the ends of words and after the last of them (`StreamByte`, `StreamTaken`).  `Back(k)`:
while the instructions run, the interpreter is at the point after step `k` of the prologue, with that point's
registers as far as they are known there, or one or two bytes into what undoes the step, with the opcode or
half of a ULEB128 in hand.  And nothing has failed, and pc has not been popped.  As the first byte decides which
action there is, each action is that of one kind of step and leads to the point before it (`PushIsUndone`,
`SubIsUndone`, `MovIsUndone`); at the call the byte can only be CODE_FINISH.  Addresses wrap everywhere, so
that the stack pointer comes back because a summand or factor may be cut to an address early
(`CutSummand`, `CutFactor`).  Which bytes undo which step is `Undoes`, written from the ABI and not from the
interpreter; the two read a mask alike, by `Bits`, which the runs evaluate and the proof does not look into.

*The call stack.*  Two indexes run over `sp_list`: the unwinder's level, whose loop
is bounded, and the dump's frame number, whose comparison `p == sp_list[sp_depth]`
has no bound of its own.  What keeps the dump inside the list is where it ends.
The invariant (`StackInv`) says that the list is clear beyond the frames that
were found; that the number runs ahead of the position by at most one frame that
shares its stack pointer and one clear element, at address 0; and that with a full
list the end of the dump is its last element, so that the word with which the
number would leave the list is the last one.  If the end is the last word of memory, the position
(crash_handler.c:554) wraps to 0 without having passed it: the dump goes round, and the
invariant says no more of it.  For `FramesAreLabelled` the invariant (`LabelInv`) adds, for the table unwinder alone and frames in
order, that the frames the dump has passed are labelled and that the number it looks for is that
of the next frame above its position.  The property leaves out stack pointers in the first 64 bytes of memory, where the
start of the dump, a little below the first frame, wraps to the top.

*The handler's life.*  `LimitInv`: the limit is 0 or 1, and 1 as soon as a handler was
started under it, because nothing sets it back.  With a limit of 1 a handler starts
only if there is none, which is all that `LimitedHandlersAreAlone` needs.
`HandlerInv` says for each place of such a handler what it has behind it: its
process cannot go away before the handler is gone, so each file that could be opened
can be read; and the journal is entered under the name that was read, unless the journal itself failed.

*The hash.*  A read and a write probe the same cells until one that is free or has the
address.  The cell that a write fills is the first such cell for its own address, so it
is no cell that an earlier probe for any other address passed over with that address in it; filling it
can only lengthen another probe by cells it would have left anyway.  That there is a first
cell at all is the well-foundedness of the natural numbers.

*The McTernan unwinder's end.*  Each instruction of either half leads to one of four outcomes (it ends,
goes on in the loop, crosses to the other half, or reports an address), and each of these comes
nearer: the measure is the room in the client's array, then the half that runs, then the
instructions left.  The ARM half may cross without a report, the Thumb half may not, which is why
the measure cannot go round.  `UnwindEnds` follows from it with fairness, and is
left to TLC.

*The McTernan unwinder beside the processor.*  `TrackedIsTrue` is not inductive: a register may be loaded
with a word of the hash in the next step, so the hash must be right first, and the hash is right
only if the stack pointer was.  The invariant (`Inv`) has `FramesFit` and, as long as the
unwinder runs and `misled` is empty, `Follower`: registers with a valid origin have the processor's values; if it
tracks register 15, the half that runs is the one for the processor's mode; and if it tracks
register 13, no word of the hash is out of reach or beyond the arrays, and what is read through the hash or else from the process is the processor's word
or is called unknown (`Agrees`).  For a step there is first what both sides have after an instruction:
`Does` for the processor, `Ready` for the unwinder, before the end of its loop, the garbage
collection and the next address; `SetSound`, `KeepSound` and `ReportSound` are the three ways from there to
`Follower` again.  Then each instruction (`ThumbShiftSound` to `ArmBlockSound`) has to
show that it computes the processor's value or gives up its claim to know it.  POP, PUSH and LDM move one register
after another, with a read or write that can fail at each, where the processor's transfer is one
function of the list: `Popped`, `Pushed` and `Blocked` say what has been done after the first registers,
in terms of how many of the list have a lower number (`Count`), `Course` makes the sequence of sets of
`Transfers` available to them, and an induction over at most 16 registers (`UpTo`, from the
well-foundedness of the numbers) gives the end.  Since a push writes several words, and two words of a block are at
different addresses only because 16 registers are less than the memory, the arithmetic modulo 2^Bits
has lemmas of its own (`WordAdds`, `WordsApart`).  Bitwise operations and shifts only have to be numbers: the
unwinder and the processor compute them alike once the instruction is not misread.

What is only model-checked: liveness (`CrashReachesDisk`, `HandlersFinish`,
`SearchEnds`, `FrameEnds`, `DumpEnds`, `ProcessesGoAway`, `UnwindEnds`), as TLAPS has no
proofs about fairness here; `WildReadLosesOneCrash` and `StoredWordsAreFound`; and `DumpReachesFrames`,
`EvictsOldest`, `ClobbersOldest` and the other claims that are violated, which are false.  `FrameEnds` in the run `frame` is about
sequences that do not end within a ULEB128, `DumpEnds` about positions that do not go round.

## 5. Not modelled

`scripts/crash_syms`: a Python script that runs on a host over the text of a report; it
looks every address up in sorted lists of symbols and keeps no state between the lines, so that
there is nothing in it but the parsing of text, which these models abstract.

The wording of all sections; `dump_crash_journal` (output) and `get_crash_record` (no
caller); the coprocessor registers, which `unwind_VRS_Pop_with_ptrace` refuses; the
program's own personality routines, which `get_eit_entry` refuses; a line of
`/proc/pid/maps` that is longer than its buffer, whose second part is a matter of its
characters; how the kernel treats `ptrace()` on a process that dumps core, which is attached
to without a `waitpid()` (that any read may fail is modelled); the bits of
instruction words in `mcternan-unwinder/` that do not matter above, its `printf`s and the host programs around it; the test programs and
the Makefiles.

## 6. Plan

1. `UnwindFrame` inside `CallStack`: compose the frame's result with the loop,
   in place of `Callers`.
2. `CrashHandler` with `ReportSlots` and `CrashJournal` as its parts: what a crash
   leaves behind in both files.

Runs are one for each question.  Journal first, then the report slots, then what is
read from the process, is the order of what it costs to lose them.
