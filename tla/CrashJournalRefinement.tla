----------------------- MODULE CrashJournalRefinement -----------------------
(***************************************************************************)
(* CrashJournal implements JournalTable when one handler runs at a time    *)
(* and nothing fails.  The truncation of the file is the step at which a   *)
(* crash becomes part of the journal: from then on the journal is what the *)
(* truncating handler has in memory (committed), and FileShowsCommitted    *)
(* says that this is what a reader finds once the file is written.         *)
(***************************************************************************)
EXTENDS CrashJournal

(* The entries of a journal in memory, by program. *)
TableOf(j) ==
  LET used == 1..j.recCount
      slot(p) == j.slots[CHOOSE i \in used : j.slots[i].name = p]
  IN  [p \in {j.slots[i].name : i \in used} |->
         [pid |-> slot(p).pid, count |-> slot(p).count, times |-> slot(p).times]]

(* The table that is promised knows when a crash was, not what the texts   *)
(* of the file make of it.                                                 *)
CrashTimes(times) == [q \in 1..Len(times) |-> times[q].at]
TableOfCrashes(j) ==
  [p \in DOMAIN TableOf(j) |-> [TableOf(j)[p] EXCEPT !.times = CrashTimes(@)]]

(* What the bounds of the limits allow together. *)
UpTo(bound) == UNION {1..bound[l] : l \in Limits}

Table == INSTANCE JournalTable WITH
  Programs <- Names,
  Pids     <- UpTo(MaxCrashes),
  Times    <- UpTo(MaxTime),
  start    <- committed.start.at,
  total    <- committed.count,
  table    <- TableOfCrashes(committed)

(* The journal behaves as the table: the steps of a handler (read, update, *)
(* truncate, the writes, close) make up one atomic update of one entry and *)
(* leave the entries of other programs as they were.                       *)
ImplementsTable == Table!Spec

(* What write_crash_journal wrote is what read_crash_journal reads: when   *)
(* no handler is writing, the file shows the journal that was committed.   *)
FileShowsCommitted ==
  Serial /\ NoFailure /\ (\A h \in Handlers : pc[h] \notin Writing) =>
    /\ journal # <<>> => OnDisk.start = committed.start
    /\ OnDisk.count = committed.count
    /\ TableOf(OnDisk) = TableOf(committed)
=============================================================================
