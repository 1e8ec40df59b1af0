---------------------------- MODULE JournalTable ----------------------------
(***************************************************************************)
(* What the crash journal promises: the time it was started, a total of    *)
(* the crashes processed and a table with one entry for each of at most    *)
(* MaxRecs programs, updated as a whole at each crash.  No file, no order  *)
(* of records, no choice of which entry goes when the table is full.       *)
(***************************************************************************)
EXTENDS Naturals, Sequences, FiniteSets, Functions

CONSTANTS Programs, Pids, Times, MaxRecs, MaxLast

VARIABLES start, total, table
tableVars == << start, total, table >>

Init == start = 0 /\ total = 0 /\ table = << >>

(* The last times of a program's crashes, newest first. *)
Latest(t, times) ==
  SubSeq(<< t >> \o times, 1, IF Len(times) < MaxLast THEN Len(times) + 1 ELSE MaxLast)

First(pid, t) == [pid |-> pid, count |-> 1, times |-> << t >>]

Put(tab, p, entry) == [q \in DOMAIN tab \cup {p} |-> IF q = p THEN entry ELSE tab[q]]

(* A program that has an entry crashed again. *)
CrashAgain(p, t) ==
  /\ p \in DOMAIN table
  /\ table' = [table EXCEPT ![p].count = @ + 1, ![p].times = Latest(t, @)]

(* A program without one crashed: it gets one, if need be in place of     *)
(* another program's.                                                     *)
CrashAnew(p, pid, t) ==
  /\ p \notin DOMAIN table
  /\ \/ /\ Cardinality(DOMAIN table) < MaxRecs
        /\ table' = Put(table, p, First(pid, t))
     \/ /\ Cardinality(DOMAIN table) = MaxRecs
        /\ \E victim \in DOMAIN table :
             table' = Put(Restrict(table, DOMAIN table \ {victim}), p, First(pid, t))

Next ==
  /\ total' = total + 1
  /\ IF total = 0 THEN start' \in Times ELSE start' = start
  /\ \E p \in Programs, t \in Times :
       \/ CrashAgain(p, t)
       \/ \E pid \in Pids : CrashAnew(p, pid, t)

Spec == Init /\ [][Next]_tableVars
=============================================================================
