----------------------------- MODULE JournalData -----------------------------
(***************************************************************************)
(* The data of journal.c: the records of the crash journal in memory, the  *)
(* text of the journal file, and what reading that text back yields.       *)
(*                                                                         *)
(* The file is a sequence of chunks, one for each write() the handler      *)
(* makes, as long as one handler at a time writes it and each write() puts *)
(* all of its chunk or nothing; CrashJournal says what else there is.      *)
(***************************************************************************)
EXTENDS Integers, Sequences, FiniteSets, FiniteSetsExt, SequencesExt

CONSTANTS
  MaxRecs,    \* MAX_CRASH_RECORDS
  MaxLast,    \* MAX_LAST_CRASH
  Texts,      \* every text that can stand as a program path
  NoName,     \* the empty text
  OtherText,  \* a word that is no program's path (a number, a date)
  Cut,        \* Cut[s]: the first MAX_PROC_NAME - 1 characters of s
  Words       \* Words[s]: the blank-separated words of s

ASSUME BoundsAssumption == /\ MaxRecs \in Nat \ {0}
                           /\ MaxLast \in Nat \ {0}
ASSUME TextAssumption == /\ {NoName, OtherText} \subseteq Texts
                         /\ Cut \in [Texts -> Texts]
                         /\ Words \in [Texts -> Seq(Texts)]
                         /\ Cut[NoName] = NoName /\ Words[NoName] = <<>>
                         /\ Cut[OtherText] = OtherText
                         /\ Words[OtherText] = << OtherText >>

Slots == 1..MaxRecs

(***************************************************************************)
(* A time_t of the journal: the reading of the clock it was made of, and   *)
(* by how many hours of daylight saving the conversions of its text back   *)
(* to a time_t have moved it since.  No branch of the code depends on it.  *)
(***************************************************************************)
Times == [at : Nat, off : Int]
Exact(now) == [at |-> now, off |-> 0]
Moved(t, k) == [t EXCEPT !.off = @ + k]

(***************************************************************************)
(* struct crash_record_struct; times holds last_crash[0..last_count-1].    *)
(***************************************************************************)
Records == [pid : Nat, name : Texts, count : Nat, times : Seq(Times)]

(* A slot of the zero-initialised global that no line was read into. *)
BlankRecord == [pid |-> 0, name |-> NoName, count |-> 0, times |-> <<>>]

(* struct crash_journal_struct *)
Journals == [start : Times, count : Nat, recCount : 0..MaxRecs,
             slots : [Slots -> Records]]

BlankJournal(t) == [start |-> t, count |-> 0, recCount |-> 0,
                    slots |-> [i \in Slots |-> BlankRecord]]

----------------------------------------------------------------------------
(* The chunks write_crash_journal produces. *)
StartChunk(t)  == [k |-> "start", t |-> t]
TotalChunk(n)  == [k |-> "total", n |-> n]
HeadChunk(r)   == [k |-> "head", pid |-> r.pid, name |-> r.name, count |-> r.count]
TimeChunk(t)   == [k |-> "time", t |-> t]
NewlineChunk   == [k |-> "newline"]

----------------------------------------------------------------------------
(***************************************************************************)
(* Lines and tokens.  strtok_r skips empty lines, so a line starts at a    *)
(* chunk that is no newline and follows the header or a newline.           *)
(***************************************************************************)
Begins(text) == {i \in 3..Len(text) : /\ text[i] # NewlineChunk
                                      /\ i = 3 \/ text[i-1] = NewlineChunk}

LineFrom(text, i) ==
  LET end == SelectInSubSeq(text, i, Len(text), LAMBDA chunk : chunk = NewlineChunk)
  IN  SubSeq(text, i, IF end = 0 THEN Len(text) ELSE end - 1)

(* The member of a set of numbers that has n members up to it. *)
Nth(I, n) == CHOOSE i \in I : Cardinality({k \in I : k <= i}) = n

Lines(text) ==
  LET begins == Begins(text)
  IN  [n \in 1..Cardinality(begins) |-> LineFrom(text, Nth(begins, n))]

NumToken(n)  == [kind |-> "number", v |-> n]
TextToken(s) == [kind |-> "text", s |-> s]
TimeToken(t) == [kind |-> "time", v |-> t]

(***************************************************************************)
(* A head contributes pid, the words of the name and count; a time one     *)
(* token.  Where the newline between two records is missing, the digits of *)
(* the second pid are glued to the token before them.                      *)
(***************************************************************************)
ChunkTokens(line, i) ==
  LET chunk == line[i]
      glued == i < Len(line) /\ line[i+1].k = "head"
      count == IF glued THEN 10 * chunk.count + line[i+1].pid ELSE chunk.count
      words == [j \in 1..Len(Words[chunk.name]) |-> TextToken(Words[chunk.name][j])]
  IN  IF chunk.k = "time" THEN << TimeToken(chunk.t) >>
      ELSE (IF i = 1 THEN << NumToken(chunk.pid) >> ELSE <<>>)
             \o words \o << NumToken(count) >>

Tokens(line) == FlattenSeq([i \in 1..Len(line) |-> ChunkTokens(line, i)])

(* atoi, and strncpy into pname.  The time of a token is what its text     *)
(* says; what mktime makes of that is in Converted.  Junk stands for the   *)
(* year of a date, NoTime for the time made of a token that is none.       *)
Junk == 0
NoTime == Exact(Junk)
AsNumber(tok) == IF tok.kind = "number" THEN tok.v ELSE Junk
AsName(tok)   == IF tok.kind = "text" THEN Cut[tok.s] ELSE OtherText
AsTime(tok)   == IF tok.kind = "time" THEN tok.v ELSE NoTime

(* Mutant of ReadRecord: the loop stops one time too early. *)
ReadRecordShort(line) ==
  LET tok == Tokens(line)
      n   == Len(tok)
      last == IF n < 2 + MaxLast THEN n ELSE 2 + MaxLast
  IN  [pid   |-> IF n >= 1 THEN AsNumber(tok[1]) ELSE 0,
       name  |-> IF n >= 2 THEN AsName(tok[2]) ELSE NoName,
       count |-> IF n >= 3 THEN AsNumber(tok[3]) ELSE 0,
       times |-> [j \in 1..(IF n >= 3 THEN last - 3 ELSE 0) |-> AsTime(tok[j+3])]]

(* read_record on a line: fields are set as far as there are tokens. *)
ReadRecord(line) ==
  LET tok == Tokens(line)
      n   == Len(tok)
      last == IF n < 3 + MaxLast THEN n ELSE 3 + MaxLast
  IN  [pid   |-> IF n >= 1 THEN AsNumber(tok[1]) ELSE 0,
       name  |-> IF n >= 2 THEN AsName(tok[2]) ELSE NoName,
       count |-> IF n >= 3 THEN AsNumber(tok[3]) ELSE 0,
       times |-> [j \in 1..(IF n >= 3 THEN last - 3 ELSE 0) |-> AsTime(tok[j+3])]]

IsComplete(line) == Len(Tokens(line)) >= 3

(***************************************************************************)
(* read_crash_journal.  The records loop takes a slot for every line, but  *)
(* rec_count counts the complete ones only.                                *)
(***************************************************************************)
ReadRecords(text) ==
  LET lines == Lines(text)
      used  == {i \in Slots : i <= Len(lines)}
  IN  [recCount |-> Cardinality({i \in used : IsComplete(lines[i])}),
       slots    |-> [i \in Slots |-> IF i \in used THEN ReadRecord(lines[i])
                                                   ELSE BlankRecord]]

HasHeader(text) == Len(text) >= 1 /\ text[1].k \in {"start", "total"}

HeaderTime(text, t) ==
  IF ~HasHeader(text) THEN t
  ELSE IF text[1].k = "start" THEN text[1].t ELSE NoTime

HasTotal(text) ==
  /\ Len(text) >= 2
  /\ text[1].k = "start"
  /\ text[2].k = "total"

ReadTotal(text) == IF HasTotal(text) THEN text[2].n ELSE 0

(* What the text of the file says: a reader that converts no time.         *)
ReadJournal(text, t) ==
  LET recs == ReadRecords(text)
  IN  IF HasTotal(text)
      THEN [start |-> text[1].t, count |-> ReadTotal(text),
            recCount |-> recs.recCount, slots |-> recs.slots]
      ELSE [BlankJournal(t) EXCEPT !.start = HeaderTime(text, t)]

(***************************************************************************)
(* strptime fills a struct tm that nobody initialised and leaves tm_isdst  *)
(* as it is, so that mktime may take the time for one of daylight saving   *)
(* or not: each time that is read is moved by 0, 1 or -1.  A shift says by *)
(* how much, for the header and for each time of each slot.                *)
(***************************************************************************)
Hours == {-1, 0, 1}
AllShifts == [start : Hours, times : [Slots -> [1..MaxLast -> Hours]]]

MovedTimes(r, by) ==
  [r EXCEPT !.times = [q \in 1..Len(@) |-> Moved(@[q], by[q])]]

Converted(text, t, z) ==
  LET j == ReadJournal(text, t)
  IN  [j EXCEPT !.start = IF HasHeader(text) THEN Moved(@, z.start) ELSE @,
                !.slots = [i \in Slots |-> MovedTimes(@[i], z.times[i])]]

(* The records loop calls read_record with no line when lines run out. *)
ReadsPastLastLine(text) == HasTotal(text) /\ Len(Lines(text)) < MaxRecs

(* There it may find a record in whatever its pointer leads to, and take   *)
(* it for the journal's next one if it has all its fields.                 *)
WithStray(j, i, r, complete) ==
  [j EXCEPT !.slots[i] = r, !.recCount = IF complete THEN @ + 1 ELSE @]

----------------------------------------------------------------------------
(* Mutant of FindCrashRecord: the loop starts at the second slot. *)
FindBelowFirst(j, name) ==
  SelectInSubSeq(j.slots, 2, MaxRecs, LAMBDA r : r.name = name)

(* find_crash_record: over all slots, the unused ones included; 0 if none. *)
FindCrashRecord(j, name) ==
  SelectInSeq(j.slots, LAMBDA r : r.name = name)

(* find_oldest_crash_record returns its loop variable: the last slot. *)
FindOldestCrashRecord(j) == MaxRecs

(* Mutant of Prepend: the older times are not moved. *)
PrependInPlace(t, times) ==
  [i \in 1..(IF Len(times) < MaxLast THEN Len(times) + 1 ELSE MaxLast) |->
     IF i = 1 \/ i > Len(times) THEN t ELSE times[i]]

Prepend(t, times) ==
  [i \in 1..(IF Len(times) < MaxLast THEN Len(times) + 1 ELSE MaxLast) |->
     IF i = 1 THEN t ELSE times[i-1]]

(* An entry was found: one more crash, its time in front. *)
TouchRecord(j, i, t) ==
  LET r == j.slots[i]
  IN  [j EXCEPT !.slots[i] = [r EXCEPT !.count = @ + 1, !.times = Prepend(t, @)]]

NewRecord(pid, name, t) ==
  [pid |-> pid, name |-> Cut[name], count |-> 1, times |-> << t >>]

(* There is room: the used slots move down by one and slot 1 is filled. *)
MovedDown(j) ==
  [i \in Slots |-> IF i \in 2..(j.recCount + 1) THEN j.slots[i-1] ELSE j.slots[i]]

(* Mutants of InsertRecord: nothing moves, or count or last_count of the   *)
(* slot is used as it is.                                                  *)
InsertRecordOnTop(j, r) ==
  [j EXCEPT !.recCount = @ + 1, !.slots[1] = r]
InsertRecordStale(j, r) ==
  [j EXCEPT !.recCount = @ + 1,
            !.slots = [MovedDown(j) EXCEPT ![1] = [r EXCEPT !.count = j.slots[1].count + 1]]]
InsertRecordKeepsTimes(j, r) ==
  [j EXCEPT !.recCount = @ + 1,
            !.slots = [MovedDown(j) EXCEPT
                         ![1] = [r EXCEPT !.times = Prepend(@[1], j.slots[1].times)]]]

InsertRecord(j, r) ==
  [j EXCEPT !.recCount = @ + 1, !.slots = [MovedDown(j) EXCEPT ![1] = r]]

OverwriteRecord(j, r) == [j EXCEPT !.slots[FindOldestCrashRecord(j)] = r]

(* Mutants of RecordCrash: a crash is counted only with a new record, or   *)
(* twice with a new record; the check for room is off by one.              *)
RecordCrashOnce(j, pid, name, t) ==
  LET i == FindCrashRecord(j, name)
  IN  IF i # 0 THEN TouchRecord(j, i, t)
      ELSE IF j.recCount < MaxRecs
      THEN InsertRecord([j EXCEPT !.count = @ + 1], NewRecord(pid, name, t))
      ELSE OverwriteRecord([j EXCEPT !.count = @ + 1], NewRecord(pid, name, t))
RecordCrashTwice(j, pid, name, t) ==
  LET i == FindCrashRecord(j, name)
  IN  IF i # 0 THEN TouchRecord([j EXCEPT !.count = @ + 1], i, t)
      ELSE IF j.recCount < MaxRecs
      THEN InsertRecord([j EXCEPT !.count = @ + 2], NewRecord(pid, name, t))
      ELSE OverwriteRecord([j EXCEPT !.count = @ + 2], NewRecord(pid, name, t))
RecordCrashNoRoom(j, pid, name, t) ==
  LET counted == [j EXCEPT !.count = @ + 1]
      i       == FindCrashRecord(j, name)
  IN  IF i # 0 THEN TouchRecord(counted, i, t)
      ELSE IF j.recCount <= MaxRecs THEN InsertRecord(counted, NewRecord(pid, name, t))
      ELSE OverwriteRecord(counted, NewRecord(pid, name, t))

(* record_crash_to_journal, between the read and the write. *)
RecordCrash(j, pid, name, t) ==
  LET counted == [j EXCEPT !.count = @ + 1]
      i       == FindCrashRecord(j, name)
      r       == NewRecord(pid, name, t)
  IN  IF i # 0 THEN TouchRecord(counted, i, t)
      ELSE IF j.recCount < MaxRecs THEN InsertRecord(counted, r)
      ELSE OverwriteRecord(counted, r)
=============================================================================
