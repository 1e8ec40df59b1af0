-------------------------- MODULE JournalDataProofs --------------------------
(***************************************************************************)
(* Proofs about the data of the journal: what accounting for a crash makes *)
(* of a journal in memory, and what read_crash_journal finds in a file of  *)
(* which write_crash_journal wrote all or a part.                          *)
(***************************************************************************)
EXTENDS JournalData, FiniteSetTheorems, SequenceTheorems, WellFoundedInduction, TLAPS

(* A journal in memory has its four fields and a natural count. *)
IsJournal(j) ==
  /\ j = [start |-> j.start, count |-> j.count,
          recCount |-> j.recCount, slots |-> j.slots]
  /\ j.count \in Nat

(* A file is a sequence, of whatever chunks it holds. *)
IsSequence(f) == f \in Seq({f[i] : i \in DOMAIN f})

----------------------------------------------------------------------------
(* There are n numbers from 1 to n. *)
LEMMA IntervalSize ==
  ASSUME NEW n \in Nat
  PROVE  IsFiniteSet(1..n) /\ Cardinality(1..n) = n
BY FS_Interval

(* A function on an initial segment of the naturals is a sequence. *)
LEMMA SegmentIsSequence ==
  ASSUME NEW n \in Nat, NEW f, f = [i \in 1..n |-> f[i]]
  PROVE  IsSequence(f) /\ Len(f) = n
<1>1. DOMAIN f = 1..n
  OBVIOUS
<1>2. f \in [1..n -> {f[i] : i \in 1..n}]
  OBVIOUS
<1>3. f \in Seq({f[i] : i \in 1..n})
  BY <1>2
<1> QED
  BY <1>1, <1>3 DEF IsSequence

(* Whatever the file holds, what is read is a journal whose total is that  *)
(* of a total line in the file, or 0.                                      *)
LEMMA ReadJournalResult ==
  ASSUME NEW f, IsSequence(f), NEW t, NEW S \in SUBSET Nat, 0 \in S,
         \A i \in 1..Len(f) : f[i].k = "total" => f[i].n \in S
  PROVE  /\ IsJournal(ReadJournal(f, t))
         /\ ReadJournal(f, t).count = ReadTotal(f)
         /\ ReadTotal(f) \in S
<1>2. HasTotal(f) => f[2].n \in S
  <2> SUFFICES ASSUME HasTotal(f) PROVE f[2].n \in S
    OBVIOUS
  <2>1. Len(f) \in Nat
    BY DEF IsSequence
  <2>2. Len(f) >= 2 /\ f[2].k = "total"
    BY DEF HasTotal
  <2>3. 2 \in 1..Len(f)
    BY <2>1, <2>2
  <2> QED
    BY <2>2, <2>3
<1>3. ReadTotal(f) \in S
  BY <1>2 DEF ReadTotal
<1>4. CASE HasTotal(f)
  <2>1. ReadJournal(f, t) = [start |-> f[1].t, count |-> ReadTotal(f),
                             recCount |-> ReadRecords(f).recCount,
                             slots |-> ReadRecords(f).slots]
    BY <1>4 DEF ReadJournal
  <2> QED
    BY <1>3, <2>1 DEF IsJournal
<1>5. CASE ~HasTotal(f)
  <2>1. ReadJournal(f, t) = [start |-> HeaderTime(f, t), count |-> 0, recCount |-> 0,
                             slots |-> [i \in Slots |-> BlankRecord]]
    BY <1>5 DEF ReadJournal, BlankJournal
  <2>2. ReadTotal(f) = 0
    BY <1>5 DEF ReadTotal
  <2> QED
    BY <1>3, <2>1, <2>2 DEF IsJournal
<1> QED
  BY <1>4, <1>5

(* Conversions move its times and leave the total as it is. *)
LEMMA ConvertedResult ==
  ASSUME NEW f, NEW t, NEW z, IsJournal(ReadJournal(f, t))
  PROVE  /\ IsJournal(Converted(f, t, z))
         /\ Converted(f, t, z).count = ReadJournal(f, t).count
<1>1. ASSUME NEW j, IsJournal(j), NEW s, NEW g, NEW k,
             k = [j EXCEPT !.start = s, !.slots = g]
      PROVE  k = [start |-> s, count |-> j.count, recCount |-> j.recCount, slots |-> g]
  BY <1>1 DEF IsJournal
<1> DEFINE j == ReadJournal(f, t)
           s == IF HasHeader(f) THEN Moved(j.start, z.start) ELSE j.start
           g == [i \in Slots |-> MovedTimes(j.slots[i], z.times[i])]
<1>2. Converted(f, t, z) = [j EXCEPT !.start = s, !.slots = g]
  BY DEF Converted
<1> HIDE DEF j, s, g
<1>3. IsJournal(j)
  BY DEF j
<1>4. Converted(f, t, z) =
        [start |-> s, count |-> j.count, recCount |-> j.recCount, slots |-> g]
  BY <1>1, <1>2, <1>3
<1>5. IsJournal(Converted(f, t, z)) /\ Converted(f, t, z).count = j.count
  BY <1>3, <1>4 DEF IsJournal
<1> QED
  BY <1>5 DEF j

(* So does a record taken from past the last line. *)
LEMMA StrayResult ==
  ASSUME NEW j, IsJournal(j), NEW i, NEW r, NEW complete
  PROVE  /\ IsJournal(WithStray(j, i, r, complete))
         /\ WithStray(j, i, r, complete).count = j.count
<1> DEFINE n == IF complete THEN j.recCount + 1 ELSE j.recCount
           g == [j.slots EXCEPT ![i] = r]
           w == WithStray(j, i, r, complete)
<1>1. w = [j EXCEPT !.slots = g, !.recCount = n]
  BY DEF WithStray
<1> HIDE DEF w, n, g
<1>2. w = [start |-> j.start, count |-> j.count, recCount |-> n, slots |-> g]
  BY <1>1 DEF IsJournal
<1>3. IsJournal(w) /\ w.count = j.count
  BY <1>2 DEF IsJournal
<1> QED
  BY <1>3 DEF w

(* Every member of Journals is a journal. *)
LEMMA JournalsAreJournals == \A j \in Journals : IsJournal(j)
BY DEF Journals, IsJournal

(* A chunk at the end of a file makes it longer by one. *)
LEMMA AppendIsSequence ==
  ASSUME NEW f, IsSequence(f), NEW c
  PROVE  /\ IsSequence(Append(f, c))
         /\ Len(Append(f, c)) = Len(f) + 1
         /\ Append(f, c)[Len(f) + 1] = c
         /\ \A i \in 1..Len(f) : Append(f, c)[i] = f[i]
<1> DEFINE S == {f[i] : i \in DOMAIN f} \cup {c}
<1>1. f \in Seq(S) /\ c \in S
  BY DEF IsSequence
<1> HIDE DEF S
<1>2. /\ Append(f, c) \in Seq(S)
      /\ Len(Append(f, c)) = Len(f) + 1
      /\ Append(f, c)[Len(f) + 1] = c
      /\ \A i \in 1..Len(f) : Append(f, c)[i] = f[i]
  BY <1>1, AppendProperties
<1> DEFINE x == Append(f, c)
<1>3. Len(f) + 1 \in Nat
  BY <1>1
<1>4. x = [i \in 1..(Len(f) + 1) |-> x[i]]
  <2> HIDE DEF x
  <2>1. x \in Seq(S) /\ Len(x) = Len(f) + 1
    BY <1>2 DEF x
  <2>2. x \in [1..Len(x) -> S]
    BY <2>1, LenProperties
  <2> QED
    BY <2>1, <2>2
<1> QED
  BY <1>2, <1>3, <1>4, SegmentIsSequence

(* Accounting for a crash makes the total greater by one. *)
LEMMA RecordCrashResult ==
  ASSUME NEW j, IsJournal(j), NEW pid, NEW name, NEW t
  PROVE  /\ IsJournal(RecordCrash(j, pid, name, t))
         /\ RecordCrash(j, pid, name, t).count = j.count + 1
<1> DEFINE c == [j EXCEPT !.count = @ + 1]
           r == NewRecord(pid, name, t)
<1>1. c = [start |-> j.start, count |-> j.count + 1,
           recCount |-> j.recCount, slots |-> j.slots]
  BY DEF IsJournal
<1>2. j.count + 1 \in Nat
  BY DEF IsJournal
<1> HIDE DEF c, r
<1>3. ASSUME NEW i
      PROVE  TouchRecord(c, i, t) =
               [start |-> j.start, count |-> j.count + 1, recCount |-> j.recCount,
                slots |-> TouchRecord(c, i, t).slots]
  BY <1>1 DEF TouchRecord
<1>4. InsertRecord(c, r) =
        [start |-> j.start, count |-> j.count + 1, recCount |-> j.recCount + 1,
         slots |-> InsertRecord(c, r).slots]
  <2> DEFINE s == [MovedDown(c) EXCEPT ![1] = r]
  <2>1. InsertRecord(c, r) = [c EXCEPT !.recCount = @ + 1, !.slots = s]
    BY DEF InsertRecord
  <2> HIDE DEF s
  <2>2. InsertRecord(c, r) = [start |-> j.start, count |-> j.count + 1,
                              recCount |-> j.recCount + 1, slots |-> s]
    BY <1>1, <2>1
  <2> QED
    BY <2>2
<1>5. OverwriteRecord(c, r) =
        [start |-> j.start, count |-> j.count + 1, recCount |-> j.recCount,
         slots |-> OverwriteRecord(c, r).slots]
  BY <1>1 DEF OverwriteRecord
<1>6. \/ \E i : RecordCrash(j, pid, name, t) = TouchRecord(c, i, t)
      \/ RecordCrash(j, pid, name, t) = InsertRecord(c, r)
      \/ RecordCrash(j, pid, name, t) = OverwriteRecord(c, r)
  BY DEF RecordCrash, c, r
<1> QED
  BY <1>2, <1>3, <1>4, <1>5, <1>6 DEF IsJournal

----------------------------------------------------------------------------
(***************************************************************************)
(* What is read of a file of which write_crash_journal wrote all or a      *)
(* part.                                                                   *)
(***************************************************************************)

(* The path of a program that the journal can hold: it is not empty, fits  *)
(* a record and has no blank.                                              *)
IsPlain(name) ==
  /\ name \in Texts \ {NoName, OtherText}
  /\ Cut[name] = name
  /\ Words[name] = << name >>

(* A journal in memory with a record for each of recCount programs. *)
IsTable(j) ==
  /\ IsJournal(j)
  /\ j.start \in Times
  /\ j.recCount \in 0..MaxRecs
  /\ j.slots \in [Slots -> Records]
  /\ \A i \in 1..j.recCount : IsPlain(j.slots[i].name) /\ Len(j.slots[i].times) <= MaxLast
  /\ \A i, k \in 1..j.recCount : j.slots[i].name = j.slots[k].name => i = k
  /\ \A i \in Slots : i > j.recCount => j.slots[i] = BlankRecord

(* Where the records of a journal, and what comes after them, are written. *)
Places(j) ==
  {p \in [1..(j.recCount + 1) -> Nat] :
     /\ p[1] = 3
     /\ \A r \in 1..j.recCount : p[r + 1] = p[r] + Len(j.slots[r].times) + 2}

(* The file is a beginning of the text of a journal, or all of it. *)
BeginsText(f, j, p) ==
  /\ IsSequence(f)
  /\ Len(f) < p[j.recCount + 1]
  /\ Len(f) >= 1 => f[1] = StartChunk(j.start)
  /\ Len(f) >= 2 => f[2] = TotalChunk(j.count)
  /\ \A r \in 1..j.recCount :
       /\ p[r] <= Len(f) => f[p[r]] = HeadChunk(j.slots[r])
       /\ \A q \in 1..Len(j.slots[r].times) :
            p[r] + q <= Len(f) => f[p[r] + q] = TimeChunk(j.slots[r].times[q])
       /\ p[r + 1] - 1 <= Len(f) => f[p[r + 1] - 1] = NewlineChunk

(* The heads that were written are those of the first m records. *)
HasBegun(f, j, p, m) ==
  /\ m \in 0..j.recCount
  /\ \A r \in 1..j.recCount : p[r] <= Len(f) <=> r <= m

(* A set of numbers that is not empty has a least one, which is its Min. *)
LEMMA LeastOf ==
  ASSUME NEW I \in SUBSET Nat, I # {}
  PROVE  Min(I) \in I /\ \A m \in I : Min(I) <= m
<1>1. PICK n \in I : \A m \in I : ~(<< m, n >> \in OpToRel(<, Nat))
  BY NatLessThanWellFounded, WFMin
<1>2. \A m \in I : n <= m
  <2> SUFFICES ASSUME NEW m \in I PROVE n <= m
    OBVIOUS
  <2>1. n \in Nat /\ m \in Nat
    OBVIOUS
  <2>2. ~(m < n)
    BY <1>1, <2>1 DEF OpToRel
  <2> QED
    BY <2>1, <2>2
<1> QED
  BY <1>2 DEF Min

(* The times the clock shows are times of the journal. *)
LEMMA ExactTimes ==
  ASSUME NEW t \in Nat
  PROVE  Exact(t) \in Times /\ Exact(t).at = t /\ Exact(t).off = 0
BY DEF Exact, Times

(* So is what is read where there is no time. *)
LEMMA NoTimeIsTime == NoTime \in Times
BY ExactTimes DEF NoTime, Junk

(* What the fields of a table's records are. *)
LEMMA TableFacts ==
  ASSUME NEW j, IsTable(j)
  PROVE  /\ j.recCount \in Nat /\ j.recCount <= MaxRecs /\ MaxRecs \in Nat \ {0}
         /\ \A i \in 1..j.recCount : i \in Slots
         /\ \A i \in Slots : /\ j.slots[i] \in Records
                             /\ j.slots[i].times \in Seq(Times)
                             /\ Len(j.slots[i].times) \in Nat
                             /\ j.slots[i].pid \in Nat /\ j.slots[i].count \in Nat
                             /\ j.slots[i].name \in Texts
<1>1. /\ j.recCount \in Nat /\ j.recCount <= MaxRecs /\ MaxRecs \in Nat \ {0}
      /\ \A i \in 1..j.recCount : i \in Slots
  BY BoundsAssumption DEF IsTable, Slots
<1>2. ASSUME NEW i \in Slots
      PROVE  /\ j.slots[i] \in Records
             /\ j.slots[i].times \in Seq(Times)
             /\ j.slots[i].pid \in Nat /\ j.slots[i].count \in Nat /\ j.slots[i].name \in Texts
  <2>1. j.slots[i] \in Records
    BY DEF IsTable
  <2> QED
    BY <2>1 DEF Records
<1> QED
  BY <1>1, <1>2

(* A journal in memory can be written. *)
LEMMA PlacesExist ==
  ASSUME NEW j, IsTable(j)
  PROVE  \E p : p \in Places(j)
<1> DEFINE len(r) == Len(j.slots[r].times)
           Fits(n, p) == /\ p \in [1..(n + 1) -> Nat] /\ p[1] = 3
                         /\ \A r \in 1..n : p[r + 1] = p[r] + len(r) + 2
           D == {n \in 0..j.recCount : ~\E p : Fits(n, p)}
<1>1. j.recCount \in Nat /\ \A r \in 1..j.recCount : len(r) \in Nat
  BY TableFacts
<1> HIDE DEF len
<1>2. D = {}
  <2> SUFFICES ASSUME D # {} PROVE FALSE
    OBVIOUS
  <2>1. D \in SUBSET Nat
    BY <1>1
  <2> DEFINE n == Min(D)
  <2> HIDE DEF D
  <2>2. n \in D /\ \A k \in D : n <= k
    BY <2>1, LeastOf
  <2> HIDE DEF n
  <2>3. n \in 0..j.recCount /\ n \in Nat
    BY <1>1, <2>2 DEF D
  <2>4. CASE n = 0
    <3>1. Fits(0, [i \in 1..1 |-> 3])
      OBVIOUS
    <3> QED
      BY <2>2, <2>4, <3>1 DEF D
  <2>5. CASE n # 0
    <3>1. n - 1 \in 0..j.recCount /\ n - 1 \notin D /\ n \in 1..j.recCount /\ (n - 1) + 1 = n
      BY <1>1, <2>2, <2>3, <2>5
    <3>2. PICK p : Fits(n - 1, p)
      BY <3>1 DEF D
    <3> DEFINE q == [i \in 1..(n + 1) |-> IF i = n + 1 THEN p[n] + len(n) + 2 ELSE p[i]]
    <3>3. p \in [1..n -> Nat] /\ p[1] = 3 /\ \A r \in 1..(n - 1) : p[r + 1] = p[r] + len(r) + 2
      BY <3>1, <3>2
    <3>4. len(n) \in Nat /\ n \in 1..n
      BY <1>1, <2>3, <3>1
    <3>5. q \in [1..(n + 1) -> Nat] /\ q[1] = 3
      BY <2>3, <2>5, <3>3, <3>4
    <3>6. ASSUME NEW r \in 1..n PROVE q[r + 1] = q[r] + len(r) + 2
      <4>1. CASE r = n
        BY <2>3, <3>4, <4>1
      <4>2. CASE r # n
        BY <2>3, <3>3, <4>2
      <4> QED
        BY <4>1, <4>2
    <3>7. Fits(n, q)
      BY <3>5, <3>6
    <3> QED
      BY <2>2, <3>7 DEF D
  <2> QED
    BY <2>4, <2>5
<1>3. j.recCount \in 0..j.recCount
  BY <1>1
<1>4. PICK p : Fits(j.recCount, p)
  BY <1>2, <1>3
<1>5. p \in Places(j)
  BY <1>4 DEF Places, len
<1> QED
  BY <1>5

(* Each record is written after those before it. *)
LEMMA PlacesAscend ==
  ASSUME NEW j, IsTable(j), NEW p \in Places(j)
  PROVE  /\ p[1] = 3
         /\ \A r \in 1..(j.recCount + 1) : p[r] \in Nat /\ p[r] >= 3
         /\ \A r \in 1..j.recCount :
              /\ p[r + 1] \in Nat
              /\ p[r + 1] = p[r] + Len(j.slots[r].times) + 2
              /\ Len(j.slots[r].times) \in Nat
              /\ \A k \in 1..(j.recCount + 1) : r < k => p[r + 1] <= p[k]
<1>1. /\ j.recCount \in Nat /\ p \in [1..(j.recCount + 1) -> Nat] /\ p[1] = 3
      /\ \A r \in 1..j.recCount : /\ p[r + 1] = p[r] + Len(j.slots[r].times) + 2
                                  /\ Len(j.slots[r].times) \in Nat
                                  /\ r + 1 \in 1..(j.recCount + 1)
                                  /\ r \in 1..(j.recCount + 1)
  <2>1. j.recCount \in Nat /\ \A r \in 1..j.recCount : Len(j.slots[r].times) \in Nat
    BY TableFacts
  <2>2. \A r \in 1..j.recCount : r + 1 \in 1..(j.recCount + 1) /\ r \in 1..(j.recCount + 1)
    BY <2>1
  <2> QED
    BY <2>1, <2>2 DEF Places
<1>2. ASSUME NEW r \in 1..j.recCount, NEW k \in 1..(j.recCount + 1), r < k
      PROVE  p[r + 1] <= p[k]
  <2> DEFINE D == {n \in 1..(j.recCount + 1) : r < n /\ ~(p[r + 1] <= p[n])}
  <2> SUFFICES ASSUME D # {} PROVE FALSE
    BY <1>2
  <2>1. D \in SUBSET Nat
    OBVIOUS
  <2> DEFINE n == Min(D)
  <2> HIDE DEF D
  <2>2. n \in D /\ \A i \in D : n <= i
    BY <2>1, LeastOf
  <2> HIDE DEF n
  <2>3. n \in 1..(j.recCount + 1) /\ r < n /\ ~(p[r + 1] <= p[n])
    BY <2>2 DEF D
  <2>4. n # r + 1
    BY <1>1, <2>3
  <2>5. /\ n - 1 \in 1..j.recCount /\ (n - 1) + 1 = n /\ r < n - 1
        /\ n - 1 \in 1..(j.recCount + 1) /\ ~(n <= n - 1)
    BY <1>1, <2>3, <2>4
  <2>6. p[r + 1] <= p[n - 1]
    BY <2>2, <2>5 DEF D
  <2>7. p[n] = p[n - 1] + Len(j.slots[n - 1].times) + 2 /\ Len(j.slots[n - 1].times) \in Nat
    BY <1>1, <2>5
  <2>8. p[n] \in Nat /\ p[n - 1] \in Nat /\ p[r + 1] \in Nat
    BY <1>1, <2>3, <2>5
  <2> DEFINE x == p[n]
             y == p[n - 1]
             z == p[r + 1]
             size == Len(j.slots[n - 1].times)
  <2>9. x = y + size + 2 /\ size \in Nat /\ x \in Nat /\ y \in Nat /\ z \in Nat /\ z <= y
    BY <2>6, <2>7, <2>8
  <2>10. ~(z <= x)
    BY <2>3
  <2> HIDE DEF x, y, z, size
  <2> QED
    BY <2>9, <2>10
<1>3. ASSUME NEW r \in 1..(j.recCount + 1) PROVE p[r] \in Nat /\ p[r] >= 3
  <2>1. CASE r = 1
    BY <1>1, <2>1
  <2>2. CASE r # 1
    <3>1. 1 \in 1..j.recCount /\ 1 < r
      BY <1>1, <2>2
    <3>2. p[1 + 1] <= p[r] /\ p[1 + 1] = 3 + Len(j.slots[1].times) + 2
      BY <1>1, <1>2, <3>1
    <3> QED
      BY <1>1, <3>1, <3>2
  <2> QED
    BY <2>1, <2>2
<1> QED
  BY <1>1, <1>2, <1>3

(* Every chunk after the header is of one of the records. *)
LEMMA ChunkOfRecord ==
  ASSUME NEW j, IsTable(j), NEW p \in Places(j), NEW f, BeginsText(f, j, p), NEW i \in 3..Len(f)
  PROVE  \E r \in 1..j.recCount :
           /\ p[r] <= i /\ i < p[r + 1]
           /\ i = p[r] => f[i] = HeadChunk(j.slots[r])
           /\ i > p[r] /\ i < p[r + 1] - 1 =>
                /\ i - p[r] \in 1..Len(j.slots[r].times)
                /\ f[i] = TimeChunk(j.slots[r].times[i - p[r]])
           /\ i = p[r + 1] - 1 => f[i] = NewlineChunk
<1>1. /\ j.recCount \in Nat /\ Len(f) \in Nat /\ Len(f) < p[j.recCount + 1]
      /\ i \in Nat /\ i >= 3 /\ i <= Len(f)
  BY TableFacts DEF BeginsText, IsSequence
<1> DEFINE D == {r \in 1..(j.recCount + 1) : i < p[r]}
<1>2. D \in SUBSET Nat /\ D # {}
  <2>1. j.recCount + 1 \in D
    BY <1>1, PlacesAscend
  <2> QED
    BY <2>1
<1> DEFINE n == Min(D)
<1> HIDE DEF D
<1>3. n \in D /\ \A r \in D : n <= r
  BY <1>2, LeastOf
<1> HIDE DEF n
<1>4. n \in 1..(j.recCount + 1) /\ i < p[n] /\ n # 1
  BY <1>1, <1>3, PlacesAscend DEF D
<1> DEFINE r == n - 1
<1>5. r \in 1..j.recCount /\ r \in 1..(j.recCount + 1) /\ r + 1 = n /\ ~(n <= r)
  BY <1>1, <1>4
<1>6. r \notin D
  BY <1>3, <1>5
<1>7. p[r] \in Nat /\ p[r] <= i /\ i < p[r + 1]
  BY <1>1, <1>4, <1>5, <1>6, PlacesAscend DEF D
<1> HIDE DEF r
<1>8. p[r + 1] = p[r] + Len(j.slots[r].times) + 2 /\ Len(j.slots[r].times) \in Nat
  BY <1>5, PlacesAscend
<1>9. i > p[r] /\ i < p[r + 1] - 1 =>
        i - p[r] \in 1..Len(j.slots[r].times) /\ p[r] + (i - p[r]) = i
  <2> DEFINE x == p[r]
             y == p[r + 1]
             size == Len(j.slots[r].times)
  <2>1. x \in Nat /\ size \in Nat /\ y = x + size + 2 /\ x <= i /\ i < y
    BY <1>7, <1>8
  <2> HIDE DEF x, y, size
  <2>2. i > x /\ i < y - 1 => i - x \in 1..size /\ x + (i - x) = i
    BY <1>1, <2>1
  <2> QED
    BY <2>2 DEF x, y, size
<1>10. /\ p[r] <= Len(f) => f[p[r]] = HeadChunk(j.slots[r])
       /\ \A q \in 1..Len(j.slots[r].times) :
            p[r] + q <= Len(f) => f[p[r] + q] = TimeChunk(j.slots[r].times[q])
       /\ p[r + 1] - 1 <= Len(f) => f[p[r + 1] - 1] = NewlineChunk
  BY <1>5 DEF BeginsText
<1>11. /\ i = p[r] => f[i] = HeadChunk(j.slots[r])
       /\ i = p[r + 1] - 1 => f[i] = NewlineChunk
  BY <1>1, <1>10
<1>12. i > p[r] /\ i < p[r + 1] - 1 => f[i] = TimeChunk(j.slots[r].times[i - p[r]])
  BY <1>1, <1>9, <1>10
<1> QED
  BY <1>5, <1>7, <1>9, <1>11, <1>12
(* A later record is written at a greater offset. *)
LEMMA PlacesRise ==
  ASSUME NEW j, IsTable(j), NEW p \in Places(j),
         NEW r \in 1..(j.recCount + 1), NEW k \in 1..(j.recCount + 1), r < k
  PROVE  p[r] < p[k]
<1>1. r \in 1..j.recCount
  BY TableFacts
<1> DEFINE x == p[r]
           y == p[r + 1]
           z == p[k]
           size == Len(j.slots[r].times)
<1>2. y = x + size + 2 /\ size \in Nat /\ y <= z
  BY <1>1, PlacesAscend
<1>3. x \in Nat /\ z \in Nat
  BY PlacesAscend
<1> HIDE DEF x, y, z, size
<1>4. x < z
  BY <1>2, <1>3
<1> QED
  BY <1>4 DEF x, z

(* The records whose head was written are the first ones. *)
LEMMA BegunExists ==
  ASSUME NEW j, IsTable(j), NEW p \in Places(j), NEW f, IsSequence(f)
  PROVE  \E m : HasBegun(f, j, p, m)
<1>1. j.recCount \in Nat /\ Len(f) \in Nat
  BY TableFacts DEF IsSequence
<1> DEFINE D == {r \in 1..j.recCount : ~(p[r] <= Len(f))}
<1>2. CASE D = {}
  <2>1. HasBegun(f, j, p, j.recCount)
    BY <1>1, <1>2 DEF HasBegun
  <2> QED
    BY <2>1
<1>3. CASE D # {}
  <2> DEFINE n == Min(D)
  <2>1. D \in SUBSET Nat
    OBVIOUS
  <2> HIDE DEF D
  <2>2. n \in D /\ \A r \in D : n <= r
    BY <1>3, <2>1, LeastOf
  <2> HIDE DEF n
  <2>3. n \in 1..j.recCount /\ ~(p[n] <= Len(f))
    BY <2>2 DEF D
  <2>4. ASSUME NEW r \in 1..j.recCount
        PROVE  p[r] <= Len(f) <=> r <= n - 1
    <3>1. n \in 1..(j.recCount + 1) /\ r \in 1..(j.recCount + 1)
      BY <1>1, <2>3
    <3>2. p[n] \in Nat /\ p[r] \in Nat
      BY <3>1, PlacesAscend
    <3>3. CASE r < n
      <4>1. r \notin D
        BY <1>1, <2>2, <2>3, <3>3
      <4> QED
        BY <2>3, <3>3, <4>1 DEF D
    <3>4. CASE r = n
      BY <2>3, <3>4
    <3>5. CASE n < r
      <4>1. p[n] < p[r]
        BY <3>1, <3>5, PlacesRise
      <4> QED
        BY <1>1, <2>3, <3>2, <3>5, <4>1
    <3> QED
      BY <2>3, <3>3, <3>4, <3>5
  <2>5. n - 1 \in 0..j.recCount
    BY <1>1, <2>3
  <2>6. HasBegun(f, j, p, n - 1)
    BY <2>4, <2>5 DEF HasBegun
  <2> QED
    BY <2>6
<1> QED
  BY <1>2, <1>3

(* The n-th of numbers that are listed in ascending order. *)
LEMMA NthOfAscending ==
  ASSUME NEW m \in Nat, NEW p, \A r \in 1..m : p[r] \in Nat,
         \A r, k \in 1..m : r < k => p[r] < p[k]
  PROVE  LET I == {p[r] : r \in 1..m}
         IN  /\ Cardinality(I) = m
             /\ \A n \in 1..m : Nth(I, n) = p[n]
<1> DEFINE First(n) == {p[r] : r \in 1..n}
           I == First(m)
<1>1. ASSUME NEW n \in 0..m PROVE Cardinality(First(n)) = n
  <2> DEFINE g == [r \in 1..n |-> p[r]]
  <2>1. IsFiniteSet(1..n) /\ Cardinality(1..n) = n
    BY IntervalSize
  <2>2. \A r, k \in 1..n : r # k => p[r] # p[k]
    <3> SUFFICES ASSUME NEW r \in 1..n, NEW k \in 1..n, r # k PROVE p[r] # p[k]
      OBVIOUS
    <3>1. r \in 1..m /\ k \in 1..m /\ p[r] \in Nat /\ p[k] \in Nat
      OBVIOUS
    <3>2. p[r] < p[k] \/ p[k] < p[r]
      BY <3>1
    <3> QED
      BY <3>1, <3>2
  <2>3. g \in Bijection(1..n, First(n))
    <3>1. g \in [1..n -> First(n)]
      OBVIOUS
    <3>2. \A r, k \in 1..n : g[r] = g[k] => r = k
      BY <2>2
    <3>3. \A x \in First(n) : \E r \in 1..n : g[r] = x
      OBVIOUS
    <3> HIDE DEF g, First
    <3> QED
      BY <3>1, <3>2, <3>3 DEF Bijection, Injection, Surjection, IsInjective
  <2>4. ExistsBijection(1..n, First(n))
    BY <2>3 DEF ExistsBijection
  <2> HIDE DEF First
  <2> QED
    BY <2>1, <2>4, FS_Bijection
<1>2. ASSUME NEW r \in 1..m
      PROVE  p[r] \in I /\ Cardinality({k \in I : k <= p[r]}) = r
  <2>1. {k \in I : k <= p[r]} = First(r)
    <3>1. ASSUME NEW k \in 1..m, p[k] <= p[r] PROVE k \in 1..r
      BY <3>1
    <3>2. ASSUME NEW k \in 1..r PROVE k \in 1..m /\ p[k] <= p[r]
      <4>1. k \in 1..m /\ (k < r \/ k = r)
        OBVIOUS
      <4> QED
        BY <4>1
    <3> QED
      BY <3>1, <3>2
  <2>2. r \in 0..m
    OBVIOUS
  <2> HIDE DEF First
  <2>3. Cardinality(First(r)) = r
    BY <1>1, <2>2
  <2> USE DEF First
  <2> QED
    BY <2>1, <2>3
<1>3. Cardinality(I) = m
  <2>1. m \in 0..m
    OBVIOUS
  <2> HIDE DEF First
  <2> QED
    BY <1>1, <2>1
<1>4. ASSUME NEW n \in 1..m PROVE Nth(I, n) = p[n]
  <2>1. ASSUME NEW i \in I, Cardinality({k \in I : k <= i}) = n
        PROVE  i = p[n]
    <3>1. PICK r \in 1..m : i = p[r]
      OBVIOUS
    <3> HIDE DEF I
    <3>2. r = n
      BY <1>2, <2>1, <3>1
    <3> QED
      BY <3>1, <3>2
  <2>2. p[n] \in I /\ Cardinality({k \in I : k <= p[n]}) = n
    BY <1>2
  <2> HIDE DEF I
  <2> QED
    BY <2>1, <2>2 DEF Nth
<1> QED
  BY <1>3, <1>4
(* How many times of a record are in the file. *)
TimesIn(f, j, p, r) ==
  IF p[r + 1] - 1 <= Len(f) THEN Len(j.slots[r].times) ELSE Len(f) - p[r]

(* The line of a record with the first n of its times. *)
LineOf(r, n) ==
  [i \in 1..(n + 1) |-> IF i = 1 THEN HeadChunk(r) ELSE TimeChunk(r.times[i - 1])]

(* A line starts where a record was begun. *)
LEMMA LinesBegin ==
  ASSUME NEW j, IsTable(j), NEW p \in Places(j), NEW f, BeginsText(f, j, p),
         NEW m, HasBegun(f, j, p, m)
  PROVE  Begins(f) = {p[r] : r \in 1..m}
<1>1. j.recCount \in Nat /\ Len(f) \in Nat /\ m \in 0..j.recCount
  BY TableFacts DEF BeginsText, IsSequence, HasBegun
<1>2. ASSUME NEW r \in 1..m PROVE p[r] \in Begins(f)
  <2>1. r \in 1..j.recCount /\ r \in 1..(j.recCount + 1) /\ r <= m
    BY <1>1
  <2>2. p[r] <= Len(f) /\ p[r] \in Nat /\ p[r] >= 3
    BY <2>1, PlacesAscend DEF HasBegun
  <2>3. f[p[r]] = HeadChunk(j.slots[r])
    BY <2>1, <2>2 DEF BeginsText
  <2>4. f[p[r]] # NewlineChunk
    <3>1. f[p[r]].k = "head"
      BY <2>3 DEF HeadChunk
    <3> QED
      BY <3>1 DEF NewlineChunk
  <2>5. p[r] = 3 \/ f[p[r] - 1] = NewlineChunk
    <3>1. CASE r = 1
      BY <3>1, PlacesAscend
    <3>2. CASE r # 1
      <4>1. r - 1 \in 1..j.recCount /\ (r - 1) + 1 = r
        BY <1>1, <2>1, <3>2
      <4>2. p[r] - 1 <= Len(f)
        BY <1>1, <2>2
      <4>3. p[(r - 1) + 1] - 1 <= Len(f) => f[p[(r - 1) + 1] - 1] = NewlineChunk
        BY <4>1 DEF BeginsText
      <4> QED
        BY <4>1, <4>2, <4>3
    <3> QED
      BY <3>1, <3>2
  <2> QED
    BY <1>1, <2>2, <2>4, <2>5 DEF Begins
<1>3. ASSUME NEW i \in Begins(f) PROVE \E r \in 1..m : i = p[r]
  <2>1. i \in 3..Len(f) /\ f[i] # NewlineChunk /\ (i = 3 \/ f[i - 1] = NewlineChunk)
    BY DEF Begins
  <2>2. PICK r \in 1..j.recCount :
          /\ p[r] <= i /\ i < p[r + 1]
          /\ i = p[r + 1] - 1 => f[i] = NewlineChunk
    BY <2>1, ChunkOfRecord
  <2> DEFINE x == p[r]
             y == p[r + 1]
             size == Len(j.slots[r].times)
  <2>3. r \in 1..(j.recCount + 1) /\ r + 1 \in 1..(j.recCount + 1)
    BY <1>1
  <2>4. x \in Nat /\ x >= 3 /\ y \in Nat /\ y = x + size + 2 /\ size \in Nat
    BY <2>3, PlacesAscend
  <2>5. x <= i /\ i < y - 1
    <3>1. x <= i /\ i < y /\ i # y - 1
      BY <2>1, <2>2
    <3> HIDE DEF x, y, size
    <3> QED
      BY <1>1, <2>1, <2>4, <3>1
  <2>6. i = x
    <3>1. CASE i = 3
      <4> HIDE DEF x, y, size
      <4> QED
        BY <2>4, <2>5, <3>1
    <3>2. CASE i # 3 /\ x < i
      <4>1. i - 1 \in 1..Len(f) /\ f[i - 1] = NewlineChunk
        BY <1>1, <2>1, <3>2
      <4>2. i - 1 = x \/ \E q \in 1..size : i - 1 = x + q
        <5> HIDE DEF x, y, size
        <5>1. i - 1 # x => (i - 1) - x \in 1..size /\ i - 1 = x + ((i - 1) - x)
          BY <1>1, <2>1, <2>4, <2>5, <3>2
        <5> QED
          BY <5>1
      <4>3. f[i - 1].k \in {"head", "time"}
        <5>1. /\ x <= Len(f) => f[x] = HeadChunk(j.slots[r])
              /\ \A q \in 1..size : x + q <= Len(f) => f[x + q] = TimeChunk(j.slots[r].times[q])
          BY DEF BeginsText
        <5>2. i - 1 <= Len(f)
          BY <1>1, <4>1
        <5>3. CASE i - 1 = x
          <6>1. f[i - 1] = HeadChunk(j.slots[r])
            BY <5>1, <5>2, <5>3
          <6> QED
            BY <6>1 DEF HeadChunk
        <5>4. CASE \E q \in 1..size : i - 1 = x + q
          <6>1. PICK q \in 1..size : i - 1 = x + q
            BY <5>4
          <6>2. f[i - 1] = TimeChunk(j.slots[r].times[q])
            BY <5>1, <5>2, <6>1
          <6> QED
            BY <6>2 DEF TimeChunk
        <5> QED
          BY <4>2, <5>3, <5>4
      <4> QED
        BY <4>1, <4>3 DEF NewlineChunk
    <3> QED
      <4> HIDE DEF x, y, size
      <4> QED
        BY <1>1, <2>1, <2>4, <2>5, <3>1, <3>2
  <2>7. r \in 1..m
    <3>1. p[r] <= Len(f)
      BY <2>1, <2>6
    <3>2. r <= m
      BY <3>1 DEF HasBegun
    <3> QED
      BY <1>1, <3>2
  <2> QED
    BY <2>6, <2>7
<1> QED
  BY <1>2, <1>3

(* The line that starts there is that of the record. *)
LEMMA LineOfRecord ==
  ASSUME NEW j, IsTable(j), NEW p \in Places(j), NEW f, BeginsText(f, j, p),
         NEW m, HasBegun(f, j, p, m), NEW r \in 1..m
  PROVE  /\ TimesIn(f, j, p, r) \in 0..Len(j.slots[r].times)
         /\ LineFrom(f, p[r]) = LineOf(j.slots[r], TimesIn(f, j, p, r))
<1> DEFINE x == p[r]
           y == p[r + 1]
           n == Len(f)
           size == Len(j.slots[r].times)
           T == TimesIn(f, j, p, r)
           end == SelectInSubSeq(f, x, n, LAMBDA chunk : chunk = NewlineChunk)
           E == IF end = 0 THEN n ELSE end - 1
           I == {i \in x..n : f[i] = NewlineChunk}
<1>1. r \in 1..j.recCount /\ r \in 1..(j.recCount + 1) /\ r <= m
  BY TableFacts DEF HasBegun
<1>2. x \in Nat /\ x >= 3 /\ size \in Nat /\ y = x + size + 2
  BY <1>1, PlacesAscend
<1>3. n \in Nat /\ x <= n /\ IsSequence(f)
  BY <1>1 DEF BeginsText, IsSequence, HasBegun
<1>4. /\ f[x] = HeadChunk(j.slots[r])
      /\ \A q \in 1..size : x + q <= n => f[x + q] = TimeChunk(j.slots[r].times[q])
      /\ y - 1 <= n => f[y - 1] = NewlineChunk
  BY <1>1, <1>3 DEF BeginsText
<1>5. T = IF y - 1 <= n THEN size ELSE n - x
  BY DEF TimesIn
<1> HIDE DEF T
<1>6. T \in 0..size /\ x + T <= n /\ (y - 1 <= n => y - 1 = x + T + 1) /\ T \in Nat
  <2> HIDE DEF x, y, n, size
  <2> QED
    BY <1>2, <1>3, <1>5
<1>7. ASSUME NEW q \in 1..T PROVE f[x + q] = TimeChunk(j.slots[r].times[q])
  <2>1. q \in 1..size /\ x + q <= n
    <3> HIDE DEF x, n, size
    <3> QED
      BY <1>2, <1>3, <1>6
  <2> QED
    BY <1>4, <2>1
<1>8. ASSUME NEW i \in x..(x + T) PROVE f[i] # NewlineChunk
  <2>1. i = x \/ (i - x \in 1..T /\ x + (i - x) = i)
    <3> HIDE DEF x
    <3> QED
      BY <1>2, <1>6
  <2>2. f[i].k \in {"head", "time"}
    <3>1. CASE i = x
      <4>1. f[i] = HeadChunk(j.slots[r])
        BY <1>4, <3>1
      <4> QED
        BY <4>1 DEF HeadChunk
    <3>2. CASE i - x \in 1..T /\ x + (i - x) = i
      <4>1. f[i] = TimeChunk(j.slots[r].times[i - x])
        BY <1>7, <3>2
      <4> QED
        BY <4>1 DEF TimeChunk
    <3> QED
      BY <2>1, <3>1, <3>2
  <2> QED
    BY <2>2 DEF NewlineChunk
<1>9. E = x + T
  <2>1. end = IF I # {} THEN Min(I) ELSE 0
    BY DEF SelectInSubSeq
  <2>2. ASSUME NEW i \in I PROVE i \in Nat /\ x + T < i /\ i <= n
    <3>1. i \in x..n /\ i \notin x..(x + T)
      BY <1>8
    <3> HIDE DEF x, n
    <3> QED
      BY <1>2, <1>3, <1>6, <3>1
  <2>3. CASE y - 1 <= n
    <3>1. x + T + 1 \in I
      <4>1. x + T + 1 \in x..n
        <5> HIDE DEF x, y, n, size
        <5> QED
          BY <1>2, <1>3, <1>6, <2>3
      <4>2. f[x + T + 1] = NewlineChunk
        BY <1>4, <1>6, <2>3
      <4> QED
        BY <4>1, <4>2
    <3>2. I \in SUBSET Nat
      BY <2>2
    <3> HIDE DEF I
    <3>3. Min(I) \in I /\ Min(I) <= x + T + 1
      BY <3>1, <3>2, LeastOf
    <3> DEFINE least == Min(I)
    <3>4. least \in Nat /\ x + T < least /\ least <= x + T + 1 /\ end = least
      BY <2>1, <2>2, <3>1, <3>3
    <3> HIDE DEF x, n, least, end
    <3> QED
      BY <1>2, <1>6, <3>4
  <2>4. CASE ~(y - 1 <= n)
    <3>1. T = n - x
      BY <1>5, <2>4
    <3>2. I = {}
      <4> SUFFICES ASSUME NEW i \in I PROVE FALSE
        OBVIOUS
      <4>1. i \in Nat /\ x + T < i /\ i <= n
        BY <2>2
      <4> HIDE DEF x, n, I
      <4> QED
        BY <1>2, <1>3, <3>1, <4>1
    <3>3. end = 0
      BY <2>1, <3>2
    <3> HIDE DEF x, n, end
    <3> QED
      BY <1>2, <1>3, <3>1, <3>3
  <2> QED
    BY <2>3, <2>4
<1>10. LineFrom(f, x) = SubSeq(f, x, x + T)
  <2>1. LineFrom(f, x) = SubSeq(f, x, E)
    BY DEF LineFrom
  <2> HIDE DEF E
  <2> QED
    BY <1>9, <2>1
<1>11. SubSeq(f, x, x + T) = [i \in 1..(T + 1) |-> f[x + i - 1]]
  <2>1. (x + T) - x + 1 = T + 1
    <3> HIDE DEF x
    <3> QED
      BY <1>2, <1>6
  <2>2. /\ SubSeq(f, x, x + T) = [i \in 1..(T + 1) |-> SubSeq(f, x, x + T)[i]]
        /\ \A i \in 1..(T + 1) : SubSeq(f, x, x + T)[i] = f[x + i - 1]
    <3> DEFINE y1 == x + T
    <3>1. y1 \in Nat /\ y1 <= n /\ x <= y1 /\ (y1 - x) + 1 = T + 1
      BY SMTT(30), <1>2, <1>6, <2>1
    <3> HIDE DEF x, y1
    <3>2. /\ SubSeq(f, x, y1) \in Seq({f[i] : i \in DOMAIN f})
          /\ Len(SubSeq(f, x, y1)) = T + 1
          /\ \A i \in 1..(T + 1) : SubSeq(f, x, y1)[i] = f[x + i - 1]
      <4>1. x \in Int /\ y1 \in Int /\ x <= y1 /\ y1 - x + 1 = T + 1
        BY <1>2, <3>1
      <4>2. \A i \in x..y1 : f[i] \in {f[k] : k \in DOMAIN f}
        BY SMTT(30), <1>2, <1>3, <3>1 DEF IsSequence
      <4> QED
        BY <4>1, <4>2, SubSeqProperties
    <3>3. SubSeq(f, x, y1) = [i \in 1..(T + 1) |-> SubSeq(f, x, y1)[i]]
      BY <3>2
    <3> QED
      BY <3>2, <3>3 DEF y1
  <2> QED
    BY <2>2
<1>12. ASSUME NEW i \in 1..(T + 1)
       PROVE  f[x + i - 1] = IF i = 1 THEN HeadChunk(j.slots[r]) ELSE TimeChunk(j.slots[r].times[i - 1])
  <2>1. CASE i = 1
    <3>1. x + i - 1 = x
      <4> HIDE DEF x
      <4> QED
        BY <1>2, <2>1
    <3> QED
      BY <1>4, <2>1, <3>1
  <2>2. CASE i # 1
    <3>1. i - 1 \in 1..T /\ x + i - 1 = x + (i - 1)
      <4> HIDE DEF x
      <4> QED
        BY <1>2, <1>6, <2>2
    <3> QED
      BY <1>7, <2>2, <3>1
  <2> QED
    BY <2>1, <2>2
<1>13. LineFrom(f, x) = LineOf(j.slots[r], T)
  BY <1>10, <1>11, <1>12 DEF LineOf
<1> QED
  BY <1>6, <1>13 DEF T
(* A sequence and the one without its last element. *)
LEMMA AddedToEnd ==
  ASSUME NEW k \in Nat, NEW g, g = [x \in 1..(k + 1) |-> g[x]]
  PROVE  [x \in 1..k |-> g[x]] \o << g[k + 1] >> = g
<1> DEFINE S == {g[x] : x \in 1..(k + 1)}
           h == [x \in 1..k |-> g[x]]
           one == << g[k + 1] >>
<1>1. \A x \in 1..(k + 1) : g[x] \in S
  OBVIOUS
<1>2. k + 1 \in 1..(k + 1)
  OBVIOUS
<1> HIDE DEF S
<1>3. h \in Seq(S) /\ Len(h) = k /\ one \in Seq(S) /\ Len(one) = 1 /\ one[1] = g[k + 1]
  <2>1. h \in [1..k -> S]
    BY <1>1
  <2>2. h \in Seq(S) /\ Len(h) = k
    <3> HIDE DEF h
    <3> QED
      BY <2>1
  <2>3. one \in Seq(S) /\ Len(one) = 1 /\ one[1] = g[k + 1]
    BY <1>1, <1>2
  <2> QED
    BY <2>2, <2>3
<1>4. \A x \in 1..k : h[x] = g[x]
  OBVIOUS
<1> HIDE DEF h, one
<1> DEFINE w == h \o one
<1>5. /\ w \in Seq(S) /\ Len(w) = Len(h) + Len(one)
      /\ \A x \in 1..(Len(h) + Len(one)) :
           w[x] = IF x <= Len(h) THEN h[x] ELSE one[x - Len(h)]
  BY <1>3, ConcatProperties
<1> HIDE DEF w
<1>6. w = [x \in 1..(k + 1) |-> w[x]]
  BY <1>3, <1>5
<1>7. \A x \in 1..(k + 1) : w[x] = g[x]
  <2> SUFFICES ASSUME NEW x \in 1..(k + 1) PROVE w[x] = g[x]
    OBVIOUS
  <2>1. CASE x \in 1..k
    <3>1. x \in 1..(Len(h) + Len(one)) /\ x <= Len(h)
      BY <1>3, <2>1
    <3>2. w[x] = h[x]
      BY <1>5, <3>1
    <3>3. h[x] = g[x]
      BY <1>4, <2>1
    <3> QED
      BY <3>2, <3>3
  <2>2. CASE x = k + 1
    BY <1>3, <1>5, <2>2
  <2> QED
    BY <2>1, <2>2
<1>8. w = g
  BY <1>6, <1>7
<1> QED
  BY <1>8 DEF w, h, one

(* F[i] is the first i of n sequences joined. *)
Folded(s, n, F) ==
  /\ n \in Nat \ {0} /\ Len(s) = n
  /\ F = [i \in 1..n |-> IF i = 1 THEN s[i] ELSE F[i - 1] \o s[i]]

(* What FlattenSeq of sequences is, from what each next one makes of it. *)
LEMMA FlattenedBy ==
  ASSUME NEW s, NEW n, NEW F, Folded(s, n, F)
  PROVE  FlattenSeq(s) = F[n]
<1> USE DEF Folded
<1> DEFINE P(f) == f = [i \in 1..Len(s) |-> IF i = 1 THEN s[i] ELSE f[i - 1] \o s[i]]
           G == CHOOSE f : P(f)
<1>1. FlattenSeq(s) = G[n]
  BY DEF FlattenSeq
<1>2. P(G)
  <2>1. P(F)
    OBVIOUS
  <2> HIDE DEF P
  <2> QED
    BY <2>1
<1> HIDE DEF G
<1> DEFINE D == {i \in 1..n : G[i] # F[i]}
<1>3. D = {}
  <2> SUFFICES ASSUME D # {} PROVE FALSE
    OBVIOUS
  <2>1. D \in SUBSET Nat
    OBVIOUS
  <2> HIDE DEF D
  <2> DEFINE i == Min(D)
  <2>2. i \in D /\ \A k \in D : i <= k
    BY <2>1, LeastOf
  <2> HIDE DEF i
  <2>3. i \in 1..n /\ G[i] # F[i]
    BY <2>2 DEF D
  <2>4. CASE i = 1
    BY <1>2, <2>3, <2>4
  <2>5. CASE i # 1
    <3>1. i - 1 \in 1..n /\ ~(i <= i - 1)
      BY <2>3, <2>5
    <3>2. G[i - 1] = F[i - 1]
      BY <2>2, <3>1 DEF D
    <3>3. \A f : P(f) => f[i] = f[i - 1] \o s[i]
      BY <2>3, <2>5
    <3>4. P(F)
      OBVIOUS
    <3> HIDE DEF P
    <3> QED
      BY <1>2, <2>3, <3>2, <3>3, <3>4
  <2> QED
    BY <2>4, <2>5
<1>4. n \in 1..n
  OBVIOUS
<1>5. G[n] = F[n]
  BY <1>3, <1>4
<1> QED
  BY <1>1, <1>5

(* The tokens of the line of a record. *)
RecordToken(r, x) ==
  IF x = 1 THEN NumToken(r.pid)
  ELSE IF x = 2 THEN TextToken(r.name)
  ELSE IF x = 3 THEN NumToken(r.count)
  ELSE TimeToken(r.times[x - 3])

(* The words of a line that was written up to its n-th time: the record's *)
(* pid, path and count, then n times.                                      *)
LEMMA LineTokens ==
  ASSUME NEW r \in Records, IsPlain(r.name), NEW n \in 0..Len(r.times)
  PROVE  Tokens(LineOf(r, n)) = [x \in 1..(n + 3) |-> RecordToken(r, x)]
<1> DEFINE line == LineOf(r, n)
           s == [i \in 1..Len(line) |-> ChunkTokens(line, i)]
           F == [i \in 1..(n + 1) |-> [x \in 1..(i + 2) |-> RecordToken(r, x)]]
<1>1. n \in Nat
  <2>1. Len(r.times) \in Nat
    BY DEF Records
  <2> QED
    BY <2>1
<1>2. line = [i \in 1..(n + 1) |-> line[i]]
  BY DEF LineOf
<1>3. line[1] = HeadChunk(r) /\ \A i \in 2..(n + 1) : line[i] = TimeChunk(r.times[i - 1])
  BY <1>1 DEF LineOf
<1> HIDE DEF line
<1>4. Len(line) = n + 1
  BY <1>1, <1>2, SegmentIsSequence
<1>5. ChunkTokens(line, 1) = [x \in 1..3 |-> RecordToken(r, x)]
  <2> DEFINE words == [k \in 1..Len(Words[r.name]) |-> TextToken(Words[r.name][k])]
             g2 == [x \in 1..2 |-> RecordToken(r, x)]
             g3 == [x \in 1..3 |-> RecordToken(r, x)]
  <2>1. ~(1 < Len(line) /\ line[1 + 1].k = "head")
    <3> SUFFICES ASSUME 1 < Len(line) PROVE line[1 + 1].k # "head"
      OBVIOUS
    <3>1. 2 \in 2..(n + 1)
      BY <1>1, <1>4
    <3>2. line[2] = TimeChunk(r.times[2 - 1])
      BY <1>3, <3>1
    <3>3. line[2].k = "time"
      BY <3>2 DEF TimeChunk
    <3> QED
      BY <3>3
  <2>2. words = << TextToken(r.name) >>
    <3>1. Words[r.name] = << r.name >>
      BY DEF IsPlain
    <3>2. words = [k \in 1..1 |-> TextToken(r.name)]
      BY <3>1
    <3> QED
      BY <3>2
  <2>3. line[1].k = "head" /\ line[1].pid = r.pid /\ line[1].name = r.name /\ line[1].count = r.count
    BY <1>3 DEF HeadChunk
  <2>4. ChunkTokens(line, 1) = << NumToken(r.pid) >> \o words \o << NumToken(r.count) >>
    BY <2>1, <2>3 DEF ChunkTokens
  <2> HIDE DEF words
  <2>5. << NumToken(r.pid) >> \o << TextToken(r.name) >> = g2
    <3>1. g2 = [x \in 1..(1 + 1) |-> g2[x]] /\ g2[1 + 1] = TextToken(r.name)
      BY DEF RecordToken
    <3>2. [x \in 1..1 |-> g2[x]] = << NumToken(r.pid) >>
      BY DEF RecordToken
    <3> HIDE DEF g2
    <3>3. [x \in 1..1 |-> g2[x]] \o << g2[1 + 1] >> = g2
      BY <3>1, AddedToEnd
    <3> QED
      BY <3>1, <3>2, <3>3
  <2>6. g2 \o << NumToken(r.count) >> = g3
    <3>1. g3 = [x \in 1..(2 + 1) |-> g3[x]] /\ g3[2 + 1] = NumToken(r.count)
      BY DEF RecordToken
    <3>2. [x \in 1..2 |-> g3[x]] = g2
      OBVIOUS
    <3> HIDE DEF g2, g3
    <3>3. [x \in 1..2 |-> g3[x]] \o << g3[2 + 1] >> = g3
      BY <3>1, AddedToEnd
    <3> QED
      BY <3>1, <3>2, <3>3
  <2> HIDE DEF g2
  <2> QED
    BY <2>2, <2>4, <2>5, <2>6
<1>6. ASSUME NEW i \in 2..(n + 1)
      PROVE  ChunkTokens(line, i) = << RecordToken(r, i + 2) >>
  <2>1. line[i] = TimeChunk(r.times[i - 1])
    BY <1>3
  <2>2. line[i].k = "time" /\ line[i].t = r.times[i - 1]
    BY <2>1 DEF TimeChunk
  <2>3. ChunkTokens(line, i) = << TimeToken(r.times[i - 1]) >>
    BY <2>2 DEF ChunkTokens
  <2>4. i + 2 # 1 /\ i + 2 # 2 /\ i + 2 # 3 /\ (i + 2) - 3 = i - 1
    BY <1>1
  <2> QED
    BY <2>3, <2>4 DEF RecordToken
<1>7. Len(s) = n + 1
  BY <1>1, <1>4
<1>8. ASSUME NEW i \in 1..(n + 1)
      PROVE  F[i] = IF i = 1 THEN s[i] ELSE F[i - 1] \o s[i]
  <2>1. CASE i = 1
    <3>1. s[1] = ChunkTokens(line, 1)
      BY <1>4, <2>1
    <3> QED
      BY <1>5, <2>1, <3>1
  <2>2. CASE i # 1
    <3> DEFINE g == [x \in 1..(i + 2) |-> RecordToken(r, x)]
               k == i + 1
    <3>1. i \in 2..(n + 1) /\ i - 1 \in 1..(n + 1) /\ (i - 1) + 2 = k /\ k + 1 = i + 2 /\ k \in Nat
      BY <1>1, <2>2
    <3>2. s[i] = << RecordToken(r, i + 2) >>
      BY <1>4, <1>6, <3>1
    <3>3. g = [x \in 1..(k + 1) |-> g[x]] /\ g[k + 1] = RecordToken(r, i + 2)
      BY <3>1
    <3>4. F[i - 1] = [x \in 1..k |-> g[x]]
      BY <3>1
    <3>5. F[i] = g
      OBVIOUS
    <3> HIDE DEF g, k, s, F
    <3>6. [x \in 1..k |-> g[x]] \o << g[k + 1] >> = g
      BY <3>1, <3>3, AddedToEnd
    <3> QED
      BY <2>2, <3>2, <3>3, <3>4, <3>5, <3>6
  <2> QED
    BY <2>1, <2>2
<1>9. F = [i \in 1..(n + 1) |-> IF i = 1 THEN s[i] ELSE F[i - 1] \o s[i]]
  <2>1. F = [i \in 1..(n + 1) |-> F[i]]
    OBVIOUS
  <2> HIDE DEF F, s
  <2> QED
    BY <1>8, <2>1
<1>10. Tokens(line) = FlattenSeq(s)
  BY DEF Tokens
<1>11. F[n + 1] = [x \in 1..(n + 3) |-> RecordToken(r, x)]
  BY <1>1
<1> HIDE DEF F, s
<1> DEFINE k == n + 1
<1>12. /\ k \in Nat \ {0} /\ Len(s) = k
       /\ F = [i \in 1..k |-> IF i = 1 THEN s[i] ELSE F[i - 1] \o s[i]]
  <2>1. k \in Nat \ {0}
    BY <1>1
  <2>2. F = [i \in 1..k |-> IF i = 1 THEN s[i] ELSE F[i - 1] \o s[i]]
    BY <1>9
  <2> QED
    BY <1>7, <2>1, <2>2
<1> HIDE DEF k
<1>13. FlattenSeq(s) = F[k]
  <2>1. Folded(s, k, F)
    BY <1>12 DEF Folded
  <2> QED
    BY <2>1, FlattenedBy
<1> QED
  BY <1>10, <1>11, <1>13 DEF line, k

(* A record with the first n of its times. *)
WithTimes(r, n) == [pid |-> r.pid, name |-> r.name, count |-> r.count,
                    times |-> [q \in 1..n |-> r.times[q]]]

(* read_record reads what write_crash_journal wrote of a record. *)
LEMMA LineIsRead ==
  ASSUME NEW r \in Records, IsPlain(r.name), Len(r.times) <= MaxLast, NEW n \in 0..Len(r.times)
  PROVE  /\ IsComplete(LineOf(r, n))
         /\ ReadRecord(LineOf(r, n)) = WithTimes(r, n)
<1> DEFINE line == LineOf(r, n)
           tok == Tokens(line)
<1>1. n \in Nat /\ n <= MaxLast /\ MaxLast \in Nat
  <2>1. Len(r.times) \in Nat
    BY DEF Records
  <2> QED
    BY <2>1, BoundsAssumption
<1>2. tok = [x \in 1..(n + 3) |-> RecordToken(r, x)]
  BY LineTokens
<1> HIDE DEF tok
<1>3. Len(tok) = n + 3
  BY <1>1, <1>2
<1>4. /\ AsNumber(tok[1]) = r.pid /\ AsName(tok[2]) = r.name /\ AsNumber(tok[3]) = r.count
      /\ \A q \in 1..n : AsTime(tok[q + 3]) = r.times[q]
  <2>1. tok[1] = NumToken(r.pid) /\ tok[2] = TextToken(r.name) /\ tok[3] = NumToken(r.count)
    <3>1. 1 \in 1..(n + 3) /\ 2 \in 1..(n + 3) /\ 3 \in 1..(n + 3)
      BY <1>1
    <3> QED
      BY <1>2, <3>1 DEF RecordToken
  <2>2. ASSUME NEW q \in 1..n PROVE tok[q + 3] = TimeToken(r.times[q])
    <3>1. /\ q + 3 \in 1..(n + 3) /\ (q + 3) - 3 = q
          /\ q + 3 # 1 /\ q + 3 # 2 /\ q + 3 # 3
      BY <1>1
    <3> QED
      BY <1>2, <3>1 DEF RecordToken
  <2>3. Cut[r.name] = r.name
    BY DEF IsPlain
  <2>4. \A v : AsNumber(NumToken(v)) = v /\ AsTime(TimeToken(v)) = v
    BY DEF AsNumber, AsTime, NumToken, TimeToken
  <2>5. AsName(TextToken(r.name)) = r.name
    BY <2>3 DEF AsName, TextToken
  <2> QED
    BY <2>1, <2>2, <2>4, <2>5
<1>5. (IF Len(tok) < 3 + MaxLast THEN Len(tok) ELSE 3 + MaxLast) - 3 = n
  BY <1>1, <1>3
<1>6. IsComplete(line)
  BY <1>1, <1>3 DEF IsComplete, tok
<1>7. Len(tok) >= 1 /\ Len(tok) >= 2 /\ Len(tok) >= 3
  BY <1>1, <1>3
<1>8. ReadRecord(line) =
        [pid |-> AsNumber(tok[1]), name |-> AsName(tok[2]), count |-> AsNumber(tok[3]),
         times |-> [q \in 1..n |-> AsTime(tok[q + 3])]]
  BY <1>5, <1>7 DEF ReadRecord, tok
<1>9. [q \in 1..n |-> AsTime(tok[q + 3])] = [q \in 1..n |-> r.times[q]]
  BY <1>4
<1> HIDE DEF line
<1>10. ReadRecord(line) = WithTimes(r, n)
  BY <1>4, <1>8, <1>9 DEF WithTimes
<1> QED
  BY <1>6, <1>10 DEF line
(* The records a reader finds. *)
Shown(f, j, p, m) ==
  [i \in Slots |-> IF i \in 1..m THEN WithTimes(j.slots[i], TimesIn(f, j, p, i))
                                 ELSE BlankRecord]

(* The records loop reads one record for each head that was written. *)
LEMMA RecordsAreRead ==
  ASSUME NEW j, IsTable(j), NEW p \in Places(j), NEW f, BeginsText(f, j, p),
         NEW m, HasBegun(f, j, p, m)
  PROVE  ReadRecords(f) = [recCount |-> m, slots |-> Shown(f, j, p, m)]
<1> DEFINE begins == Begins(f)
           lines == Lines(f)
           used == {i \in Slots : i <= Len(lines)}
           T(r) == TimesIn(f, j, p, r)
<1>1. m \in Nat /\ m <= MaxRecs /\ MaxRecs \in Nat /\ m <= j.recCount /\ j.recCount \in Nat
  BY TableFacts DEF HasBegun
<1>2. \A r \in 1..m : r \in 1..j.recCount /\ r \in 1..(j.recCount + 1) /\ r \in Slots
  BY <1>1 DEF Slots
<1>3. \A r \in 1..m : p[r] \in Nat
  BY <1>2, PlacesAscend
<1>4. \A r, k \in 1..m : r < k => p[r] < p[k]
  BY <1>2, PlacesRise
<1>5. begins = {p[r] : r \in 1..m}
  BY LinesBegin
<1> HIDE DEF begins
<1>6. Cardinality(begins) = m /\ \A n \in 1..m : Nth(begins, n) = p[n]
  <2> DEFINE I == {p[r] : r \in 1..m}
  <2>1. Cardinality(I) = m /\ \A n \in 1..m : Nth(I, n) = p[n]
    <3>1. m \in Nat
      BY <1>1
    <3> QED
      BY <1>3, <1>4, <3>1, NthOfAscending
  <2> HIDE DEF I
  <2>2. begins = I
    BY <1>5 DEF I
  <2> QED
    BY <2>1, <2>2
<1>7. lines = [n \in 1..m |-> LineFrom(f, p[n])]
  <2>1. lines = [n \in 1..Cardinality(begins) |-> LineFrom(f, Nth(begins, n))]
    BY DEF Lines, begins
  <2> QED
    BY <1>6, <2>1
<1> HIDE DEF lines
<1>8. Len(lines) = m /\ \A r \in 1..m : lines[r] = LineOf(j.slots[r], T(r))
  <2>1. lines = [n \in 1..m |-> lines[n]]
    BY <1>7
  <2>2. Len(lines) = m
    BY <1>1, <2>1, SegmentIsSequence
  <2>3. ASSUME NEW r \in 1..m PROVE lines[r] = LineOf(j.slots[r], T(r))
    BY <1>7, LineOfRecord
  <2> QED
    BY <2>2, <2>3
<1>9. used = 1..m
  BY <1>1, <1>8 DEF Slots
<1>10. ASSUME NEW r \in 1..m
       PROVE  IsComplete(lines[r]) /\ ReadRecord(lines[r]) = WithTimes(j.slots[r], T(r))
  <2>1. j.slots[r] \in Records /\ IsPlain(j.slots[r].name) /\ Len(j.slots[r].times) <= MaxLast
    BY <1>2, TableFacts DEF IsTable
  <2>2. T(r) \in 0..Len(j.slots[r].times)
    BY LineOfRecord
  <2> QED
    BY <1>8, <2>1, <2>2, LineIsRead
<1>11. Cardinality({i \in used : IsComplete(lines[i])}) = m
  <2>1. {i \in used : IsComplete(lines[i])} = 1..m
    BY <1>9, <1>10
  <2> QED
    BY <1>1, <2>1, IntervalSize
<1>12. [i \in Slots |-> IF i \in used THEN ReadRecord(lines[i]) ELSE BlankRecord] = Shown(f, j, p, m)
  BY <1>9, <1>10 DEF Shown
<1>13. ReadRecords(f) =
         [recCount |-> Cardinality({i \in used : IsComplete(lines[i])}),
          slots |-> [i \in Slots |-> IF i \in used THEN ReadRecord(lines[i]) ELSE BlankRecord]]
  BY DEF ReadRecords, lines
<1> HIDE DEF used
<1> QED
  BY <1>11, <1>12, <1>13

(* What a reader makes of a beginning of the text that has the header. *)
LEMMA BeginningIsRead ==
  ASSUME NEW j, IsTable(j), NEW p \in Places(j), NEW f, BeginsText(f, j, p),
         NEW m, HasBegun(f, j, p, m), Len(f) >= 2, NEW t
  PROVE  ReadJournal(f, t) = [start |-> j.start, count |-> j.count, recCount |-> m,
                              slots |-> Shown(f, j, p, m)]
<1>2. f[1] = StartChunk(j.start) /\ f[2] = TotalChunk(j.count)
  <2>1. Len(f) \in Nat
    BY DEF BeginsText, IsSequence
  <2> QED
    BY <2>1 DEF BeginsText
<1>3. f[1].k = "start" /\ f[1].t = j.start /\ f[2].k = "total" /\ f[2].n = j.count
  BY <1>2 DEF StartChunk, TotalChunk
<1>4. HasTotal(f)
  BY <1>3 DEF HasTotal
<1>5. ReadTotal(f) = j.count
  BY <1>3, <1>4 DEF ReadTotal
<1>6. ReadJournal(f, t) = [start |-> f[1].t, count |-> ReadTotal(f),
                           recCount |-> ReadRecords(f).recCount,
                           slots |-> ReadRecords(f).slots]
  BY <1>4 DEF ReadJournal
<1>7. ReadRecords(f) = [recCount |-> m, slots |-> Shown(f, j, p, m)]
  BY RecordsAreRead
<1> QED
  BY <1>3, <1>5, <1>6, <1>7

(* Without the header there is no more than a time to read. *)
LEMMA NoHeaderNoRecords ==
  ASSUME NEW j, IsTable(j), NEW p \in Places(j), NEW f, BeginsText(f, j, p),
         ~(Len(f) >= 2), NEW t
  PROVE  \E s \in {t, j.start} : ReadJournal(f, t) = BlankJournal(s)
<1>2. ~HasTotal(f)
  BY DEF HasTotal
<1>3. HeaderTime(f, t) \in {t, j.start}
  <2>1. CASE Len(f) = 0
    BY <2>1 DEF HeaderTime, HasHeader
  <2>2. CASE Len(f) # 0
    <3>1. Len(f) >= 1
      BY <2>2 DEF BeginsText, IsSequence
    <3>2. f[1] = StartChunk(j.start)
      BY <3>1 DEF BeginsText
    <3>3. f[1].k = "start" /\ f[1].t = j.start
      BY <3>2 DEF StartChunk
    <3> QED
      BY <2>2, <3>3 DEF HeaderTime
  <2> QED
    BY <2>1, <2>2
<1>4. ReadJournal(f, t) = [BlankJournal(t) EXCEPT !.start = HeaderTime(f, t)]
  BY <1>2 DEF ReadJournal
<1>5. ReadJournal(f, t) = BlankJournal(HeaderTime(f, t))
  BY <1>4 DEF BlankJournal
<1> QED
  BY <1>3, <1>5

(* A journal that was written to its end is read back as it was. *)
LEMMA WholeIsRead ==
  ASSUME NEW j, IsTable(j), NEW p \in Places(j), NEW f, BeginsText(f, j, p),
         Len(f) = p[j.recCount + 1] - 1, NEW t
  PROVE  ReadJournal(f, t) = j
<1> DEFINE m == j.recCount
<1>1. m \in Nat /\ m + 1 \in 1..(m + 1) /\ Len(f) \in Nat
  BY TableFacts DEF BeginsText, IsSequence
<1>2. p[m + 1] \in Nat /\ p[m + 1] >= 3
  BY <1>1, PlacesAscend
<1>3. ASSUME NEW r \in 1..m
      PROVE  /\ p[r] <= Len(f)
             /\ TimesIn(f, j, p, r) = Len(j.slots[r].times)
  <2>1. r \in 1..(m + 1) /\ r < m + 1
    BY <1>1
  <2>2. p[r] < p[m + 1] /\ p[r] \in Nat
    BY <1>1, <2>1, PlacesRise, PlacesAscend
  <2>3. p[r + 1] \in Nat /\ p[r + 1] <= p[m + 1]
    BY <1>1, <2>1, PlacesAscend
  <2> DEFINE x == p[r]
             y == p[r + 1]
             z == p[m + 1]
             n == Len(f)
  <2>4. x <= n /\ y - 1 <= n
    <3>1. x < z /\ x \in Nat /\ y \in Nat /\ y <= z /\ z \in Nat /\ n = z - 1
      BY <1>2, <2>2, <2>3
    <3> HIDE DEF x, y, z, n
    <3> QED
      BY <3>1
  <2> QED
    BY <2>4 DEF TimesIn
<1>4. HasBegun(f, j, p, m)
  <2>1. \A r \in 1..m : p[r] <= Len(f) <=> r <= m
    BY <1>3
  <2> QED
    BY <1>1, <2>1 DEF HasBegun
<1>5. Len(f) >= 2
  <2> DEFINE z == p[m + 1]
             n == Len(f)
  <2>1. z \in Nat /\ z >= 3 /\ n = z - 1
    BY <1>2
  <2> HIDE DEF z, n
  <2>2. n >= 2
    BY <2>1
  <2> QED
    BY <2>2 DEF n
<1>6. ReadJournal(f, t) = [start |-> j.start, count |-> j.count, recCount |-> m,
                           slots |-> Shown(f, j, p, m)]
  BY <1>4, <1>5, BeginningIsRead
<1>7. Shown(f, j, p, m) = j.slots
  <2>1. ASSUME NEW i \in Slots
        PROVE  Shown(f, j, p, m)[i] = j.slots[i]
    <3>1. CASE i \in 1..m
      <4> DEFINE s == j.slots[i]
                 n == Len(s.times)
      <4>1. s \in Records /\ s.times \in Seq(Times)
        BY TableFacts
      <4>2. TimesIn(f, j, p, i) = n
        BY <1>3, <3>1
      <4>3. [q \in 1..n |-> s.times[q]] = s.times
        <5> DEFINE times == s.times
        <5>1. times \in Seq(Times)
          BY <4>1
        <5> HIDE DEF times, s
        <5>2. [q \in 1..Len(times) |-> times[q]] = times
          BY <5>1
        <5> QED
          BY <5>2 DEF times
      <4>4. WithTimes(s, n) = s
        <5>1. s = [pid |-> s.pid, name |-> s.name, count |-> s.count, times |-> s.times]
          BY <4>1 DEF Records
        <5> HIDE DEF s, n
        <5> QED
          BY <4>3, <5>1 DEF WithTimes
      <4>5. Shown(f, j, p, m)[i] = WithTimes(s, TimesIn(f, j, p, i))
        BY <3>1 DEF Shown
      <4> QED
        BY <4>2, <4>4, <4>5
    <3>2. CASE i \notin 1..m
      <4>1. i > m
        BY <1>1, <3>2 DEF Slots
      <4>2. j.slots[i] = BlankRecord
        BY <4>1 DEF IsTable
      <4> QED
        BY <3>2, <4>2 DEF Shown
    <3> QED
      BY <3>1, <3>2
  <2>2. /\ Shown(f, j, p, m) = [i \in Slots |-> Shown(f, j, p, m)[i]]
        /\ j.slots = [i \in Slots |-> j.slots[i]]
    BY DEF Shown, IsTable
  <2> QED
    BY <2>1, <2>2
<1>8. j = [start |-> j.start, count |-> j.count, recCount |-> j.recCount, slots |-> j.slots]
  BY DEF IsTable, IsJournal
<1> QED
  BY <1>6, <1>7, <1>8
(* The journal a reader starts with when the file has no header. *)
LEMMA BlankIsTable ==
  ASSUME NEW s \in Times
  PROVE  IsTable(BlankJournal(s))
<1> DEFINE slots == [i \in Slots |-> BlankRecord]
           j == BlankJournal(s)
<1>1. j = [start |-> s, count |-> 0, recCount |-> 0, slots |-> slots]
  BY DEF BlankJournal
<1>2. BlankRecord \in Records
  <2>1. <<>> \in Seq(Times)
    OBVIOUS
  <2> QED
    BY <2>1, TextAssumption DEF BlankRecord, Records
<1>3. slots \in [Slots -> Records] /\ \A i \in Slots : slots[i] = BlankRecord
  BY <1>2
<1> HIDE DEF j, slots
<1>4. 0 \in 0..MaxRecs
  BY BoundsAssumption
<1> QED
  BY <1>1, <1>3, <1>4 DEF IsTable, IsJournal, j

(* The first n times of a record are a record's times. *)
LEMMA WithTimesFacts ==
  ASSUME NEW r \in Records, NEW n \in 0..Len(r.times)
  PROVE  /\ WithTimes(r, n) \in Records
         /\ Len(WithTimes(r, n).times) = n
         /\ \A q \in 1..n : WithTimes(r, n).times[q] = r.times[q]
         /\ WithTimes(r, n).pid = r.pid
         /\ WithTimes(r, n).name = r.name
         /\ WithTimes(r, n).count = r.count
<1> DEFINE first == [q \in 1..n |-> r.times[q]]
<1>1. r.pid \in Nat /\ r.name \in Texts /\ r.count \in Nat /\ r.times \in Seq(Times)
  BY DEF Records
<1>2. n \in Nat /\ \A q \in 1..n : r.times[q] \in Times
  BY <1>1
<1>3. first \in [1..n -> Times]
  BY <1>2
<1>4. WithTimes(r, n) = [pid |-> r.pid, name |-> r.name, count |-> r.count, times |-> first]
  BY DEF WithTimes
<1>5. \A q \in 1..n : first[q] = r.times[q]
  OBVIOUS
<1> HIDE DEF first
<1>6. first \in Seq(Times) /\ Len(first) = n
  BY <1>2, <1>3
<1> QED
  BY <1>1, <1>4, <1>5, <1>6 DEF Records

(* A journal r shows no more than the journal j: its records are the first *)
(* ones of j, each with its first times.                                   *)
ShowsPart(r, j) ==
  /\ IsTable(r)
  /\ r.recCount <= j.recCount
  /\ \A i \in 1..r.recCount :
       /\ r.slots[i].name = j.slots[i].name
       /\ r.slots[i].pid = j.slots[i].pid
       /\ r.slots[i].count = j.slots[i].count
       /\ Len(r.slots[i].times) <= Len(j.slots[i].times)
       /\ \A q \in 1..Len(r.slots[i].times) : r.slots[i].times[q] = j.slots[i].times[q]

(* A file that was written in part is read as a part of the journal.       *)
LEMMA PartIsRead ==
  ASSUME NEW j, IsTable(j), NEW p \in Places(j), NEW f, BeginsText(f, j, p), NEW t \in Times
  PROVE  ShowsPart(ReadJournal(f, t), j)
<1>1. CASE ~(Len(f) >= 2)
  <2>1. PICK s \in {t, j.start} : ReadJournal(f, t) = BlankJournal(s)
    BY <1>1, NoHeaderNoRecords
  <2>2. s \in Times
    BY DEF IsTable
  <2>3. IsTable(BlankJournal(s)) /\ BlankJournal(s).recCount = 0
    BY <2>2, BlankIsTable DEF BlankJournal
  <2>4. j.recCount \in Nat
    BY TableFacts
  <2> QED
    BY <2>1, <2>3, <2>4 DEF ShowsPart
<1>2. CASE Len(f) >= 2
  <2>1. PICK m : HasBegun(f, j, p, m)
    BY BegunExists DEF BeginsText
  <2> DEFINE r == ReadJournal(f, t)
             slots == Shown(f, j, p, m)
             T(i) == TimesIn(f, j, p, i)
  <2>2. r = [start |-> j.start, count |-> j.count, recCount |-> m, slots |-> slots]
    BY <1>2, <2>1, BeginningIsRead
  <2>3. m \in 0..MaxRecs /\ m \in Nat /\ m <= j.recCount
    BY <2>1, TableFacts DEF HasBegun
  <2>4. ASSUME NEW i \in 1..m
        PROVE  /\ i \in 1..j.recCount /\ i \in Slots
               /\ j.slots[i] \in Records
               /\ T(i) \in 0..Len(j.slots[i].times)
               /\ slots[i] = WithTimes(j.slots[i], T(i))
    <3>1. i \in 1..j.recCount
      BY <2>3, TableFacts
    <3>2. i \in Slots
      BY <3>1, TableFacts
    <3>3. j.slots[i] \in Records
      BY <3>2, TableFacts
    <3>4. T(i) \in 0..Len(j.slots[i].times)
      BY <2>1, LineOfRecord
    <3>5. slots[i] = WithTimes(j.slots[i], T(i))
      BY <3>2 DEF Shown
    <3> QED
      BY <3>1, <3>2, <3>3, <3>4, <3>5
  <2>5. \A i \in Slots : i \notin 1..m => slots[i] = BlankRecord
    BY DEF Shown
  <2>6. slots = [i \in Slots |-> slots[i]]
    BY DEF Shown
  <2> HIDE DEF slots, T, r
  <2>7. ASSUME NEW i \in 1..m
        PROVE  /\ slots[i] \in Records
               /\ slots[i].name = j.slots[i].name
               /\ slots[i].pid = j.slots[i].pid
               /\ slots[i].count = j.slots[i].count
               /\ Len(slots[i].times) <= Len(j.slots[i].times)
               /\ \A q \in 1..Len(slots[i].times) : slots[i].times[q] = j.slots[i].times[q]
               /\ IsPlain(slots[i].name) /\ Len(slots[i].times) <= MaxLast
    <3> DEFINE s == j.slots[i]
               w == slots[i]
               n == T(i)
               size == Len(s.times)
    <3>1. s \in Records /\ n \in 0..size /\ w = WithTimes(s, n)
      BY <2>4
    <3>2. IsPlain(s.name) /\ size <= MaxLast /\ size \in Nat /\ MaxLast \in Nat
      BY <2>4, TableFacts, BoundsAssumption DEF IsTable
    <3>3. /\ w \in Records
          /\ Len(w.times) = n
          /\ \A q \in 1..n : w.times[q] = s.times[q]
          /\ w.pid = s.pid /\ w.name = s.name /\ w.count = s.count
      <4> HIDE DEF s, n, w
      <4> QED
        BY <3>1, WithTimesFacts DEF size
    <3>4. n <= size /\ n <= MaxLast
      <4> HIDE DEF n, size
      <4> QED
        BY <3>1, <3>2
    <3> QED
      BY <3>2, <3>3, <3>4
  <2>8. slots \in [Slots -> Records]
    <3>1. BlankRecord \in Records
      <4>1. BlankRecord = BlankJournal(NoTime).slots[1] /\ 1 \in Slots
        BY BoundsAssumption DEF BlankJournal, Slots
      <4>2. IsTable(BlankJournal(NoTime))
        BY BlankIsTable, NoTimeIsTime
      <4> QED
        BY <4>1, <4>2, TableFacts
    <3>2. \A i \in Slots : slots[i] \in Records
      BY <2>5, <2>7, <3>1
    <3> QED
      BY <2>6, <3>2
  <2>9. IsTable(r)
    <3>1. IsJournal(r)
      BY <2>2 DEF IsJournal, IsTable
    <3>2. r.start = j.start /\ r.recCount = m /\ r.slots = slots
      BY <2>2
    <3>3. j.start \in Times
      BY DEF IsTable
    <3>4. \A i, k \in 1..m : slots[i].name = slots[k].name => i = k
      <4> SUFFICES ASSUME NEW i \in 1..m, NEW k \in 1..m, slots[i].name = slots[k].name
                   PROVE  i = k
        OBVIOUS
      <4>1. i \in 1..j.recCount /\ k \in 1..j.recCount /\ j.slots[i].name = j.slots[k].name
        BY <2>4, <2>7
      <4> QED
        BY <4>1 DEF IsTable
    <3>5. \A i \in Slots : i > m => slots[i] = BlankRecord
      BY <2>3, <2>5 DEF Slots
    <3>6. \A i \in 1..m : IsPlain(slots[i].name) /\ Len(slots[i].times) <= MaxLast
      BY <2>7
    <3> QED
      BY <2>3, <2>8, <3>1, <3>2, <3>3, <3>4, <3>5, <3>6 DEF IsTable
  <2>10. r.recCount = m /\ r.slots = slots
    BY <2>2
  <2> QED
    BY <2>3, <2>7, <2>9, <2>10 DEF ShowsPart, r
<1> QED
  BY <1>1, <1>2
----------------------------------------------------------------------------
(***************************************************************************)
(* What record_crash_to_journal makes of a journal in memory.              *)
(***************************************************************************)

(* find_crash_record finds the record of a program if there is one: no     *)
(* unused slot has its name.                                               *)
LEMMA RecordIsFound ==
  ASSUME NEW j, IsTable(j), NEW name, IsPlain(name)
  PROVE  LET i == FindCrashRecord(j, name)
         IN  \/ i \in 1..j.recCount /\ i # 0 /\ j.slots[i].name = name
             \/ i = 0 /\ \A k \in 1..j.recCount : j.slots[k].name # name
<1> DEFINE I == {i \in 1..Len(j.slots) : j.slots[i].name = name}
           i == FindCrashRecord(j, name)
<1>1. i = IF I # {} THEN Min(I) ELSE 0
  BY DEF FindCrashRecord, SelectInSeq
<1>2. Len(j.slots) = MaxRecs /\ MaxRecs \in Nat /\ j.recCount \in Nat /\ j.recCount <= MaxRecs
  <2>1. MaxRecs \in Nat /\ j.recCount \in Nat /\ j.recCount <= MaxRecs
    BY TableFacts
  <2>2. j.slots = [k \in 1..MaxRecs |-> j.slots[k]]
    BY DEF IsTable, Slots
  <2> QED
    BY <2>1, <2>2, SegmentIsSequence
<1>3. ASSUME NEW k \in I PROVE k \in 1..j.recCount
  <2>1. k \in Slots /\ k \in Nat
    BY <1>2 DEF Slots
  <2>2. CASE k > j.recCount
    <3>1. j.slots[k] = BlankRecord
      BY <2>1, <2>2 DEF IsTable
    <3>2. name = NoName
      BY <3>1 DEF BlankRecord
    <3> QED
      BY <3>2 DEF IsPlain
  <2> QED
    BY <1>2, <2>1, <2>2 DEF Slots
<1>4. I \in SUBSET Nat
  OBVIOUS
<1>5. \A k \in 1..j.recCount : j.slots[k].name = name => k \in I
  BY <1>2
<1>6. \A k \in I : j.slots[k].name = name
  OBVIOUS
<1> HIDE DEF I, i
<1>7. CASE I = {}
  BY <1>1, <1>5, <1>7 DEF i
<1>8. CASE I # {}
  <2>1. i \in I
    BY <1>1, <1>4, <1>8, LeastOf
  <2> QED
    BY <1>2, <1>3, <1>6, <2>1 DEF i
<1> QED
  BY <1>7, <1>8

(* The new time comes first, the oldest one is dropped if there is no room *)
LEMMA PrependResult ==
  ASSUME NEW times \in Seq(Times), Len(times) <= MaxLast, NEW t \in Times
  PROVE  LET new == Prepend(t, times)
         IN  /\ new \in Seq(Times)
             /\ Len(new) = (IF Len(times) < MaxLast THEN Len(times) + 1 ELSE MaxLast)
             /\ new[1] = t
             /\ \A q \in 2..Len(new) : q - 1 \in 1..Len(times) /\ new[q] = times[q - 1]
<1> DEFINE n == Len(times)
           k == IF n < MaxLast THEN n + 1 ELSE MaxLast
           new == Prepend(t, times)
<1>1. n \in Nat /\ MaxLast \in Nat \ {0} /\ n <= MaxLast
  BY BoundsAssumption
<1>2. new = [i \in 1..k |-> IF i = 1 THEN t ELSE times[i - 1]]
  BY DEF Prepend
<1>3. \A i \in 1..n : times[i] \in Times
  OBVIOUS
<1> HIDE DEF n, k, new
<1>4. k \in Nat \ {0} /\ \A i \in 2..k : i - 1 \in 1..n
  BY <1>1 DEF k
<1>5. new \in [1..k -> Times]
  BY <1>2, <1>3, <1>4
<1>6. new \in Seq(Times) /\ Len(new) = k
  BY <1>4, <1>5
<1>7. new[1] = t /\ \A q \in 2..k : new[q] = times[q - 1]
  BY <1>2, <1>4
<1> QED
  BY <1>4, <1>6, <1>7 DEF n, k, new

(* The record of a program after one more crash. *)
Again(r, t) == [pid |-> r.pid, name |-> r.name, count |-> r.count + 1,
                times |-> Prepend(t, r.times)]

(* The three things that can happen to the records of a journal. *)
IsTouched(j, g, i, t) ==
  /\ i \in 1..j.recCount
  /\ g.recCount = j.recCount
  /\ g.slots[i] = Again(j.slots[i], t)
  /\ \A k \in Slots \ {i} : g.slots[k] = j.slots[k]

IsInserted(j, g, r) ==
  /\ j.recCount < MaxRecs
  /\ g.recCount = j.recCount + 1
  /\ g.slots[1] = r
  /\ \A k \in 1..j.recCount : g.slots[k + 1] = j.slots[k]
  /\ \A k \in Slots : k > j.recCount + 1 => g.slots[k] = j.slots[k]

IsOverwritten(j, g, r) ==
  /\ j.recCount = MaxRecs
  /\ g.recCount = MaxRecs
  /\ g.slots[MaxRecs] = r
  /\ \A k \in Slots \ {MaxRecs} : g.slots[k] = j.slots[k]

Unnamed(j, name) == \A k \in 1..j.recCount : j.slots[k].name # name

(* Which of them happens. *)
LEMMA CrashIsRecorded ==
  ASSUME NEW j, IsTable(j), NEW name, IsPlain(name), NEW pid, NEW t
  PROVE  LET g == RecordCrash(j, pid, name, t)
             r == NewRecord(pid, name, t)
         IN  /\ g = [start |-> j.start, count |-> j.count + 1,
                     recCount |-> g.recCount, slots |-> g.slots]
             /\ g.slots = [i \in Slots |-> g.slots[i]]
             /\ \/ \E i \in 1..j.recCount : j.slots[i].name = name /\ IsTouched(j, g, i, t)
                \/ Unnamed(j, name) /\ (IsInserted(j, g, r) \/ IsOverwritten(j, g, r))
<1> DEFINE c == [j EXCEPT !.count = @ + 1]
           g == RecordCrash(j, pid, name, t)
           r == NewRecord(pid, name, t)
           i == FindCrashRecord(j, name)
<1>1. c = [start |-> j.start, count |-> j.count + 1,
           recCount |-> j.recCount, slots |-> j.slots]
  BY DEF IsTable, IsJournal
<1>2. /\ j.recCount \in Nat /\ MaxRecs \in Nat \ {0} /\ j.recCount <= MaxRecs
      /\ \A k \in 1..j.recCount : k \in Slots
      /\ j.slots = [k \in Slots |-> j.slots[k]]
  BY TableFacts DEF IsTable
<1>3. \/ i \in 1..j.recCount /\ i # 0 /\ j.slots[i].name = name
      \/ i = 0 /\ Unnamed(j, name)
  BY RecordIsFound DEF Unnamed
<1>4. g = IF i # 0 THEN TouchRecord(c, i, t)
          ELSE IF j.recCount < MaxRecs THEN InsertRecord(c, r)
          ELSE OverwriteRecord(c, r)
  BY DEF RecordCrash
<1> HIDE DEF c, g, r, i
<1>5. CASE i # 0
  <2> DEFINE s == [j.slots EXCEPT ![i] = [j.slots[i] EXCEPT !.count = @ + 1, !.times = Prepend(t, @)]]
             a == [j.slots[i] EXCEPT !.count = @ + 1, !.times = Prepend(t, @)]
  <2>1. i \in 1..j.recCount /\ j.slots[i].name = name /\ i \in Slots
    BY <1>2, <1>3, <1>5
  <2>2. g = [start |-> j.start, count |-> j.count + 1, recCount |-> j.recCount, slots |-> s]
    BY <1>1, <1>4, <1>5 DEF TouchRecord
  <2>3. a = Again(j.slots[i], t)
    <3> DEFINE x == j.slots[i]
    <3>1. x = [pid |-> x.pid, name |-> x.name, count |-> x.count, times |-> x.times]
      BY <2>1, TableFacts DEF Records
    <3> HIDE DEF x
    <3>2. [x EXCEPT !.count = @ + 1, !.times = Prepend(t, @)] = Again(x, t)
      <4> DEFINE u == x.pid
                 v == x.name
                 y == x.count
                 z == x.times
                 y1 == y + 1
                 z1 == Prepend(t, z)
      <4>1. x = [pid |-> u, name |-> v, count |-> y, times |-> z]
        BY <3>1
      <4>2. [x EXCEPT !.count = @ + 1, !.times = Prepend(t, @)] = [x EXCEPT !.count = y1, !.times = z1]
        OBVIOUS
      <4>3. Again(x, t) = [pid |-> u, name |-> v, count |-> y1, times |-> z1]
        BY DEF Again
      <4> HIDE DEF u, v, y, z, y1, z1
      <4>4. [x EXCEPT !.count = y1, !.times = z1] = [pid |-> u, name |-> v, count |-> y1, times |-> z1]
        <5> DEFINE w == [x EXCEPT !.count = y1, !.times = z1]
        <5>1. w \in [pid : {u}, name : {v}, count : {y1}, times : {z1}]
          BY <4>1
        <5> HIDE DEF w
        <5>2. w = [pid |-> u, name |-> v, count |-> y1, times |-> z1]
          BY <5>1
        <5> QED
          BY <5>2 DEF w
      <4> QED
        BY <4>2, <4>3, <4>4
    <3> QED
      BY <3>2 DEF x
  <2>4. s = [k \in Slots |-> IF k = i THEN a ELSE j.slots[k]]
    BY <1>2, <2>1
  <2> HIDE DEF s, a
  <2>5. IsTouched(j, g, i, t)
    BY <2>1, <2>2, <2>3, <2>4 DEF IsTouched
  <2> QED
    BY <2>1, <2>2, <2>4, <2>5 DEF g, i, r
<1>6. CASE i = 0 /\ j.recCount < MaxRecs
  <2> DEFINE s == [k \in Slots |-> IF k = 1 THEN r
                                   ELSE IF k \in 2..(j.recCount + 1) THEN j.slots[k - 1]
                                   ELSE j.slots[k]]
  <2>1. MovedDown(c) = [k \in Slots |-> IF k \in 2..(j.recCount + 1) THEN j.slots[k - 1]
                                        ELSE j.slots[k]]
    BY <1>1 DEF MovedDown
  <2>2. 1 \in Slots
    BY <1>2 DEF Slots
  <2>3. [MovedDown(c) EXCEPT ![1] = r] = s
    BY <2>1, <2>2
  <2>4. g = [c EXCEPT !.recCount = @ + 1, !.slots = s]
    BY <1>4, <1>6, <2>3 DEF InsertRecord
  <2>5. /\ s = [k \in Slots |-> s[k]] /\ s[1] = r
        /\ \A k \in 1..j.recCount : s[k + 1] = j.slots[k]
        /\ \A k \in Slots : k > j.recCount + 1 => s[k] = j.slots[k]
    <3>1. ASSUME NEW k \in 1..j.recCount PROVE s[k + 1] = j.slots[k]
      <4>1. k + 1 \in Slots /\ k + 1 # 1 /\ k + 1 \in 2..(j.recCount + 1) /\ (k + 1) - 1 = k
        BY <1>2, <1>6 DEF Slots
      <4> QED
        BY <4>1
    <3>2. ASSUME NEW k \in Slots, k > j.recCount + 1 PROVE s[k] = j.slots[k]
      <4>1. k # 1 /\ k \notin 2..(j.recCount + 1)
        BY <1>2, <3>2 DEF Slots
      <4> QED
        BY <4>1
    <3> QED
      BY <2>2, <3>1, <3>2
  <2> HIDE DEF s
  <2>6. g = [start |-> j.start, count |-> j.count + 1, recCount |-> j.recCount + 1, slots |-> s]
    BY <1>1, <2>4
  <2>7. IsInserted(j, g, r)
    BY <1>6, <2>5, <2>6 DEF IsInserted
  <2> QED
    BY <1>3, <1>6, <2>5, <2>6, <2>7 DEF g, i, r
<1>7. CASE i = 0 /\ ~(j.recCount < MaxRecs)
  <2> DEFINE s == [j.slots EXCEPT ![MaxRecs] = r]
  <2>1. j.recCount = MaxRecs /\ MaxRecs \in Slots
    BY <1>2, <1>7 DEF Slots
  <2>2. g = [start |-> j.start, count |-> j.count + 1, recCount |-> j.recCount, slots |-> s]
    BY <1>1, <1>4, <1>7 DEF OverwriteRecord, FindOldestCrashRecord
  <2>3. s = [k \in Slots |-> IF k = MaxRecs THEN r ELSE j.slots[k]]
    BY <1>2, <2>1
  <2> HIDE DEF s
  <2>4. IsOverwritten(j, g, r)
    BY <2>1, <2>2, <2>3 DEF IsOverwritten
  <2> QED
    BY <1>3, <1>7, <2>2, <2>3, <2>4 DEF g, i, r
<1> QED
  BY <1>5, <1>6, <1>7

(* A record of a new program, and one of a program that crashed again. *)
LEMMA NewRecordFacts ==
  ASSUME NEW pid \in Nat, NEW name, IsPlain(name), NEW t \in Times
  PROVE  /\ NewRecord(pid, name, t) \in Records
         /\ NewRecord(pid, name, t) = [pid |-> pid, name |-> name, count |-> 1, times |-> << t >>]
         /\ Len(<< t >>) = 1 /\ << t >>[1] = t /\ Len(<< t >>) <= MaxLast
<1>1. << t >> \in Seq(Times) /\ Len(<< t >>) = 1 /\ << t >>[1] = t
  OBVIOUS
<1>2. 1 <= MaxLast
  BY BoundsAssumption
<1> QED
  BY <1>1, <1>2 DEF NewRecord, Records, IsPlain

(* A record of a further crash is one of the same program, counts one      *)
(* more, and has the time in front.                                        *)
LEMMA AgainFacts ==
  ASSUME NEW r \in Records, Len(r.times) <= MaxLast, NEW t \in Times
  PROVE  /\ Again(r, t) \in Records
         /\ Again(r, t).name = r.name /\ Again(r, t).pid = r.pid
         /\ Again(r, t).count = r.count + 1
         /\ Again(r, t).times = Prepend(t, r.times)
         /\ Len(Again(r, t).times) <= MaxLast
<1>1. r.times \in Seq(Times) /\ r.count \in Nat /\ r.pid \in Nat /\ r.name \in Texts
  BY DEF Records
<1>2. /\ Prepend(t, r.times) \in Seq(Times)
      /\ Len(Prepend(t, r.times)) = (IF Len(r.times) < MaxLast THEN Len(r.times) + 1 ELSE MaxLast)
  BY <1>1, PrependResult
<1>3. Len(Prepend(t, r.times)) <= MaxLast
  BY <1>1, <1>2, BoundsAssumption
<1>4. r.count + 1 \in Nat
  BY <1>1
<1> QED
  BY <1>1, <1>2, <1>3, <1>4 DEF Again, Records

(* The records of a table after a crash, whatever happened to them: each   *)
(* is the new one, the touched one or one that was there.                  *)
LEMMA RecordsAfterCrash ==
  ASSUME NEW j, IsTable(j), NEW name, IsPlain(name), NEW pid \in Nat, NEW t \in Times
  PROVE  LET g == RecordCrash(j, pid, name, t)
         IN  \A k \in 1..g.recCount :
               \/ /\ g.slots[k] = NewRecord(pid, name, t)
                  /\ Unnamed(j, name)
               \/ \E i \in 1..j.recCount :
                    /\ j.slots[i].name = name
                    /\ g.slots[k] = Again(j.slots[i], t)
               \/ \E i \in 1..j.recCount :
                    /\ j.slots[i].name # name
                    /\ g.slots[k] = j.slots[i]
<1> DEFINE g == RecordCrash(j, pid, name, t)
           r == NewRecord(pid, name, t)
<1>1. \/ \E i \in 1..j.recCount : j.slots[i].name = name /\ IsTouched(j, g, i, t)
      \/ Unnamed(j, name) /\ (IsInserted(j, g, r) \/ IsOverwritten(j, g, r))
  BY CrashIsRecorded
<1>2. /\ j.recCount \in Nat /\ MaxRecs \in Nat \ {0} /\ j.recCount <= MaxRecs
      /\ \A k \in 1..j.recCount : k \in Slots
  BY TableFacts
<1> HIDE DEF g, r
<1> SUFFICES ASSUME NEW k \in 1..g.recCount
             PROVE  \/ g.slots[k] = r /\ Unnamed(j, name)
                    \/ \E i \in 1..j.recCount :
                         j.slots[i].name = name /\ g.slots[k] = Again(j.slots[i], t)
                    \/ \E i \in 1..j.recCount : j.slots[i].name # name /\ g.slots[k] = j.slots[i]
  BY DEF g, r
<1>3. ASSUME NEW i \in 1..j.recCount, j.slots[i].name = name, IsTouched(j, g, i, t)
      PROVE  \/ \E x \in 1..j.recCount :
                  j.slots[x].name = name /\ g.slots[k] = Again(j.slots[x], t)
             \/ \E x \in 1..j.recCount : j.slots[x].name # name /\ g.slots[k] = j.slots[x]
  <2>1. k \in 1..j.recCount /\ k \in Slots
    BY <1>2, <1>3 DEF IsTouched
  <2>2. CASE k = i
    BY <1>3, <2>2 DEF IsTouched
  <2>3. CASE k # i
    <3>1. g.slots[k] = j.slots[k]
      BY <1>3, <2>1, <2>3 DEF IsTouched
    <3>2. j.slots[k].name # name
      BY <1>3, <2>1, <2>3 DEF IsTable
    <3> QED
      BY <2>1, <3>1, <3>2
  <2> QED
    BY <2>2, <2>3
<1>4. CASE Unnamed(j, name) /\ IsInserted(j, g, r)
  <2>1. CASE k = 1
    BY <1>4, <2>1 DEF IsInserted
  <2>2. CASE k # 1
    <3>1. k - 1 \in 1..j.recCount /\ (k - 1) + 1 = k
      BY <1>2, <1>4, <2>2 DEF IsInserted
    <3>2. g.slots[k] = j.slots[k - 1] /\ j.slots[k - 1].name # name
      BY <1>4, <3>1 DEF IsInserted, Unnamed
    <3> QED
      BY <3>1, <3>2
  <2> QED
    BY <2>1, <2>2
<1>5. CASE Unnamed(j, name) /\ IsOverwritten(j, g, r)
  <2>1. k \in 1..j.recCount /\ k \in Slots
    BY <1>2, <1>5 DEF IsOverwritten
  <2>2. CASE k = MaxRecs
    BY <1>5, <2>2 DEF IsOverwritten
  <2>3. CASE k # MaxRecs
    <3>1. g.slots[k] = j.slots[k] /\ j.slots[k].name # name
      BY <1>5, <2>1, <2>3 DEF IsOverwritten, Unnamed
    <3> QED
      BY <2>1, <3>1
  <2> QED
    BY <2>2, <2>3
<1> QED
  BY <1>1, <1>3, <1>4, <1>5

(* A crash of a program with a plain path leaves a table. *)
LEMMA CrashKeepsTable ==
  ASSUME NEW j, IsTable(j), NEW name, IsPlain(name), NEW pid \in Nat, NEW t \in Times
  PROVE  IsTable(RecordCrash(j, pid, name, t))
<1> DEFINE g == RecordCrash(j, pid, name, t)
           r == NewRecord(pid, name, t)
<1>1. /\ g = [start |-> j.start, count |-> j.count + 1,
              recCount |-> g.recCount, slots |-> g.slots]
      /\ g.slots = [i \in Slots |-> g.slots[i]]
      /\ \/ \E i \in 1..j.recCount : j.slots[i].name = name /\ IsTouched(j, g, i, t)
         \/ Unnamed(j, name) /\ (IsInserted(j, g, r) \/ IsOverwritten(j, g, r))
  BY CrashIsRecorded
<1>2. \A k \in 1..g.recCount :
        \/ g.slots[k] = r
        \/ \E i \in 1..j.recCount : j.slots[i].name = name /\ g.slots[k] = Again(j.slots[i], t)
        \/ \E i \in 1..j.recCount : g.slots[k] = j.slots[i]
  <2>1. \A k \in 1..g.recCount :
          \/ g.slots[k] = r /\ Unnamed(j, name)
          \/ \E i \in 1..j.recCount : j.slots[i].name = name /\ g.slots[k] = Again(j.slots[i], t)
          \/ \E i \in 1..j.recCount : j.slots[i].name # name /\ g.slots[k] = j.slots[i]
    BY RecordsAfterCrash
  <2> HIDE DEF g, r
  <2> QED
    BY <2>1
<1>3. /\ j.recCount \in Nat /\ MaxRecs \in Nat \ {0} /\ j.recCount <= MaxRecs
      /\ \A k \in 1..j.recCount : k \in Slots /\ j.slots[k] \in Records
      /\ j.count \in Nat /\ j.start \in Times
      /\ j.slots \in [Slots -> Records]
  BY TableFacts DEF IsTable, IsJournal
<1>4. r \in Records /\ r.name = name /\ Len(r.times) <= MaxLast
  <2>1. r \in Records /\ r = [pid |-> pid, name |-> name, count |-> 1, times |-> << t >>]
    BY NewRecordFacts
  <2>2. Len(<< t >>) <= MaxLast
    BY NewRecordFacts
  <2> HIDE DEF r
  <2> QED
    BY <2>1, <2>2
<1> HIDE DEF g, r
<1>5. g.recCount \in 0..MaxRecs
  BY <1>1, <1>3 DEF IsTouched, IsInserted, IsOverwritten
<1>6. ASSUME NEW k \in 1..g.recCount
      PROVE  g.slots[k] \in Records /\ IsPlain(g.slots[k].name) /\ Len(g.slots[k].times) <= MaxLast
  <2>1. CASE g.slots[k] = r
    BY <1>4, <2>1
  <2>2. ASSUME NEW i \in 1..j.recCount, g.slots[k] = Again(j.slots[i], t)
        PROVE  g.slots[k] \in Records /\ IsPlain(g.slots[k].name) /\ Len(g.slots[k].times) <= MaxLast
    <3>1. j.slots[i] \in Records /\ IsPlain(j.slots[i].name) /\ Len(j.slots[i].times) <= MaxLast
      BY <1>3 DEF IsTable
    <3> QED
      BY <2>2, <3>1, AgainFacts
  <2>3. ASSUME NEW i \in 1..j.recCount, g.slots[k] = j.slots[i]
        PROVE  g.slots[k] \in Records /\ IsPlain(g.slots[k].name) /\ Len(g.slots[k].times) <= MaxLast
    BY <1>3, <2>3 DEF IsTable
  <2> QED
    BY <1>2, <2>1, <2>2, <2>3
<1>7. ASSUME NEW k \in Slots, k > g.recCount PROVE g.slots[k] = BlankRecord
  <2>1. k \in Nat /\ k \in 1..MaxRecs
    BY <1>3 DEF Slots
  <2>2. ASSUME NEW i \in 1..j.recCount, IsTouched(j, g, i, t)
        PROVE  g.slots[k] = BlankRecord
    <3>1. k > j.recCount /\ k # i
      BY <1>3, <1>7, <2>1, <2>2 DEF IsTouched
    <3> QED
      BY <2>2, <3>1 DEF IsTouched, IsTable
  <2>3. CASE IsInserted(j, g, r)
    <3>1. k > j.recCount + 1 /\ k > j.recCount
      BY <1>3, <1>7, <2>1, <2>3 DEF IsInserted
    <3> QED
      BY <2>3, <3>1 DEF IsInserted, IsTable
  <2>4. CASE IsOverwritten(j, g, r)
    BY <1>3, <1>7, <2>1, <2>4 DEF IsOverwritten
  <2> QED
    BY <1>1, <2>2, <2>3, <2>4
<1>8. \A i, k \in 1..g.recCount : g.slots[i].name = g.slots[k].name => i = k
  <2>1. ASSUME NEW x \in 1..j.recCount, j.slots[x].name = name, IsTouched(j, g, x, t)
        PROVE  \A i, k \in 1..g.recCount : g.slots[i].name = g.slots[k].name => i = k
    <3>1. ASSUME NEW i \in 1..g.recCount PROVE i \in 1..j.recCount /\ g.slots[i].name = j.slots[i].name
      <4>1. i \in 1..j.recCount /\ i \in Slots
        BY <1>3, <2>1 DEF IsTouched
      <4>2. CASE i = x
        BY <2>1, <4>1, <4>2 DEF IsTouched, Again
      <4>3. CASE i # x
        BY <2>1, <4>1, <4>3 DEF IsTouched
      <4> QED
        BY <4>1, <4>2, <4>3
    <3> QED
      BY <3>1 DEF IsTable
  <2>2. CASE Unnamed(j, name) /\ IsInserted(j, g, r)
    <3>1. ASSUME NEW i \in 1..g.recCount, i # 1
          PROVE  /\ i - 1 \in 1..j.recCount
                 /\ g.slots[i].name = j.slots[i - 1].name
                 /\ g.slots[i].name # name
      <4>1. i - 1 \in 1..j.recCount /\ (i - 1) + 1 = i
        BY <1>3, <2>2, <3>1 DEF IsInserted
      <4> QED
        BY <2>2, <4>1 DEF IsInserted, Unnamed
    <3>2. g.slots[1].name = name
      BY <1>4, <2>2 DEF IsInserted
    <3> SUFFICES ASSUME NEW i \in 1..g.recCount, NEW k \in 1..g.recCount,
                        g.slots[i].name = g.slots[k].name
                 PROVE  i = k
      OBVIOUS
    <3>3. CASE i = 1 \/ k = 1
      BY <3>1, <3>2, <3>3
    <3>4. CASE i # 1 /\ k # 1
      <4>1. i - 1 \in 1..j.recCount /\ k - 1 \in 1..j.recCount
            /\ j.slots[i - 1].name = j.slots[k - 1].name
        BY <3>1, <3>4
      <4>2. i - 1 = k - 1
        BY <4>1 DEF IsTable
      <4> QED
        BY <1>5, <4>2
    <3> QED
      BY <3>3, <3>4
  <2>3. CASE Unnamed(j, name) /\ IsOverwritten(j, g, r)
    <3>1. ASSUME NEW i \in 1..g.recCount, i # MaxRecs
          PROVE  i \in 1..j.recCount /\ g.slots[i].name = j.slots[i].name /\ g.slots[i].name # name
      <4>1. i \in 1..j.recCount /\ i \in Slots
        BY <1>3, <2>3 DEF IsOverwritten
      <4> QED
        BY <2>3, <3>1, <4>1 DEF IsOverwritten, Unnamed
    <3>2. g.slots[MaxRecs].name = name
      BY <1>4, <2>3 DEF IsOverwritten
    <3> QED
      BY <3>1, <3>2 DEF IsTable
  <2> QED
    BY <1>1, <2>1, <2>2, <2>3
<1>9. g.slots \in [Slots -> Records]
  <2>1. BlankRecord \in Records
    <3>1. BlankRecord = BlankJournal(NoTime).slots[1] /\ 1 \in Slots
      BY BoundsAssumption DEF BlankJournal, Slots
    <3>2. IsTable(BlankJournal(NoTime))
      BY BlankIsTable, NoTimeIsTime
    <3> QED
      BY <3>1, <3>2, TableFacts
  <2>2. ASSUME NEW k \in Slots PROVE g.slots[k] \in Records
    <3>1. k \in 1..g.recCount \/ k > g.recCount
      BY <1>3, <1>5 DEF Slots
    <3> QED
      BY <1>6, <1>7, <2>1, <3>1
  <2> QED
    BY <1>1, <2>2
<1>10. IsJournal(g) /\ g.start \in Times
  BY <1>1, <1>3 DEF IsJournal
<1> QED
  BY <1>5, <1>6, <1>7, <1>8, <1>9, <1>10 DEF IsTable, g
----------------------------------------------------------------------------
(***************************************************************************)
(* What the records say, measured by a list of the crashes.                *)
(***************************************************************************)
CrashEntries == [pid : Nat, name : Texts, time : Nat]

(* The crashes of a program in the list L, from some crash on. *)
CrashesIn(L, name, first) == {i \in first..Len(L) : L[i].name = name}

(* The list with one more crash. *)
LEMMA CrashAdded ==
  ASSUME NEW L \in Seq(CrashEntries), NEW e \in CrashEntries
  PROVE  LET M == Append(L, e)
             n == Len(L) + 1
         IN  /\ Len(L) \in Nat
             /\ M \in Seq(CrashEntries)
             /\ Len(M) = n
             /\ M[n] = e
             /\ \A i \in 1..Len(L) : M[i] = L[i]
             /\ \A first \in 1..n :
                  /\ CrashesIn(M, e.name, first) = CrashesIn(L, e.name, first) \cup {n}
                  /\ \A name : name # e.name => CrashesIn(M, name, first) = CrashesIn(L, name, first)
<1> DEFINE M == Append(L, e)
           n == Len(L) + 1
<1>1. /\ Len(L) \in Nat /\ M \in Seq(CrashEntries) /\ Len(M) = n /\ M[n] = e
      /\ \A i \in 1..Len(L) : M[i] = L[i]
  OBVIOUS
<1> HIDE DEF M
<1>2. ASSUME NEW first \in 1..n
      PROVE  /\ CrashesIn(M, e.name, first) = CrashesIn(L, e.name, first) \cup {n}
             /\ \A name : name # e.name => CrashesIn(M, name, first) = CrashesIn(L, name, first)
  <2>1. \A i : i \in first..Len(M) <=> i \in first..Len(L) \/ i = n
    BY <1>1
  <2>2. \A i \in first..Len(L) : M[i] = L[i]
    BY <1>1
  <2>3. \A i \in first..Len(L) : i # n
    BY <1>1
  <2>4. CrashesIn(M, e.name, first) = CrashesIn(L, e.name, first) \cup {n}
    BY <1>1, <2>1, <2>2 DEF CrashesIn
  <2>5. \A name : name # e.name => CrashesIn(M, name, first) = CrashesIn(L, name, first)
    BY <1>1, <2>1, <2>2 DEF CrashesIn
  <2> QED
    BY <2>4, <2>5
<1> QED
  BY <1>1, <1>2 DEF M

(* There are finitely many of them; one more crash makes one more. *)
LEMMA CrashesCounted ==
  ASSUME NEW L \in Seq(CrashEntries), NEW name, NEW first \in Nat \ {0}
  PROVE  /\ IsFiniteSet(CrashesIn(L, name, first))
         /\ Cardinality(CrashesIn(L, name, first)) \in Nat
         /\ Cardinality(CrashesIn(L, name, first) \cup {Len(L) + 1}) =
              Cardinality(CrashesIn(L, name, first)) + 1
<1> DEFINE S == CrashesIn(L, name, first)
<1>1. Len(L) \in Nat
  OBVIOUS
<1>2. S \in SUBSET (1..Len(L)) /\ Len(L) + 1 \notin S
  BY <1>1 DEF CrashesIn
<1> HIDE DEF S
<1>3. IsFiniteSet(1..Len(L))
  BY <1>1, IntervalSize
<1>4. IsFiniteSet(S)
  BY <1>2, <1>3, FS_Subset
<1>5. Cardinality(S) \in Nat
  BY <1>4, FS_CardinalityType
<1>6. Cardinality(S \cup {Len(L) + 1}) = Cardinality(S) + 1
  BY <1>2, <1>4, FS_AddElement
<1> QED
  BY <1>4, <1>5, <1>6 DEF S

(* A time is that of the crash i, moved by at most as many hours as there  *)
(* were rewrites of the journal between i and k.                           *)
Drifted(L, i, x, k) == L[i].time = x.at /\ x.off \in -(k - i)..(k - i)

(* A record claims no more crashes of its program than there were and no   *)
(* time at which it did not crash.                                         *)
IsHonest(L, k, r) ==
  /\ r.count <= Cardinality(CrashesIn(L, r.name, 1))
  /\ \A q \in 1..Len(r.times) : \E i \in CrashesIn(L, r.name, 1) : Drifted(L, i, r.times[q], k)

AllHonest(L, k, j) == \A i \in 1..j.recCount : IsHonest(L, k, j.slots[i])

(* A record that is honest after k rewrites is so after one more, in which *)
(* its times were moved by an hour at most.                                *)
LEMMA HonestMoves ==
  ASSUME NEW L \in Seq(CrashEntries), NEW k \in Nat, NEW r, IsHonest(L, k, r),
         NEW x, x.name = r.name, x.count = r.count, Len(x.times) = Len(r.times),
         \A q \in 1..Len(r.times) : /\ r.times[q] \in Times
                                    /\ x.times[q].at = r.times[q].at
                                    /\ \E d \in Hours : x.times[q].off = r.times[q].off + d
  PROVE  IsHonest(L, k + 1, x)
<1>1. Len(L) \in Nat
  OBVIOUS
<1> DEFINE C == CrashesIn(L, r.name, 1)
<1>2. \A i \in C : i \in Nat
  BY <1>1 DEF CrashesIn
<1>3. ASSUME NEW q \in 1..Len(x.times)
      PROVE  \E i \in C : Drifted(L, i, x.times[q], k + 1)
  <2>1. PICK i \in C : Drifted(L, i, r.times[q], k)
    BY DEF IsHonest
  <2>2. PICK d \in Hours : x.times[q].off = r.times[q].off + d
    OBVIOUS
  <2> DEFINE o == r.times[q].off
  <2>3. o \in Int
    BY DEF Times
  <2>4. o \in -(k - i)..(k - i) /\ i \in Nat /\ d \in {-1, 0, 1}
    BY <1>2, <2>1 DEF Drifted, Hours
  <2> HIDE DEF o
  <2>5. o + d \in -((k + 1) - i)..((k + 1) - i)
    BY <2>3, <2>4
  <2>6. L[i].time = x.times[q].at
    BY <2>1 DEF Drifted
  <2> QED
    BY <2>2, <2>5, <2>6 DEF Drifted, o
<1> QED
  BY <1>3 DEF IsHonest

(* It is honest after one more rewrite that did not move them.             *)
LEMMA HonestWaits ==
  ASSUME NEW L \in Seq(CrashEntries), NEW k \in Nat, NEW r \in Records, IsHonest(L, k, r)
  PROVE  IsHonest(L, k + 1, r)
<1>1. r.times \in Seq(Times)
  BY DEF Records
<1>2. ASSUME NEW q \in 1..Len(r.times)
      PROVE  r.times[q] \in Times /\ r.times[q].off = r.times[q].off + 0
  <2>1. r.times[q] \in Times
    BY <1>1
  <2>2. r.times[q].off \in Int
    BY <2>1 DEF Times
  <2> QED
    BY <2>1, <2>2
<1>3. 0 \in Hours
  BY DEF Hours
<1> QED
  BY <1>2, <1>3, HonestMoves

(* It stays honest when there is one more crash. *)
LEMMA HonestStays ==
  ASSUME NEW L \in Seq(CrashEntries), NEW e \in CrashEntries, NEW k, NEW r \in Records,
         IsHonest(L, k, r)
  PROVE  IsHonest(Append(L, e), k, r)
<1> DEFINE M == Append(L, e)
           n == Len(L) + 1
           C == CrashesIn(L, r.name, 1)
           D == CrashesIn(M, r.name, 1)
<1>1. 1 \in 1..n /\ Len(L) \in Nat
  BY CrashAdded
<1>2. D = C \/ D = C \cup {n}
  BY <1>1, CrashAdded
<1>3. Cardinality(C) \in Nat /\ Cardinality(C \cup {n}) = Cardinality(C) + 1
  BY CrashesCounted
<1>4. \A i \in C : M[i] = L[i]
  BY <1>1, CrashAdded DEF CrashesIn
<1>5. r.count \in Nat /\ r.count <= Cardinality(C)
  BY DEF Records, IsHonest
<1> HIDE DEF M, n, C, D
<1>6. r.count <= Cardinality(D)
  <2> DEFINE a == Cardinality(C)
             b == Cardinality(D)
             c == r.count
  <2>1. b = a \/ b = a + 1
    BY <1>2, <1>3
  <2>2. a \in Nat /\ c \in Nat /\ c <= a
    BY <1>3, <1>5
  <2> HIDE DEF a, b, c
  <2>3. c <= b
    BY <2>1, <2>2
  <2> QED
    BY <2>3 DEF b, c
<1>7. \A q \in 1..Len(r.times) : \E i \in D : Drifted(M, i, r.times[q], k)
  BY <1>2, <1>4 DEF IsHonest, Drifted, C
<1> QED
  BY <1>6, <1>7 DEF IsHonest, D, M

(* The record of the program that crashed is honest. *)
LEMMA AgainIsHonest ==
  ASSUME NEW L \in Seq(CrashEntries), NEW e \in CrashEntries,
         NEW r \in Records, Len(r.times) <= MaxLast, IsHonest(L, Len(L) + 1, r), r.name = e.name
  PROVE  IsHonest(Append(L, e), Len(L) + 1, Again(r, Exact(e.time)))
<1> DEFINE M == Append(L, e)
           n == Len(L) + 1
           C == CrashesIn(L, r.name, 1)
           D == CrashesIn(M, r.name, 1)
           t == Exact(e.time)
           new == Prepend(t, r.times)
<1>1. 1 \in 1..n /\ Len(L) \in Nat
  BY CrashAdded
<1>2. D = C \cup {n}
  BY <1>1, CrashAdded
<1>3. Cardinality(C) \in Nat /\ Cardinality(C \cup {n}) = Cardinality(C) + 1
  BY CrashesCounted
<1>4. (\A i \in C : M[i] = L[i]) /\ M[n] = e
  BY <1>1, CrashAdded DEF CrashesIn
<1>5. r.count \in Nat /\ r.times \in Seq(Times)
      /\ t \in Times /\ t.at = e.time /\ t.off = 0
  <2>1. e.time \in Nat
    BY DEF CrashEntries
  <2> QED
    BY <2>1, ExactTimes DEF Records
<1>6. /\ new \in Seq(Times) /\ new[1] = t
      /\ \A q \in 2..Len(new) : q - 1 \in 1..Len(r.times) /\ new[q] = r.times[q - 1]
  BY <1>5, PrependResult
<1>7. /\ Again(r, t).name = r.name /\ Again(r, t).count = r.count + 1
      /\ Again(r, t).times = new
  BY DEF Again
<1>8. /\ r.count <= Cardinality(C)
      /\ \A q \in 1..Len(r.times) : \E i \in C : Drifted(L, i, r.times[q], n)
  BY DEF IsHonest
<1>0. n \in Nat
  BY <1>1
<1> HIDE DEF M, n, C, D, t, new
<1>9. r.count + 1 <= Cardinality(D)
  BY <1>2, <1>3, <1>5, <1>8
<1>10. ASSUME NEW q \in 1..Len(new) PROVE \E i \in D : Drifted(M, i, new[q], n)
  <2>1. CASE q = 1
    <3>1. 0 \in -(n - n)..(n - n)
      BY <1>0
    <3>2. Drifted(M, n, t, n)
      BY <1>4, <1>5, <3>1 DEF Drifted
    <3> QED
      BY <1>2, <1>6, <2>1, <3>2
  <2>2. CASE q # 1
    <3>1. Len(new) \in Nat
      BY <1>6
    <3>2. q \in 2..Len(new)
      BY <2>2, <3>1
    <3>3. q - 1 \in 1..Len(r.times) /\ new[q] = r.times[q - 1]
      BY <1>6, <3>2
    <3>4. PICK i \in C : Drifted(L, i, r.times[q - 1], n)
      BY <1>8, <3>3
    <3> QED
      BY <1>2, <1>4, <3>3, <3>4 DEF Drifted
  <2> QED
    BY <2>1, <2>2
<1>11. /\ Again(r, t).count <= Cardinality(CrashesIn(M, Again(r, t).name, 1))
       /\ \A q \in 1..Len(Again(r, t).times) :
            \E i \in CrashesIn(M, Again(r, t).name, 1) : Drifted(M, i, Again(r, t).times[q], n)
  BY <1>7, <1>9, <1>10 DEF D
<1> QED
  BY <1>11 DEF IsHonest, M, n, t

(* The record of a program's first crash is honest.                        *)
LEMMA NewIsHonest ==
  ASSUME NEW L \in Seq(CrashEntries), NEW e \in CrashEntries, IsPlain(e.name)
  PROVE  IsHonest(Append(L, e), Len(L) + 1, NewRecord(e.pid, e.name, Exact(e.time)))
<1> DEFINE M == Append(L, e)
           n == Len(L) + 1
           C == CrashesIn(L, e.name, 1)
           D == CrashesIn(M, e.name, 1)
           t == Exact(e.time)
           r == NewRecord(e.pid, e.name, t)
<1>1. 1 \in 1..n /\ Len(L) \in Nat /\ n \in Nat /\ M[n] = e
  BY CrashAdded
<1>2. D = C \cup {n}
  BY <1>1, CrashAdded
<1>3. Cardinality(C) \in Nat /\ Cardinality(C \cup {n}) = Cardinality(C) + 1
  BY CrashesCounted
<1>4. e.pid \in Nat /\ t \in Times /\ t.at = e.time /\ t.off = 0
  <2>1. e.pid \in Nat /\ e.time \in Nat
    BY DEF CrashEntries
  <2> QED
    BY <2>1, ExactTimes
<1>5. /\ r = [pid |-> e.pid, name |-> e.name, count |-> 1, times |-> << t >>]
      /\ Len(<< t >>) = 1 /\ << t >>[1] = t
  <2> HIDE DEF t
  <2> QED
    BY <1>4, NewRecordFacts
<1> HIDE DEF M, n, C, D, r, t
<1>6. 1 <= Cardinality(D)
  BY <1>2, <1>3
<1>7. \A q \in 1..1 : \E i \in D : Drifted(M, i, << t >>[q], n)
  <2>1. 0 \in -(n - n)..(n - n)
    BY <1>1
  <2>2. Drifted(M, n, t, n)
    BY <1>1, <1>4, <2>1 DEF Drifted
  <2> QED
    BY <1>2, <1>5, <2>2
<1>8. r.name = e.name /\ r.count = 1 /\ r.times = << t >>
  BY <1>5
<1>9. /\ r.count <= Cardinality(CrashesIn(M, r.name, 1))
      /\ \A q \in 1..Len(r.times) :
           \E i \in CrashesIn(M, r.name, 1) : Drifted(M, i, r.times[q], n)
  BY <1>5, <1>6, <1>7, <1>8 DEF D
<1> QED
  BY <1>9 DEF IsHonest, M, n, r, t

(* A journal of honest records keeps them, and so does a reader of a part. *)
LEMMA CrashKeepsHonest ==
  ASSUME NEW L \in Seq(CrashEntries), NEW e \in CrashEntries, IsPlain(e.name),
         NEW j, IsTable(j), AllHonest(L, Len(L) + 1, j)
  PROVE  AllHonest(Append(L, e), Len(L) + 1, RecordCrash(j, e.pid, e.name, Exact(e.time)))
<1> DEFINE x == Exact(e.time)
           g == RecordCrash(j, e.pid, e.name, x)
           M == Append(L, e)
           n == Len(L) + 1
           r == NewRecord(e.pid, e.name, x)
<1>1. e.pid \in Nat /\ x \in Times
  <2>1. e.pid \in Nat /\ e.time \in Nat
    BY DEF CrashEntries
  <2> QED
    BY <2>1, ExactTimes
<1>2. \A k \in 1..g.recCount :
        \/ g.slots[k] = r /\ Unnamed(j, e.name)
        \/ \E i \in 1..j.recCount : j.slots[i].name = e.name /\ g.slots[k] = Again(j.slots[i], x)
        \/ \E i \in 1..j.recCount : j.slots[i].name # e.name /\ g.slots[k] = j.slots[i]
  <2> DEFINE pid == e.pid
             name == e.name
             t == x
  <2>1. IsPlain(name) /\ pid \in Nat /\ t \in Times
    BY <1>1
  <2> HIDE DEF pid, name, t
  <2> DEFINE h == RecordCrash(j, pid, name, t)
             s == NewRecord(pid, name, t)
  <2>2. \A k \in 1..h.recCount :
          \/ h.slots[k] = s /\ Unnamed(j, name)
          \/ \E i \in 1..j.recCount : j.slots[i].name = name /\ h.slots[k] = Again(j.slots[i], t)
          \/ \E i \in 1..j.recCount : j.slots[i].name # name /\ h.slots[k] = j.slots[i]
    BY SMTT(30), <2>1, RecordsAfterCrash
  <2> QED
    BY <2>2 DEF pid, name, t
<1>3. IsHonest(M, n, r)
  BY NewIsHonest
<1>4. \A i \in 1..j.recCount : /\ j.slots[i] \in Records
                               /\ Len(j.slots[i].times) <= MaxLast
                               /\ IsHonest(L, n, j.slots[i])
  BY TableFacts DEF IsTable, AllHonest
<1> HIDE DEF g, M, n, r, x
<1> SUFFICES ASSUME NEW k \in 1..g.recCount PROVE IsHonest(M, n, g.slots[k])
  BY DEF AllHonest, g, M, n, x
<1>5. CASE g.slots[k] = r
  BY <1>3, <1>5
<1>6. ASSUME NEW i \in 1..j.recCount, j.slots[i].name = e.name,
             g.slots[k] = Again(j.slots[i], x)
      PROVE  IsHonest(M, n, g.slots[k])
  <2>1. IsHonest(Append(L, e), Len(L) + 1, Again(j.slots[i], Exact(e.time)))
    BY <1>4, <1>6, AgainIsHonest DEF n
  <2> QED
    BY <1>6, <2>1 DEF M, n, x
<1>7. ASSUME NEW i \in 1..j.recCount, g.slots[k] = j.slots[i]
      PROVE  IsHonest(M, n, g.slots[k])
  <2>1. IsHonest(Append(L, e), n, j.slots[i])
    BY <1>4, HonestStays
  <2> QED
    BY <1>7, <2>1 DEF M
<1> QED
  BY <1>2, <1>5, <1>6, <1>7

(* What shows a part of an honest journal is honest.                       *)
LEMMA PartIsHonest ==
  ASSUME NEW L, NEW k, NEW j, IsTable(j), NEW r, ShowsPart(r, j), AllHonest(L, k, j)
  PROVE  AllHonest(L, k, r)
<1> SUFFICES ASSUME NEW i \in 1..r.recCount PROVE IsHonest(L, k, r.slots[i])
  BY DEF AllHonest
<1>1. i \in 1..j.recCount
  <2>1. r.recCount \in Nat /\ j.recCount \in Nat /\ r.recCount <= j.recCount
    BY TableFacts DEF ShowsPart
  <2> QED
    BY <2>1
<1> DEFINE x == r.slots[i]
           y == j.slots[i]
<1>2. /\ x.name = y.name /\ x.count = y.count
      /\ Len(x.times) <= Len(y.times)
      /\ \A q \in 1..Len(x.times) : x.times[q] = y.times[q]
  BY DEF ShowsPart
<1>3. IsHonest(L, k, y)
  BY <1>1 DEF AllHonest
<1>4. Len(x.times) \in Nat /\ Len(y.times) \in Nat
  <2>1. i \in Slots
    BY TableFacts DEF ShowsPart
  <2> QED
    BY <2>1, TableFacts DEF ShowsPart
<1> HIDE DEF x, y
<1>5. \A q \in 1..Len(x.times) : q \in 1..Len(y.times)
  BY <1>2, <1>4
<1>6. IsHonest(L, k, x)
  BY <1>2, <1>3, <1>5 DEF IsHonest
<1> QED
  BY <1>6 DEF x
----------------------------------------------------------------------------
(***************************************************************************)
(* What one more write() makes of the text.                                *)
(***************************************************************************)

(* What is written of a record at the distance a from its head. *)
RecordChunk(s, a) ==
  IF a = 0 THEN HeadChunk(s)
  ELSE IF a <= Len(s.times) THEN TimeChunk(s.times[a])
  ELSE NewlineChunk

(* No two chunks are written at one place. *)
LEMMA OneChunkAtAPlace ==
  ASSUME NEW j, IsTable(j), NEW p \in Places(j),
         NEW r \in 1..j.recCount, NEW a \in 0..(Len(j.slots[r].times) + 1)
  PROVE  /\ p[r] + a \in Nat /\ p[r] + a >= 3 /\ p[r] + a < p[j.recCount + 1]
         /\ \A s \in 1..j.recCount : \A b \in 0..(Len(j.slots[s].times) + 1) :
              p[r] + a = p[s] + b => r = s /\ a = b
<1> DEFINE len(s) == Len(j.slots[s].times)
           n == j.recCount
<1>1. /\ n \in Nat
      /\ \A s \in 1..n : /\ len(s) \in Nat /\ p[s] \in Nat /\ p[s] >= 3 /\ p[s + 1] \in Nat
                         /\ p[s + 1] = p[s] + len(s) + 2
                         /\ \A k \in 1..(n + 1) : s < k => p[s + 1] <= p[k]
                         /\ s \in 1..(n + 1)
      /\ p[n + 1] \in Nat
  <2>1. n \in Nat /\ n + 1 \in 1..(n + 1) /\ \A s \in 1..n : s \in 1..(n + 1)
    BY TableFacts
  <2>2. p[n + 1] \in Nat
    BY <2>1, PlacesAscend
  <2> QED
    BY <2>1, <2>2, PlacesAscend
<1> HIDE DEF len
<1>2. ASSUME NEW s \in 1..n, NEW b \in 0..(len(s) + 1), NEW k \in 1..(n + 1), s < k
      PROVE  p[s] + b < p[k] /\ p[s] + b \in Nat /\ p[k] \in Nat
  <2> DEFINE x == p[s]
             y == p[s + 1]
             z == p[k]
             size == len(s)
  <2>1. x \in Nat /\ y = x + size + 2 /\ y <= z /\ size \in Nat /\ b \in 0..(size + 1)
    BY <1>1, <1>2
  <2>2. z \in Nat
    <3>1. k = n + 1 \/ k \in 1..n
      <4> HIDE DEF n
      <4> QED
        BY <1>1
    <3> QED
      BY <1>1, <3>1
  <2> HIDE DEF x, y, z, size
  <2>3. x + b < z /\ x + b \in Nat
    BY <2>1, <2>2
  <2> QED
    BY <2>2, <2>3 DEF x, z
<1>3. a \in 0..(len(r) + 1)
  BY DEF len
<1>4. p[r] + a \in Nat /\ p[r] + a >= 3 /\ p[r] + a < p[n + 1]
  <2>1. r < n + 1 /\ n + 1 \in 1..(n + 1)
    BY <1>1
  <2>2. p[r] + a < p[n + 1] /\ p[r] + a \in Nat
    BY <1>2, <1>3, <2>1
  <2>3. p[r] >= 3 /\ p[r] \in Nat /\ a \in Nat
    BY <1>1, <1>3
  <2> QED
    BY <2>2, <2>3
<1>5. ASSUME NEW s \in 1..n, NEW b \in 0..(len(s) + 1), p[r] + a = p[s] + b
      PROVE  r = s /\ a = b
  <2>1. r \in 1..(n + 1) /\ s \in 1..(n + 1) /\ r \in Nat /\ s \in Nat
        /\ p[r] \in Nat /\ p[s] \in Nat /\ len(r) \in Nat /\ len(s) \in Nat
    BY <1>1
  <2>2. a \in Nat /\ b \in Nat
    BY <1>3, <2>1
  <2>3. ~(r < s)
    <3> SUFFICES ASSUME r < s PROVE FALSE
      OBVIOUS
    <3>1. p[r] + a < p[s]
      BY <1>2, <1>3, <2>1
    <3> QED
      BY <1>5, <2>1, <2>2, <3>1
  <2>4. ~(s < r)
    <3> SUFFICES ASSUME s < r PROVE FALSE
      OBVIOUS
    <3>1. p[s] + b < p[r]
      BY <1>2, <2>1
    <3> QED
      BY <1>5, <2>1, <2>2, <3>1
  <2>5. r = s
    BY <2>1, <2>3, <2>4
  <2> QED
    BY <1>5, <2>1, <2>2, <2>5
<1> QED
  BY <1>4, <1>5 DEF len

(* The text of the records, place by place. *)
PlacesFilled(f, j, p) ==
  \A r \in 1..j.recCount : \A a \in 0..(Len(j.slots[r].times) + 1) :
    p[r] + a <= Len(f) => f[p[r] + a] = RecordChunk(j.slots[r], a)

RecordsFilled(f, j, p) ==
  \A r \in 1..j.recCount :
    /\ p[r] <= Len(f) => f[p[r]] = HeadChunk(j.slots[r])
    /\ \A q \in 1..Len(j.slots[r].times) :
         p[r] + q <= Len(f) => f[p[r] + q] = TimeChunk(j.slots[r].times[q])
    /\ p[r + 1] - 1 <= Len(f) => f[p[r + 1] - 1] = NewlineChunk

(* The two ways to say that a file is filled up to some place agree.       *)
LEMMA TextByPlaces ==
  ASSUME NEW j, IsTable(j), NEW p \in Places(j), NEW f, Len(f) \in Nat
  PROVE  RecordsFilled(f, j, p) <=> PlacesFilled(f, j, p)
<1> SUFFICES ASSUME NEW r \in 1..j.recCount
             PROVE  (/\ p[r] <= Len(f) => f[p[r]] = HeadChunk(j.slots[r])
                     /\ \A q \in 1..Len(j.slots[r].times) :
                          p[r] + q <= Len(f) => f[p[r] + q] = TimeChunk(j.slots[r].times[q])
                     /\ p[r + 1] - 1 <= Len(f) => f[p[r + 1] - 1] = NewlineChunk)
                    <=>
                    \A a \in 0..(Len(j.slots[r].times) + 1) :
                      p[r] + a <= Len(f) => f[p[r] + a] = RecordChunk(j.slots[r], a)
  BY DEF PlacesFilled, RecordsFilled
<1> DEFINE x == p[r]
           s == j.slots[r]
           size == Len(s.times)
           n == Len(f)
<1>1. x \in Nat /\ size \in Nat /\ p[r + 1] = x + size + 2
  <2>1. r \in 1..(j.recCount + 1)
    BY TableFacts
  <2> QED
    BY <2>1, PlacesAscend
<1>2. p[r + 1] - 1 = x + (size + 1)
  BY SMTT(30), <1>1
<1>3. /\ RecordChunk(s, 0) = HeadChunk(s)
      /\ \A q \in 1..size : RecordChunk(s, q) = TimeChunk(s.times[q])
      /\ RecordChunk(s, size + 1) = NewlineChunk
  <2>1. size + 1 # 0 /\ ~(size + 1 <= size)
    <3> HIDE DEF x, size
    <3> QED
      BY <1>1
  <2>2. \A q \in 1..size : q # 0 /\ q <= size
    BY <1>1
  <2> QED
    BY <2>1, <2>2 DEF RecordChunk
<1>4. /\ 0 \in 0..(size + 1) /\ size + 1 \in 0..(size + 1) /\ x + 0 = x
      /\ \A q \in 1..size : q \in 0..(size + 1)
      /\ \A a \in 0..(size + 1) : a = 0 \/ a \in 1..size \/ a = size + 1
  <2> HIDE DEF x, size
  <2> QED
    BY <1>1
<1> HIDE DEF x, s, size, n
<1>5. (/\ x <= n => f[x] = HeadChunk(s)
       /\ \A q \in 1..size : x + q <= n => f[x + q] = TimeChunk(s.times[q])
       /\ x + (size + 1) <= n => f[x + (size + 1)] = NewlineChunk)
      <=> \A a \in 0..(size + 1) : x + a <= n => f[x + a] = RecordChunk(s, a)
  BY <1>3, <1>4
<1> QED
  BY <1>2, <1>5 DEF x, s, size, n

(* The file is the beginning of a text when nothing was written yet. *)
LEMMA NothingWritten ==
  ASSUME NEW j, IsTable(j), NEW p \in Places(j)
  PROVE  BeginsText(<<>>, j, p)
<1>1. IsSequence(<<>>) /\ Len(<<>>) = 0
  BY DEF IsSequence
<1>2. \A r \in 1..(j.recCount + 1) : p[r] \in Nat /\ p[r] >= 3
  BY PlacesAscend
<1>3. /\ j.recCount + 1 \in 1..(j.recCount + 1)
      /\ \A r \in 1..j.recCount : r \in 1..(j.recCount + 1) /\ r + 1 \in 1..(j.recCount + 1)
  BY TableFacts
<1>4. 0 < p[j.recCount + 1]
  BY <1>2, <1>3
<1>5. \A r \in 1..j.recCount :
        /\ ~(p[r] <= 0) /\ ~(p[r + 1] - 1 <= 0)
        /\ \A q \in 1..Len(j.slots[r].times) : ~(p[r] + q <= 0)
  <2> SUFFICES ASSUME NEW r \in 1..j.recCount
               PROVE  /\ ~(p[r] <= 0) /\ ~(p[r + 1] - 1 <= 0)
                      /\ \A q \in 1..Len(j.slots[r].times) : ~(p[r] + q <= 0)
    OBVIOUS
  <2>1. p[r] \in Nat /\ p[r] >= 3 /\ p[r + 1] \in Nat /\ p[r + 1] >= 3
    BY <1>2, <1>3
  <2> QED
    BY <2>1
<1> QED
  BY <1>1, <1>4, <1>5 DEF BeginsText

(* The next chunk of the text keeps the file a beginning of the text. *)
LEMMA TextGrows ==
  ASSUME NEW j, IsTable(j), NEW p \in Places(j), NEW f, BeginsText(f, j, p),
         NEW g, IsSequence(g), Len(g) = Len(f) + 1,
         \A i \in 1..Len(f) : g[i] = f[i],
         NEW c, g[Len(f) + 1] = c,
         \/ Len(f) = 0 /\ c = StartChunk(j.start)
         \/ Len(f) = 1 /\ c = TotalChunk(j.count)
         \/ \E r \in 1..j.recCount : \E a \in 0..(Len(j.slots[r].times) + 1) :
              Len(f) + 1 = p[r] + a /\ c = RecordChunk(j.slots[r], a)
  PROVE  BeginsText(g, j, p)
<1> DEFINE n == Len(f)
           At(r, a) == p[r] + a
           Chunk(r, a) == RecordChunk(j.slots[r], a)
           Offsets(r) == 0..(Len(j.slots[r].times) + 1)
<1>1. n \in Nat /\ Len(g) = n + 1 /\ n < p[j.recCount + 1]
  BY DEF BeginsText, IsSequence
<1>2. p[j.recCount + 1] \in Nat /\ p[j.recCount + 1] >= 3
  <2>1. j.recCount + 1 \in 1..(j.recCount + 1)
    BY TableFacts
  <2> QED
    BY <2>1, PlacesAscend
<1>3. \A r \in 1..j.recCount : \A a \in Offsets(r) :
        /\ At(r, a) \in Nat /\ At(r, a) >= 3 /\ At(r, a) < p[j.recCount + 1]
        /\ \A s \in 1..j.recCount : \A b \in Offsets(s) : At(r, a) = At(s, b) => r = s /\ a = b
  BY OneChunkAtAPlace
<1>4. \A r \in 1..j.recCount : \A a \in Offsets(r) : At(r, a) <= n => f[At(r, a)] = Chunk(r, a)
  <2>1. PlacesFilled(f, j, p)
    <3>1. RecordsFilled(f, j, p)
      BY DEF BeginsText, RecordsFilled
    <3> QED
      BY <1>1, <3>1, TextByPlaces
  <2> QED
    BY <2>1 DEF PlacesFilled
<1>5. \/ n = 0 /\ c = StartChunk(j.start)
      \/ n = 1 /\ c = TotalChunk(j.count)
      \/ \E r \in 1..j.recCount : \E a \in Offsets(r) : n + 1 = At(r, a) /\ c = Chunk(r, a)
  OBVIOUS
<1>6. /\ n >= 1 => f[1] = StartChunk(j.start)
      /\ n >= 2 => f[2] = TotalChunk(j.count)
  BY DEF BeginsText
<1>7. (\A i \in 1..n : g[i] = f[i]) /\ g[n + 1] = c
  OBVIOUS
<1> HIDE DEF n, At, Chunk, Offsets
<1>8. Len(g) < p[j.recCount + 1]
  <2>1. CASE n = 0 \/ n = 1
    BY <1>1, <1>2, <2>1
  <2>2. ASSUME NEW r \in 1..j.recCount, NEW a \in Offsets(r), n + 1 = At(r, a)
        PROVE  Len(g) < p[j.recCount + 1]
    BY <1>1, <1>3, <2>2
  <2> QED
    BY <1>5, <2>1, <2>2
<1>9. ASSUME Len(g) >= 1 PROVE g[1] = StartChunk(j.start)
  <2>1. CASE n = 0
    <3>1. ~\E r \in 1..j.recCount : \E a \in Offsets(r) : n + 1 = At(r, a)
      BY <1>3, <2>1
    <3>2. c = StartChunk(j.start)
      BY <1>5, <2>1, <3>1
    <3> QED
      BY <1>7, <2>1, <3>2
  <2>2. CASE n # 0
    <3>1. 1 \in 1..n /\ n >= 1
      BY <1>1, <2>2
    <3> QED
      BY <1>6, <1>7, <3>1
  <2> QED
    BY <2>1, <2>2
<1>10. ASSUME Len(g) >= 2 PROVE g[2] = TotalChunk(j.count)
  <2>1. CASE n = 1
    <3>1. ~\E r \in 1..j.recCount : \E a \in Offsets(r) : n + 1 = At(r, a)
      BY <1>3, <2>1
    <3>2. c = TotalChunk(j.count)
      BY <1>5, <2>1, <3>1
    <3> QED
      BY <1>7, <2>1, <3>2
  <2>2. CASE n # 1
    <3>1. 2 \in 1..n /\ n >= 2
      BY <1>1, <1>10, <2>2
    <3> QED
      BY <1>6, <1>7, <3>1
  <2> QED
    BY <2>1, <2>2
<1>11. ASSUME NEW r \in 1..j.recCount, NEW a \in Offsets(r), At(r, a) <= n + 1
       PROVE  g[At(r, a)] = Chunk(r, a)
  <2>1. At(r, a) \in Nat /\ At(r, a) >= 3
    BY <1>3
  <2>2. CASE At(r, a) <= n
    <3>1. At(r, a) \in 1..n
      BY <1>1, <2>1, <2>2
    <3> QED
      BY <1>4, <1>7, <2>2, <3>1
  <2>3. CASE At(r, a) = n + 1
    <3>1. n # 0 /\ n # 1
      BY <2>1, <2>3
    <3>2. PICK s \in 1..j.recCount : \E b \in Offsets(s) : n + 1 = At(s, b) /\ c = Chunk(s, b)
      BY <1>5, <3>1
    <3>3. PICK b \in Offsets(s) : n + 1 = At(s, b) /\ c = Chunk(s, b)
      BY <3>2
    <3>4. r = s /\ a = b
      BY <1>3, <2>3, <3>3
    <3> QED
      BY <1>7, <2>3, <3>3, <3>4
  <2> QED
    BY <1>1, <1>11, <2>1, <2>2, <2>3
<1>12. PlacesFilled(g, j, p)
  BY <1>1, <1>11 DEF At, Chunk, Offsets, PlacesFilled
<1>13. RecordsFilled(g, j, p)
  <2>1. Len(g) \in Nat
    BY <1>1
  <2> QED
    BY <1>12, <2>1, TextByPlaces
<1> QED
  BY <1>8, <1>9, <1>10, <1>13 DEF BeginsText, RecordsFilled
----------------------------------------------------------------------------
(***************************************************************************)
(* When nothing fails the records say neither more nor less than the       *)
(* truth: DescribesFrom and RecordsDescribeCrashes of CrashJournal, with   *)
(* the list of the crashes as a parameter.                                 *)
(***************************************************************************)
After(L, name, first, i) == {k \in CrashesIn(L, name, first) : k > i}

Describes(L, r, first) ==
  /\ first \in CrashesIn(L, r.name, first)
  /\ r.pid = L[first].pid
  /\ r.count = Cardinality(CrashesIn(L, r.name, first))
  /\ Len(r.times) = (IF r.count < MaxLast THEN r.count ELSE MaxLast)
  /\ \A q \in 1..Len(r.times) :
       \E i \in CrashesIn(L, r.name, first) :
         Cardinality(After(L, r.name, first, i)) = q - 1 /\ r.times[q].at = L[i].time

(* From the program's first crash on. *)
DescribesAll(L, r) ==
  \E first \in 1..Len(L) :
    Describes(L, r, first) /\ \A i \in CrashesIn(L, r.name, 1) : first <= i

NamesIn(L) == {L[i].name : i \in 1..Len(L)}

IsExact(L, j) ==
  /\ \A i \in 1..j.recCount : \E first \in 1..Len(L) : Describes(L, j.slots[i], first)
  /\ Cardinality(NamesIn(L)) <= MaxRecs =>
       \A name \in NamesIn(L) : \E i \in 1..j.recCount :
         j.slots[i].name = name /\ DescribesAll(L, j.slots[i])

(* The crash of another program does not change what a record describes.   *)
LEMMA StillDescribes ==
  ASSUME NEW L \in Seq(CrashEntries), NEW e \in CrashEntries, NEW r, r.name # e.name,
         NEW first \in 1..Len(L), Describes(L, r, first)
  PROVE  Describes(Append(L, e), r, first)
<1> DEFINE M == Append(L, e)
           n == Len(L) + 1
           C == CrashesIn(L, r.name, first)
<1>1. Len(L) \in Nat /\ first \in 1..n
  OBVIOUS
<1>2. CrashesIn(M, r.name, first) = C /\ \A i \in 1..Len(L) : M[i] = L[i]
  BY <1>1, CrashAdded
<1>3. \A i \in C : i \in 1..Len(L)
  BY <1>1 DEF CrashesIn
<1>4. \A i \in C : M[i] = L[i]
  BY <1>2, <1>3
<1>5. \A i : After(M, r.name, first, i) = After(L, r.name, first, i)
  BY <1>2 DEF After
<1>6. /\ first \in C /\ r.pid = L[first].pid /\ r.count = Cardinality(C)
      /\ Len(r.times) = (IF r.count < MaxLast THEN r.count ELSE MaxLast)
      /\ \A q \in 1..Len(r.times) :
           \E i \in C : Cardinality(After(L, r.name, first, i)) = q - 1 /\ r.times[q].at = L[i].time
  BY DEF Describes
<1> HIDE DEF M, C
<1>7. \A q \in 1..Len(r.times) :
        \E i \in C : Cardinality(After(M, r.name, first, i)) = q - 1 /\ r.times[q].at = M[i].time
  BY SMTT(30), <1>4, <1>5, <1>6
<1>8. r.pid = M[first].pid
  BY <1>4, <1>6
<1>9. Describes(M, r, first)
  BY <1>2, <1>6, <1>7, <1>8 DEF Describes
<1> QED
  BY <1>9 DEF M

(* A record that one more crash was added to describes that one, too.      *)
LEMMA DescribesAgain ==
  ASSUME NEW L \in Seq(CrashEntries), NEW e \in CrashEntries,
         NEW r \in Records, Len(r.times) <= MaxLast, r.name = e.name,
         NEW first \in 1..Len(L), Describes(L, r, first)
  PROVE  Describes(Append(L, e), Again(r, Exact(e.time)), first)
<1> DEFINE M == Append(L, e)
           n == Len(L) + 1
           C == CrashesIn(L, r.name, first)
           D == CrashesIn(M, r.name, first)
           t == Exact(e.time)
           s == Again(r, t)
           new == Prepend(t, r.times)
<1>1. /\ Len(L) \in Nat /\ first \in 1..n /\ first \in Nat \ {0} /\ MaxLast \in Nat \ {0}
      /\ n \in Nat
  BY BoundsAssumption
<1>2. D = C \cup {n} /\ M[n] = e /\ \A i \in 1..Len(L) : M[i] = L[i]
  BY <1>1, CrashAdded
<1>3. \A i \in C : i \in 1..Len(L)
  BY <1>1 DEF CrashesIn
<1>4. \A i \in C : M[i] = L[i] /\ i < n
  BY <1>1, <1>2, <1>3
<1>5. Cardinality(C) \in Nat /\ Cardinality(C \cup {n}) = Cardinality(C) + 1
  BY <1>1, CrashesCounted
<1>6. /\ first \in C /\ r.pid = L[first].pid /\ r.count = Cardinality(C)
      /\ Len(r.times) = (IF r.count < MaxLast THEN r.count ELSE MaxLast)
      /\ \A q \in 1..Len(r.times) :
           \E i \in C : Cardinality(After(L, r.name, first, i)) = q - 1 /\ r.times[q].at = L[i].time
  BY DEF Describes
<1>7. r.times \in Seq(Times) /\ t \in Times /\ t.at = e.time /\ Len(r.times) \in Nat
  <2>1. e.time \in Nat
    BY DEF CrashEntries
  <2> QED
    BY <2>1, ExactTimes DEF Records
<1>8. /\ new \in Seq(Times) /\ new[1] = t
      /\ Len(new) = (IF Len(r.times) < MaxLast THEN Len(r.times) + 1 ELSE MaxLast)
      /\ \A q \in 2..Len(new) : q - 1 \in 1..Len(r.times) /\ new[q] = r.times[q - 1]
  BY <1>7, PrependResult
<1>9. s.name = r.name /\ s.pid = r.pid /\ s.count = r.count + 1 /\ s.times = new
  BY DEF Again
<1>10. After(M, r.name, first, n) = {}
  <2>1. \A k \in D : ~(k > n)
    BY <1>1, <1>2, <1>3
  <2> QED
    BY <2>1 DEF After
<1>11. \A i \in C : After(M, r.name, first, i) = After(L, r.name, first, i) \cup {n}
  BY <1>2, <1>4 DEF After
<1>12. ASSUME NEW i \in C
       PROVE  Cardinality(After(M, r.name, first, i)) = Cardinality(After(L, r.name, first, i)) + 1
  <2> DEFINE A == After(L, r.name, first, i)
  <2>1. A \in SUBSET C /\ IsFiniteSet(C)
    BY <1>1, CrashesCounted DEF After
  <2>2. IsFiniteSet(A)
    BY <2>1, FS_Subset
  <2>3. n \notin A
    BY <1>4, <1>1 DEF After
  <2> HIDE DEF A
  <2>4. Cardinality(A \cup {n}) = Cardinality(A) + 1
    BY <2>2, <2>3, FS_AddElement
  <2> QED
    BY <1>11, <2>4 DEF A
<1> HIDE DEF M, n, C, D, s, new, t
<1>13. Cardinality(D) = s.count
  BY <1>2, <1>5, <1>6, <1>9
<1>14. Len(s.times) = (IF s.count < MaxLast THEN s.count ELSE MaxLast)
  BY <1>1, <1>5, <1>6, <1>7, <1>8, <1>9
<1>15. ASSUME NEW q \in 1..Len(new)
       PROVE  \E i \in D : Cardinality(After(M, r.name, first, i)) = q - 1 /\ new[q].at = M[i].time
  <2>1. Len(new) \in Nat
    BY <1>8
  <2>2. CASE q = 1
    <3>1. Cardinality(After(M, r.name, first, n)) = 0
      BY <1>10, FS_EmptySet
    <3> QED
      BY <1>2, <1>7, <1>8, <2>2, <3>1
  <2>3. CASE q # 1
    <3>1. q \in 2..Len(new)
      BY <2>1, <2>3
    <3>2. q - 1 \in 1..Len(r.times) /\ new[q] = r.times[q - 1]
      BY <1>8, <3>1
    <3>3. PICK i \in C : /\ Cardinality(After(L, r.name, first, i)) = (q - 1) - 1
                         /\ r.times[q - 1].at = L[i].time
      BY <1>6, <3>2
    <3>4. Cardinality(After(M, r.name, first, i)) = q - 1
      BY <1>12, <3>1, <3>3
    <3> QED
      BY <1>2, <1>4, <3>2, <3>3, <3>4
  <2> QED
    BY <2>2, <2>3
<1>16. M[first] = L[first] /\ first \in D
  BY <1>2, <1>4, <1>6
<1>17. Describes(M, s, first)
  BY <1>6, <1>9, <1>13, <1>14, <1>15, <1>16 DEF Describes, D
<1> QED
  BY <1>17 DEF M, s, t

(* A new record describes the crash it was made for. *)
LEMMA DescribesNew ==
  ASSUME NEW L \in Seq(CrashEntries), NEW e \in CrashEntries, IsPlain(e.name)
  PROVE  Describes(Append(L, e), NewRecord(e.pid, e.name, Exact(e.time)), Len(L) + 1)
<1> DEFINE M == Append(L, e)
           n == Len(L) + 1
           t == Exact(e.time)
           r == NewRecord(e.pid, e.name, t)
           D == CrashesIn(M, e.name, n)
<1>1. Len(L) \in Nat /\ n \in 1..n /\ M[n] = e /\ Len(M) = n
  BY CrashAdded
<1>2. D = {n}
  BY <1>1 DEF CrashesIn
<1>3. e.pid \in Nat /\ t \in Times /\ t.at = e.time /\ MaxLast \in Nat \ {0}
  <2>1. e.pid \in Nat /\ e.time \in Nat
    BY DEF CrashEntries
  <2> QED
    BY <2>1, ExactTimes, BoundsAssumption
<1>4. /\ r = [pid |-> e.pid, name |-> e.name, count |-> 1, times |-> << t >>]
      /\ Len(<< t >>) = 1 /\ << t >>[1] = t
  <2> HIDE DEF t
  <2> QED
    BY <1>3, NewRecordFacts
<1>5. After(M, e.name, n, n) = {}
  BY <1>1, <1>2 DEF After
<1>6. Cardinality(D) = 1 /\ Cardinality(After(M, e.name, n, n)) = 0
  BY <1>2, <1>5, FS_Singleton, FS_EmptySet
<1>7. Len(<< t >>) = (IF 1 < MaxLast THEN 1 ELSE MaxLast)
  BY <1>3, <1>4
<1> HIDE DEF M, n, r, D, t
<1>8. r.pid = e.pid /\ r.name = e.name /\ r.count = 1 /\ r.times = << t >>
  BY <1>4
<1>9. \A q \in 1..Len(r.times) :
        \E i \in D : Cardinality(After(M, e.name, n, i)) = q - 1 /\ r.times[q].at = M[i].time
  BY <1>1, <1>2, <1>3, <1>4, <1>6, <1>8
<1>10. /\ n \in D /\ r.pid = M[n].pid /\ r.count = Cardinality(D)
       /\ Len(r.times) = (IF r.count < MaxLast THEN r.count ELSE MaxLast)
  BY <1>1, <1>2, <1>4, <1>6, <1>7, <1>8
<1>11. D = CrashesIn(M, r.name, n)
  BY <1>8 DEF D
<1>12. Describes(M, r, n)
  BY <1>8, <1>9, <1>10, <1>11 DEF Describes
<1> QED
  BY <1>12 DEF M, n, r, t

(* The same from the first crash of the program on. *)
LEMMA DescribesAllAfter ==
  ASSUME NEW L \in Seq(CrashEntries), NEW e \in CrashEntries,
         NEW r \in Records, Len(r.times) <= MaxLast, DescribesAll(L, r)
  PROVE  /\ r.name # e.name => DescribesAll(Append(L, e), r)
         /\ r.name = e.name => DescribesAll(Append(L, e), Again(r, Exact(e.time)))
<1> DEFINE M == Append(L, e)
           n == Len(L) + 1
<1>1. PICK first \in 1..Len(L) :
        Describes(L, r, first) /\ \A i \in CrashesIn(L, r.name, 1) : first <= i
  BY DEF DescribesAll
<1>2. /\ Len(L) \in Nat /\ Len(M) = n /\ 1 \in 1..n
      /\ CrashesIn(M, e.name, 1) = CrashesIn(L, e.name, 1) \cup {n}
      /\ r.name # e.name => CrashesIn(M, r.name, 1) = CrashesIn(L, r.name, 1)
  <2>1. Len(L) \in Nat /\ Len(M) = n
    BY CrashAdded
  <2>2. \A k \in 1..n :
          /\ CrashesIn(M, e.name, k) = CrashesIn(L, e.name, k) \cup {n}
          /\ \A name : name # e.name => CrashesIn(M, name, k) = CrashesIn(L, name, k)
    BY CrashAdded
  <2>3. 1 \in 1..n
    BY <2>1
  <2> HIDE DEF M, n
  <2> QED
    BY <2>1, <2>2, <2>3
<1>3. first \in 1..Len(M) /\ first <= n
  BY <1>2
<1>4. r.name # e.name => Describes(M, r, first)
  BY <1>1, StillDescribes
<1>5. r.name = e.name => Describes(M, Again(r, Exact(e.time)), first)
  BY <1>1, DescribesAgain
<1>6. Again(r, Exact(e.time)).name = r.name
  BY DEF Again
<1> HIDE DEF M, n
<1>7. r.name # e.name => DescribesAll(M, r)
  BY <1>1, <1>2, <1>3, <1>4 DEF DescribesAll
<1>8. r.name = e.name => DescribesAll(M, Again(r, Exact(e.time)))
  BY <1>1, <1>2, <1>3, <1>5, <1>6 DEF DescribesAll
<1> QED
  BY <1>7, <1>8 DEF M

(* The programs of a table: there is one for each record. *)
NamesOf(j) == {j.slots[i].name : i \in 1..j.recCount}

(* A table has as many programs as records.                                *)
LEMMA TableNames ==
  ASSUME NEW j, IsTable(j)
  PROVE  IsFiniteSet(NamesOf(j)) /\ Cardinality(NamesOf(j)) = j.recCount
<1> DEFINE n == j.recCount
           f == [i \in 1..n |-> j.slots[i].name]
           N == NamesOf(j)
<1>1. n \in Nat /\ IsFiniteSet(1..n) /\ Cardinality(1..n) = n
  BY TableFacts, IntervalSize
<1>2. \A i, k \in 1..n : j.slots[i].name = j.slots[k].name => i = k
  BY DEF IsTable
<1>3. f \in [1..n -> N] /\ \A i \in 1..n : f[i] = j.slots[i].name
  BY DEF NamesOf
<1>4. \A x \in N : \E i \in 1..n : j.slots[i].name = x
  BY DEF NamesOf
<1> HIDE DEF f, N, n
<1>5. f \in Bijection(1..n, N)
  BY <1>2, <1>3, <1>4 DEF Bijection, Injection, Surjection, IsInjective
<1>6. ExistsBijection(1..n, N)
  BY <1>5 DEF ExistsBijection
<1>7. IsFiniteSet(N) /\ Cardinality(N) = Cardinality(1..n)
  BY <1>1, <1>6, FS_Bijection
<1> QED
  BY <1>1, <1>7 DEF N, n

(* The programs that crashed, and what one more crash adds to them. *)
LEMMA NamesAfter ==
  ASSUME NEW L \in Seq(CrashEntries), NEW e \in CrashEntries
  PROVE  /\ IsFiniteSet(NamesIn(L)) /\ Cardinality(NamesIn(L)) \in Nat
         /\ NamesIn(Append(L, e)) = NamesIn(L) \cup {e.name}
         /\ Cardinality(NamesIn(Append(L, e))) =
              Cardinality(NamesIn(L)) + (IF e.name \in NamesIn(L) THEN 0 ELSE 1)
<1> DEFINE M == Append(L, e)
           n == Len(L) + 1
           f == [i \in 1..Len(L) |-> L[i].name]
           N == NamesIn(L)
<1>1. /\ Len(L) \in Nat /\ Len(M) = n /\ M[n] = e
      /\ \A i \in 1..Len(L) : M[i] = L[i]
  BY CrashAdded
<1>2. NamesIn(M) = N \cup {e.name}
  <2>1. \A i : i \in 1..Len(M) <=> i \in 1..Len(L) \/ i = n
    BY <1>1
  <2> HIDE DEF M, n
  <2> QED
    BY <1>1, <2>1 DEF NamesIn
<1>3. IsFiniteSet(1..Len(L))
  BY <1>1, IntervalSize
<1>4. f \in Surjection(1..Len(L), N)
  BY DEF Surjection, NamesIn
<1>5. IsFiniteSet(N)
  BY <1>3, <1>4, FS_Surjection
<1> HIDE DEF M, N
<1>6. Cardinality(N) \in Nat
  BY <1>5, FS_CardinalityType
<1>7. Cardinality(N \cup {e.name}) = Cardinality(N) + (IF e.name \in N THEN 0 ELSE 1)
  <2>1. CASE e.name \in N
    <3>1. N \cup {e.name} = N
      BY <2>1
    <3>2. Cardinality(N) = Cardinality(N) + 0
      BY <1>6
    <3> QED
      BY <2>1, <3>1, <3>2
  <2>2. CASE e.name \notin N
    <3>1. Cardinality(N \cup {e.name}) = Cardinality(N) + 1
      BY <1>5, <2>2, FS_AddElement
    <3> QED
      BY <2>2, <3>1
  <2> QED
    BY <2>1, <2>2
<1> QED
  BY <1>2, <1>5, <1>6, <1>7 DEF M, N

(* record_crash_to_journal keeps a journal exact. *)
LEMMA CrashKeepsExact ==
  ASSUME NEW L \in Seq(CrashEntries), NEW e \in CrashEntries, IsPlain(e.name),
         NEW j, IsTable(j), IsExact(L, j)
  PROVE  IsExact(Append(L, e), RecordCrash(j, e.pid, e.name, Exact(e.time)))
<1> DEFINE pid == e.pid
           name == e.name
           t == Exact(e.time)
           g == RecordCrash(j, pid, name, t)
           r == NewRecord(pid, name, t)
           M == Append(L, e)
           n == Len(L) + 1
<1>1. pid \in Nat /\ t \in Times /\ IsPlain(name)
  <2>1. e.pid \in Nat /\ e.time \in Nat
    BY DEF CrashEntries
  <2> QED
    BY <2>1, ExactTimes
<1>2. /\ Len(L) \in Nat /\ Len(M) = n /\ n \in 1..Len(M) /\ 1 \in 1..n
      /\ \A i \in 1..Len(L) : i \in 1..Len(M)
      /\ CrashesIn(M, name, 1) = CrashesIn(L, name, 1) \cup {n}
  BY CrashAdded
<1>3. Describes(M, r, n)
  BY DescribesNew
<1>4. \A i \in 1..j.recCount : j.slots[i] \in Records /\ Len(j.slots[i].times) <= MaxLast
  BY TableFacts DEF IsTable
<1>5. ASSUME NEW i \in 1..j.recCount
      PROVE  /\ j.slots[i].name # name => \E first \in 1..Len(M) : Describes(M, j.slots[i], first)
             /\ j.slots[i].name = name => \E first \in 1..Len(M) : Describes(M, Again(j.slots[i], t), first)
  <2>1. PICK first \in 1..Len(L) : Describes(L, j.slots[i], first)
    BY <1>5 DEF IsExact
  <2> QED
    BY <1>2, <1>4, <2>1, StillDescribes, DescribesAgain
<1>6. ASSUME NEW i \in 1..j.recCount, DescribesAll(L, j.slots[i])
      PROVE  /\ j.slots[i].name # name => DescribesAll(M, j.slots[i])
             /\ j.slots[i].name = name => DescribesAll(M, Again(j.slots[i], t))
  BY <1>4, <1>6, DescribesAllAfter
<1>7. /\ IsFiniteSet(NamesIn(L)) /\ Cardinality(NamesIn(L)) \in Nat
      /\ NamesIn(M) = NamesIn(L) \cup {name}
      /\ Cardinality(NamesIn(M)) = Cardinality(NamesIn(L)) + (IF name \in NamesIn(L) THEN 0 ELSE 1)
  BY NamesAfter
<1>8. r.name = name
  BY <1>1, NewRecordFacts
<1> HIDE DEF pid, name, t, r, M, n
<1>9. \A k \in 1..g.recCount :
        \/ g.slots[k] = r /\ Unnamed(j, name)
        \/ \E i \in 1..j.recCount : j.slots[i].name = name /\ g.slots[k] = Again(j.slots[i], t)
        \/ \E i \in 1..j.recCount : j.slots[i].name # name /\ g.slots[k] = j.slots[i]
  BY <1>1, RecordsAfterCrash DEF r
<1>10. \/ \E i \in 1..j.recCount : j.slots[i].name = name /\ IsTouched(j, g, i, t)
       \/ Unnamed(j, name) /\ (IsInserted(j, g, r) \/ IsOverwritten(j, g, r))
  BY <1>1, CrashIsRecorded DEF r
<1>11. /\ j.recCount \in Nat /\ MaxRecs \in Nat \ {0} /\ j.recCount <= MaxRecs
       /\ \A i \in 1..j.recCount : i \in Slots
  BY TableFacts
<1> HIDE DEF g
<1>12. \A k \in 1..g.recCount : \E first \in 1..Len(M) : Describes(M, g.slots[k], first)
  <2> SUFFICES ASSUME NEW k \in 1..g.recCount
               PROVE  \E first \in 1..Len(M) : Describes(M, g.slots[k], first)
    OBVIOUS
  <2>1. CASE g.slots[k] = r
    BY <1>2, <1>3, <2>1
  <2>2. ASSUME NEW i \in 1..j.recCount, j.slots[i].name = name, g.slots[k] = Again(j.slots[i], t)
        PROVE  \E first \in 1..Len(M) : Describes(M, g.slots[k], first)
    BY <1>5, <2>2
  <2>3. ASSUME NEW i \in 1..j.recCount, j.slots[i].name # name, g.slots[k] = j.slots[i]
        PROVE  \E first \in 1..Len(M) : Describes(M, g.slots[k], first)
    BY <1>5, <2>3
  <2> QED
    BY <1>9, <2>1, <2>2, <2>3
<1>13. ASSUME Cardinality(NamesIn(M)) <= MaxRecs, NEW x \in NamesIn(M)
       PROVE  \E k \in 1..g.recCount : g.slots[k].name = x /\ DescribesAll(M, g.slots[k])
  <2>1. Cardinality(NamesIn(L)) <= MaxRecs
    BY <1>7, <1>11, <1>13
  <2>2. ASSUME NEW y \in NamesIn(L)
        PROVE  \E i \in 1..j.recCount : j.slots[i].name = y /\ DescribesAll(L, j.slots[i])
    BY <2>1 DEF IsExact
  <2>3. x = name \/ x \in NamesIn(L)
    BY <1>7, <1>13
  <2>4. ASSUME NEW i \in 1..j.recCount, j.slots[i].name = name, IsTouched(j, g, i, t)
        PROVE  \E k \in 1..g.recCount : g.slots[k].name = x /\ DescribesAll(M, g.slots[k])
    <3>1. g.recCount = j.recCount /\ g.slots[i] = Again(j.slots[i], t)
          /\ \A k \in Slots \ {i} : g.slots[k] = j.slots[k]
      BY <2>4 DEF IsTouched
    <3>2. \E first \in 1..Len(L) : Describes(L, j.slots[i], first)
      BY DEF IsExact
    <3>3. name \in NamesIn(L)
      BY <2>4, <3>2 DEF Describes, CrashesIn, NamesIn
    <3>4. PICK k \in 1..j.recCount : j.slots[k].name = x /\ DescribesAll(L, j.slots[k])
      BY <2>2, <2>3, <3>3
    <3>5. CASE k = i
      <4>1. x = name /\ DescribesAll(M, Again(j.slots[i], t))
        BY <1>6, <2>4, <3>4, <3>5
      <4>2. Again(j.slots[i], t).name = name
        BY <2>4 DEF Again
      <4> QED
        BY <3>1, <4>1, <4>2
    <3>6. CASE k # i
      <4>1. j.slots[k].name # name
        BY <2>4, <3>6 DEF IsTable
      <4>2. g.slots[k] = j.slots[k]
        BY <1>11, <3>1, <3>6
      <4> QED
        BY <1>6, <3>1, <3>4, <4>1, <4>2
    <3> QED
      BY <3>5, <3>6
  <2>5. ASSUME Unnamed(j, name) PROVE name \notin NamesIn(L)
    BY <2>2, <2>5 DEF Unnamed
  <2>6. CASE Unnamed(j, name) /\ IsInserted(j, g, r)
    <3>1. CASE x = name
      <4>1. CrashesIn(L, name, 1) = {}
        BY <2>5, <2>6 DEF CrashesIn, NamesIn
      <4>2. DescribesAll(M, r)
        BY <1>2, <1>3, <1>8, <4>1 DEF DescribesAll
      <4>3. 1 \in 1..g.recCount /\ g.slots[1] = r
        BY <1>11, <2>6 DEF IsInserted
      <4> QED
        BY <1>8, <3>1, <4>2, <4>3
    <3>2. CASE x # name
      <4>1. PICK i \in 1..j.recCount : j.slots[i].name = x /\ DescribesAll(L, j.slots[i])
        BY <2>2, <2>3, <3>2
      <4>2. i + 1 \in 1..g.recCount /\ g.slots[i + 1] = j.slots[i]
        BY <1>11, <2>6 DEF IsInserted
      <4> QED
        BY <1>6, <3>2, <4>1, <4>2
    <3> QED
      BY <3>1, <3>2
  <2>7. CASE Unnamed(j, name) /\ IsOverwritten(j, g, r)
    <3>1. NamesOf(j) \in SUBSET NamesIn(L)
      <4> SUFFICES ASSUME NEW i \in 1..j.recCount PROVE j.slots[i].name \in NamesIn(L)
        BY DEF NamesOf
      <4>1. \E first \in 1..Len(L) : Describes(L, j.slots[i], first)
        BY DEF IsExact
      <4> QED
        BY <4>1 DEF Describes, CrashesIn, NamesIn
    <3>2. Cardinality(NamesOf(j)) = MaxRecs
      BY <2>7, TableNames DEF IsOverwritten
    <3>3. Cardinality(NamesOf(j)) <= Cardinality(NamesIn(L))
      BY <1>7, <3>1, FS_Subset
    <3>4. Cardinality(NamesIn(M)) = Cardinality(NamesIn(L)) + 1
      BY <1>7, <2>5, <2>7
    <3> QED
      BY <1>7, <1>11, <1>13, <3>2, <3>3, <3>4
  <2> QED
    BY <1>10, <2>4, <2>6, <2>7
<1>14. IsExact(M, g)
  BY <1>12, <1>13 DEF IsExact
<1> QED
  BY <1>14 DEF M, g, pid, name, t

(* An empty file is read as a journal that starts now. *)
LEMMA EmptyIsRead ==
  ASSUME NEW t
  PROVE  ReadJournal(<<>>, t) = BlankJournal(t)
<1>1. IsSequence(<<>>) /\ Len(<<>>) = 0
  BY DEF IsSequence
<1>3. ReadJournal(<<>>, t) = [BlankJournal(t) EXCEPT !.start = t]
  BY <1>1 DEF ReadJournal, HasTotal, HeaderTime, HasHeader
<1> QED
  BY <1>3 DEF BlankJournal

(* Whether a journal is exact does not depend on when it was started. *)
LEMMA BlankIsExact ==
  ASSUME NEW L, NEW s, NEW t, IsExact(L, BlankJournal(s))
  PROVE  IsExact(L, BlankJournal(t))
<1>1. /\ BlankJournal(s).recCount = BlankJournal(t).recCount
      /\ BlankJournal(s).slots = BlankJournal(t).slots
  BY DEF BlankJournal
<1> QED
  BY <1>1 DEF IsExact
----------------------------------------------------------------------------
(***************************************************************************)
(* What is read of any file, also of one that handlers wrote over each     *)
(* other or of which some writes failed.                                   *)
(***************************************************************************)

(* Two sequences, joined. *)
LEMMA Joined ==
  ASSUME NEW S, NEW a \in Seq(S), NEW b \in Seq(S)
  PROVE  /\ a \o b \in Seq(S)
         /\ Len(a \o b) = Len(a) + Len(b)
         /\ \A x \in 1..Len(a) : (a \o b)[x] = a[x]
         /\ \A x \in 1..Len(b) : (a \o b)[Len(a) + x] = b[x]
<1> DEFINE c == a \o b
<1>1. c \in Seq(S) /\ Len(c) = Len(a) + Len(b)
  OBVIOUS
<1>2. \A x \in 1..Len(a) : c[x] = a[x]
  OBVIOUS
<1>3. \A x \in 1..Len(b) : c[Len(a) + x] = b[x]
  OBVIOUS
<1> QED
  BY <1>1, <1>2, <1>3

(* n sequences, and what FlattenSeq has made of the first k of them. *)
SeqsOf(S, s, n) == n \in Nat \ {0} /\ \A i \in 1..n : s[i] \in Seq(S)

Flattening(S, s, k, F) ==
  /\ F \in [1..k -> Seq(S)]
  /\ F[1] = s[1]
  /\ \A i \in 2..k : F[i] = F[i - 1] \o s[i]

(* FlattenSeq chooses a function that exists. *)
LEMMA FlatteningExists ==
  ASSUME NEW S, NEW n \in Nat \ {0}, NEW s, \A i \in 1..n : s[i] \in Seq(S)
  PROVE  \E F : Flattening(S, s, n, F)
<1> DEFINE D == {k \in 1..n : ~\E F : Flattening(S, s, k, F)}
<1>1. D = {}
  <2> SUFFICES ASSUME D # {} PROVE FALSE
    OBVIOUS
  <2>1. D \in SUBSET Nat
    OBVIOUS
  <2> DEFINE k == Min(D)
  <2> HIDE DEF D
  <2>2. k \in D /\ \A m \in D : k <= m
    BY <2>1, LeastOf
  <2> HIDE DEF k
  <2>3. k \in 1..n /\ k \in Nat
    BY <2>2 DEF D
  <2>4. CASE k = 1
    <3> DEFINE G == [i \in 1..1 |-> s[1]]
    <3>1. s[1] \in Seq(S)
      BY <2>3, <2>4
    <3>2. G \in [1..1 -> Seq(S)] /\ G[1] = s[1]
      BY <3>1
    <3> HIDE DEF G
    <3>3. Flattening(S, s, 1, G)
      BY <3>2 DEF Flattening
    <3> QED
      BY <2>2, <2>4, <3>3 DEF D
  <2>5. CASE k # 1
    <3>1. k - 1 \in 1..n /\ k - 1 \notin D /\ k - 1 \in Nat /\ (k - 1) + 1 = k
      BY <2>2, <2>3, <2>5
    <3>2. PICK F : Flattening(S, s, k - 1, F)
      BY <3>1 DEF D
    <3> DEFINE G == [i \in 1..k |-> IF i = k THEN F[k - 1] \o s[k] ELSE F[i]]
    <3>3. F \in [1..(k - 1) -> Seq(S)] /\ F[1] = s[1]
          /\ \A i \in 2..(k - 1) : F[i] = F[i - 1] \o s[i]
      BY <3>2 DEF Flattening
    <3>4. F[k - 1] \in Seq(S) /\ s[k] \in Seq(S)
      BY <2>3, <2>5, <3>1, <3>3
    <3>5. F[k - 1] \o s[k] \in Seq(S)
      BY <3>4
    <3>6. ASSUME NEW i \in 1..k PROVE G[i] \in Seq(S)
      <4>1. i # k => i \in 1..(k - 1)
        BY <2>3
      <4> QED
        BY <3>3, <3>5, <4>1
    <3>7. G[1] = s[1]
      BY <2>3, <2>5, <3>3
    <3>8. ASSUME NEW i \in 2..k PROVE G[i] = G[i - 1] \o s[i]
      <4>1. i \in 1..k /\ i - 1 \in 1..k /\ i - 1 # k /\ (i # k => i \in 2..(k - 1))
        BY <2>3
      <4>2. G[i - 1] = F[i - 1]
        BY <4>1
      <4>3. G[i] = IF i = k THEN F[k - 1] \o s[k] ELSE F[i]
        BY <4>1
      <4> HIDE DEF G
      <4> QED
        BY <3>3, <4>1, <4>2, <4>3
    <3>9. G \in [1..k -> Seq(S)]
      BY <3>6
    <3> HIDE DEF G
    <3>10. Flattening(S, s, k, G)
      BY <3>7, <3>8, <3>9 DEF Flattening
    <3> QED
      BY <2>2, <3>10 DEF D
  <2> QED
    BY <2>4, <2>5
<1>2. n \in 1..n
  OBVIOUS
<1> QED
  BY <1>1, <1>2

(* The mth of them is a beginning of the nth. *)
Grows(F, m, n) ==
  /\ Len(F[m]) <= Len(F[n])
  /\ \A x \in 1..Len(F[m]) : F[n][x] = F[m][x]

(* Each sequence that is added leaves those before it where they were. *)
LEMMA FlatteningGrows ==
  ASSUME NEW S, NEW n, NEW s, SeqsOf(S, s, n), NEW F, Flattening(S, s, n, F), NEW m \in 1..n
  PROVE  Grows(F, m, n)
<1> USE DEF SeqsOf, Grows
<1> DEFINE Keeps(k) == /\ Len(F[m]) <= Len(F[k])
                       /\ \A x \in 1..Len(F[m]) : F[k][x] = F[m][x]
           D == {k \in m..n : ~Keeps(k)}
<1>1. \A k \in 1..n : F[k] \in Seq(S) /\ Len(F[k]) \in Nat
  BY DEF Flattening
<1>2. D = {}
  <2> SUFFICES ASSUME D # {} PROVE FALSE
    OBVIOUS
  <2>1. D \in SUBSET Nat
    OBVIOUS
  <2> DEFINE k == Min(D)
  <2> HIDE DEF D
  <2>2. k \in D /\ \A i \in D : k <= i
    BY <2>1, LeastOf
  <2> HIDE DEF k
  <2>3. k \in m..n /\ k \in Nat /\ ~Keeps(k)
    BY <2>2 DEF D
  <2>4. CASE k = m
    BY <1>1, <2>3, <2>4
  <2>5. CASE k # m
    <3>1. k - 1 \in m..n /\ k - 1 \notin D /\ k - 1 \in 1..n /\ k \in 2..n /\ k \in 1..n
      BY <2>2, <2>3, <2>5
    <3>2. Keeps(k - 1)
      BY <3>1 DEF D
    <3> DEFINE a == F[k - 1]
               b == s[k]
               c == F[k]
    <3>3. c = a \o b /\ a \in Seq(S) /\ b \in Seq(S) /\ Len(F[m]) \in Nat
      BY <1>1, <3>1 DEF Flattening
    <3>4. Len(F[m]) <= Len(a) /\ \A x \in 1..Len(F[m]) : a[x] = F[m][x]
      BY <3>2
    <3> HIDE DEF a, b, c
    <3>5. Len(c) = Len(a) + Len(b) /\ Len(a) \in Nat /\ Len(b) \in Nat
          /\ \A x \in 1..Len(a) : c[x] = a[x]
      BY <3>3
    <3>6. Len(F[m]) <= Len(c)
      BY <3>3, <3>4, <3>5
    <3>7. \A x \in 1..Len(F[m]) : c[x] = F[m][x]
      <4> DEFINE z == Len(F[m])
      <4>1. z \in Nat /\ z <= Len(a) /\ Len(a) \in Nat
        BY <3>3, <3>4, <3>5
      <4> HIDE DEF z
      <4>2. \A x \in 1..z : x \in 1..Len(a)
        BY <4>1
      <4> QED
        BY <3>4, <3>5, <4>2 DEF z
    <3> QED
      BY <2>3, <3>6, <3>7 DEF c
  <2> QED
    BY <2>4, <2>5
<1>3. n \in m..n
  OBVIOUS
<1> QED
  BY <1>2, <1>3

(* A sequence starts with the first two of others. *)
StartsWith(t, s, n) ==
  /\ n = 1 => t = s[1]
  /\ Len(s[1]) <= Len(t)
  /\ \A x \in 1..Len(s[1]) : t[x] = s[1][x]
  /\ n > 1 => /\ Len(s[1]) + Len(s[2]) <= Len(t)
              /\ \A x \in 1..Len(s[2]) : t[Len(s[1]) + x] = s[2][x]

(* What FlattenSeq yields starts with the elements of the first two. *)
LEMMA FlattenedBegins ==
  ASSUME NEW S, NEW n \in Nat \ {0}, NEW s, Len(s) = n, \A i \in 1..n : s[i] \in Seq(S)
  PROVE  /\ FlattenSeq(s) \in Seq(S)
         /\ StartsWith(FlattenSeq(s), s, n)
<1>1. PICK F : Flattening(S, s, n, F)
  BY FlatteningExists
<1>2. F \in [1..n -> Seq(S)] /\ F[1] = s[1] /\ \A i \in 2..n : F[i] = F[i - 1] \o s[i]
  BY <1>1 DEF Flattening
<1>3. F = [i \in 1..n |-> IF i = 1 THEN s[i] ELSE F[i - 1] \o s[i]]
  <2>1. \A i \in 1..n : i # 1 => i \in 2..n
    OBVIOUS
  <2>2. \A i \in 1..n : F[i] = IF i = 1 THEN s[i] ELSE F[i - 1] \o s[i]
    BY <1>2, <2>1
  <2> QED
    BY <1>2, <2>2
<1>4. FlattenSeq(s) = F[n]
  <2>1. Folded(s, n, F)
    BY <1>3 DEF Folded
  <2> QED
    BY <2>1, FlattenedBy
<1>5. 1 \in 1..n /\ n \in 1..n
  OBVIOUS
<1>6. F[n] \in Seq(S)
  BY <1>2, <1>5
<1>7. \A m \in 1..n : /\ Len(F[m]) <= Len(F[n])
                      /\ \A x \in 1..Len(F[m]) : F[n][x] = F[m][x]
  <2>1. SeqsOf(S, s, n)
    BY DEF SeqsOf
  <2>2. \A m \in 1..n : Grows(F, m, n)
    BY <1>1, <2>1, FlatteningGrows
  <2> QED
    BY <2>2 DEF Grows
<1>8. ASSUME n > 1
      PROVE  /\ Len(s[1]) + Len(s[2]) <= Len(F[n])
             /\ \A x \in 1..Len(s[2]) : F[n][Len(s[1]) + x] = s[2][x]
  <2>1. 2 \in 1..n /\ 2 \in 2..n /\ 2 - 1 = 1
    BY <1>8
  <2>2. F[2] = s[1] \o s[2] /\ s[1] \in Seq(S) /\ s[2] \in Seq(S)
    BY <1>2, <1>5, <2>1
  <2>3. /\ Len(F[2]) <= Len(F[n])
        /\ \A x \in 1..Len(F[2]) : F[n][x] = F[2][x]
    BY <1>7, <2>1
  <2> DEFINE a == s[1]
             b == s[2]
             c == F[2]
             d == F[n]
  <2>4. /\ c = a \o b /\ a \in Seq(S) /\ b \in Seq(S)
        /\ Len(c) <= Len(d) /\ \A x \in 1..Len(c) : d[x] = c[x]
    BY <2>2, <2>3
  <2> HIDE DEF a, b, c, d
  <2>5. Len(c) = Len(a) + Len(b) /\ Len(a) \in Nat /\ Len(b) \in Nat
        /\ \A x \in 1..Len(b) : c[Len(a) + x] = b[x] /\ Len(a) + x \in 1..Len(c)
    BY <2>4
  <2>6. Len(a) + Len(b) <= Len(d)
    BY <2>4, <2>5
  <2>7. \A x \in 1..Len(b) : d[Len(a) + x] = b[x]
    BY <2>4, <2>5
  <2> QED
    BY <2>6, <2>7 DEF a, b, c, d
<1> QED
  BY <1>2, <1>4, <1>5, <1>6, <1>7, <1>8 DEF StartsWith
(* The chunks a line is made of, and the words of a line. *)
HeadChunks == [k : {"head"}, pid : Nat, name : Texts, count : Nat]
TimeChunks == [k : {"time"}, t : Times]
LineChunks == HeadChunks \cup TimeChunks
TokenType  == [kind : {"number"}, v : Nat] \cup [kind : {"time"}, v : Times]
                \cup [kind : {"text"}, s : Texts]

IsLine(line, n) == line = [i \in 1..n |-> line[i]] /\ \A i \in 1..n : line[i] \in LineChunks

(* The words that a chunk contributes to its line. *)
LEMMA ChunkTokensAre ==
  ASSUME NEW n \in Nat \ {0}, NEW line, IsLine(line, n), NEW i \in 1..n
  PROVE  /\ ChunkTokens(line, i) \in Seq(TokenType)
         /\ line[i].k = "time" => ChunkTokens(line, i) = << TimeToken(line[i].t) >>
         /\ line[i].k = "head" =>
              LET words == Words[line[i].name]
                  tok == ChunkTokens(line, i)
              IN  /\ words \in Seq(Texts)
                  /\ i = 1 => /\ Len(tok) = Len(words) + 2
                              /\ words # <<>> => tok[2] = TextToken(words[1])
                              /\ words = <<>> => tok[2].kind = "number"
                  /\ i # 1 => /\ Len(tok) = Len(words) + 1
                              /\ words # <<>> => tok[1] = TextToken(words[1])
                              /\ words = <<>> => tok[1].kind = "number"
<1>1. line[i] \in LineChunks /\ Len(line) = n
  BY SegmentIsSequence DEF IsLine
<1>2. CASE line[i] \in TimeChunks
  <2>1. line[i].k = "time" /\ line[i].t \in Times
    BY <1>2 DEF TimeChunks
  <2>2. TimeToken(line[i].t) \in TokenType
    BY <2>1 DEF TimeToken, TokenType
  <2>3. ChunkTokens(line, i) = << TimeToken(line[i].t) >>
    BY <2>1 DEF ChunkTokens
  <2> QED
    BY <2>1, <2>2, <2>3
<1>3. CASE line[i] \in HeadChunks
  <2>1. /\ line[i].k = "head" /\ line[i].pid \in Nat /\ line[i].name \in Texts
        /\ line[i].count \in Nat
    BY <1>3 DEF HeadChunks
  <2> DEFINE words == Words[line[i].name]
             glued == i < Len(line) /\ line[i + 1].k = "head"
             count == IF glued THEN 10 * line[i].count + line[i + 1].pid ELSE line[i].count
             texts == [q \in 1..Len(words) |-> TextToken(words[q])]
             first == IF i = 1 THEN << NumToken(line[i].pid) >> ELSE <<>>
             tok == ChunkTokens(line, i)
  <2>2. words \in Seq(Texts)
    BY <2>1, TextAssumption
  <2>3. count \in Nat
    <3>1. glued => line[i + 1].pid \in Nat
      <4> SUFFICES ASSUME glued PROVE line[i + 1].pid \in Nat
        OBVIOUS
      <4>1. i + 1 \in 1..n
        BY <1>1
      <4>2. line[i + 1] \in LineChunks /\ line[i + 1].k = "head"
        BY <4>1 DEF IsLine
      <4> QED
        BY <4>2 DEF LineChunks, HeadChunks, TimeChunks
    <3> QED
      BY <2>1, <3>1
  <2>4. tok = first \o texts \o << NumToken(count) >>
    BY <2>1 DEF ChunkTokens
  <2>5. NumToken(count) \in TokenType /\ NumToken(line[i].pid) \in TokenType
    BY <2>1, <2>3 DEF NumToken, TokenType
  <2>6. ASSUME NEW q \in 1..Len(words) PROVE TextToken(words[q]) \in TokenType
    <3>1. words[q] \in Texts
      BY <2>2
    <3> QED
      BY <3>1 DEF TextToken, TokenType
  <2>7. texts \in Seq(TokenType) /\ Len(texts) = Len(words) /\ Len(words) \in Nat
    <3>1. Len(words) \in Nat
      BY <2>2
    <3>2. texts \in [1..Len(words) -> TokenType]
      BY <2>6
    <3> HIDE DEF texts, words
    <3> QED
      BY <3>1, <3>2
  <2>8. first \in Seq(TokenType) /\ Len(first) = (IF i = 1 THEN 1 ELSE 0)
    BY <2>5
  <2> DEFINE two == first \o texts
             last == << NumToken(count) >>
  <2>9. words # <<>> => Len(words) >= 1 /\ texts[1] = TextToken(words[1])
    <3> SUFFICES ASSUME words # <<>> PROVE Len(words) >= 1
      <4>1. Len(words) \in Nat
        BY <2>7
      <4> QED
        BY <4>1
    <3> HIDE DEF words
    <3> QED
      BY <2>2
  <2>10. words = <<>> => Len(words) = 0
    OBVIOUS
  <2>11. last \in Seq(TokenType) /\ Len(last) = 1 /\ last[1].kind = "number"
    BY <2>5 DEF NumToken
  <2>12. tok = two \o last
    BY <2>4
  <2> HIDE DEF texts, first, last, words, tok, two
  <2>13. /\ two \in Seq(TokenType) /\ Len(two) = Len(first) + Len(texts)
         /\ \A x \in 1..Len(texts) : two[Len(first) + x] = texts[x]
    BY SMTT(30), <2>7, <2>8, Joined DEF two
  <2>14. /\ tok \in Seq(TokenType) /\ Len(tok) = Len(two) + 1
         /\ \A x \in 1..Len(two) : tok[x] = two[x]
         /\ tok[Len(two) + 1] = last[1]
    BY <2>11, <2>12, <2>13, Joined
  <2>15. words # <<>> => tok[Len(first) + 1] = TextToken(words[1])
    <3> SUFFICES ASSUME words # <<>> PROVE tok[Len(first) + 1] = TextToken(words[1])
      OBVIOUS
    <3>1. 1 \in 1..Len(texts) /\ Len(first) + 1 \in 1..Len(two)
      BY <2>7, <2>8, <2>9, <2>13
    <3> QED
      BY <2>9, <2>13, <2>14, <3>1
  <2>16. words = <<>> => tok[Len(first) + 1].kind = "number"
    <3> SUFFICES ASSUME words = <<>> PROVE tok[Len(first) + 1].kind = "number"
      OBVIOUS
    <3>1. Len(two) = Len(first)
      BY <2>7, <2>8, <2>10, <2>13
    <3> QED
      BY <2>11, <2>14, <3>1
  <2>17. /\ i = 1 => Len(first) + 1 = 2 /\ Len(tok) = Len(words) + 2
         /\ i # 1 => Len(first) + 1 = 1 /\ Len(tok) = Len(words) + 1
    BY <2>7, <2>8, <2>13, <2>14
  <2> QED
    BY <2>1, <2>2, <2>14, <2>15, <2>16, <2>17 DEF tok, words
<1> QED
  BY <1>1, <1>2, <1>3 DEF LineChunks

(* Every line is read into a record, whatever was written to it. *)
LEMMA LineIsRecord ==
  ASSUME NEW n \in Nat \ {0}, NEW line, IsLine(line, n)
  PROVE  /\ Tokens(line) \in Seq(TokenType)
         /\ ReadRecord(line) \in Records
         /\ Len(ReadRecord(line).times) <= MaxLast
<1> DEFINE s == [i \in 1..Len(line) |-> ChunkTokens(line, i)]
           tok == Tokens(line)
           size == Len(tok)
<1>1. Len(line) = n
  BY SegmentIsSequence DEF IsLine
<1>2. Len(s) = n /\ \A i \in 1..n : s[i] \in Seq(TokenType)
  <2>1. s = [i \in 1..n |-> s[i]]
    BY <1>1
  <2>2. \A i \in 1..n : s[i] = ChunkTokens(line, i)
    BY <1>1
  <2> HIDE DEF s
  <2> QED
    BY <2>1, <2>2, SegmentIsSequence, ChunkTokensAre
<1>3. tok = FlattenSeq(s)
  BY DEF Tokens
<1> HIDE DEF s, tok
<1>4. tok \in Seq(TokenType)
  BY <1>2, <1>3, FlattenedBegins
<1>5. size \in Nat /\ \A x \in 1..size : tok[x] \in TokenType
  BY <1>4
<1> HIDE DEF size
<1>6. ASSUME NEW x \in 1..size
      PROVE  /\ AsNumber(tok[x]) \in Nat /\ AsTime(tok[x]) \in Times
             /\ AsName(tok[x]) \in Texts
  <2>1. tok[x] \in TokenType
    BY <1>5
  <2> QED
    BY <2>1, TextAssumption, NoTimeIsTime DEF TokenType, AsNumber, AsTime, AsName, Junk
<1> DEFINE last == IF size < 3 + MaxLast THEN size ELSE 3 + MaxLast
           m == IF size >= 3 THEN last - 3 ELSE 0
           times == [q \in 1..m |-> AsTime(tok[q + 3])]
           pid == IF size >= 1 THEN AsNumber(tok[1]) ELSE 0
           name == IF size >= 2 THEN AsName(tok[2]) ELSE NoName
           count == IF size >= 3 THEN AsNumber(tok[3]) ELSE 0
<1>7. ReadRecord(line) = [pid |-> pid, name |-> name, count |-> count, times |-> times]
  BY DEF ReadRecord, tok, size
<1>8. m \in Nat /\ m <= MaxLast /\ \A q \in 1..m : q + 3 \in 1..size
  BY <1>5, BoundsAssumption
<1>9. times \in Seq(Times) /\ Len(times) = m
  <2>1. times \in [1..m -> Times]
    BY <1>6, <1>8
  <2> HIDE DEF times, m
  <2> QED
    BY <1>8, <2>1
<1>10. pid \in Nat /\ name \in Texts /\ count \in Nat
  <2>1. /\ size >= 1 => 1 \in 1..size
        /\ size >= 2 => 2 \in 1..size
        /\ size >= 3 => 3 \in 1..size
    BY <1>5
  <2> QED
    BY <1>6, <2>1, TextAssumption
<1> HIDE DEF pid, name, count, times, m
<1>11. ReadRecord(line) \in Records /\ Len(ReadRecord(line).times) <= MaxLast
  BY <1>7, <1>8, <1>9, <1>10 DEF Records
<1> QED
  BY <1>4, <1>11 DEF tok

(* The path of a record that is read is one that was written at the line's *)
(* first or second place, or none at all.                                  *)
LEMMA NameInLine ==
  ASSUME NEW n \in Nat \ {0}, NEW line, IsLine(line, n)
  PROVE  \/ ReadRecord(line).name \in {NoName, OtherText}
         \/ \E h \in 1..n : /\ h \in {1, 2}
                            /\ line[h].k = "head"
                            /\ Words[line[h].name] # <<>>
                            /\ ReadRecord(line).name = Cut[Words[line[h].name][1]]
<1> DEFINE s == [i \in 1..Len(line) |-> ChunkTokens(line, i)]
           tok == Tokens(line)
           name == ReadRecord(line).name
<1>1. Len(line) = n /\ \A i \in 1..n : line[i].k \in {"time", "head"}
  <2>1. Len(line) = n /\ \A i \in 1..n : line[i] \in LineChunks
    BY SegmentIsSequence DEF IsLine
  <2> QED
    BY <2>1 DEF LineChunks, HeadChunks, TimeChunks
<1>2. Len(s) = n /\ \A i \in 1..n : s[i] = ChunkTokens(line, i)
  <2>1. s = [i \in 1..n |-> s[i]]
    BY <1>1
  <2>2. \A i \in 1..n : s[i] = ChunkTokens(line, i)
    BY <1>1
  <2>3. Len(s) = n
    BY <2>1, SegmentIsSequence
  <2> HIDE DEF s
  <2> QED
    BY <2>2, <2>3
<1>3. tok = FlattenSeq(s)
  BY DEF Tokens
<1>4. name = IF Len(tok) >= 2 THEN AsName(tok[2]) ELSE NoName
  BY DEF ReadRecord
<1> HIDE DEF s, tok, name
<1>5. \A i \in 1..n : s[i] \in Seq(TokenType)
  BY <1>2, ChunkTokensAre
<1>6. /\ n = 1 => tok = s[1]
      /\ Len(s[1]) <= Len(tok)
      /\ \A x \in 1..Len(s[1]) : tok[x] = s[1][x]
      /\ n > 1 => /\ Len(s[1]) + Len(s[2]) <= Len(tok)
                  /\ \A x \in 1..Len(s[2]) : tok[Len(s[1]) + x] = s[2][x]
  <2>1. Len(s) = n
    BY <1>2
  <2>2. StartsWith(tok, s, n)
    BY <1>3, <1>5, <2>1, FlattenedBegins
  <2> QED
    BY <2>2 DEF StartsWith
<1>7. 1 \in 1..n /\ (n > 1 => 2 \in 1..n)
  OBVIOUS
<1>8. \A w : /\ AsName(TextToken(w)) = Cut[w]
             /\ \A t : t.kind \in {"number", "time"} => AsName(t) = OtherText
  BY DEF AsName, TextToken
<1>9. CASE line[1].k = "head"
  <2> DEFINE words == Words[line[1].name]
  <2>1. /\ words \in Seq(Texts) /\ Len(s[1]) = Len(words) + 2
        /\ words # <<>> => s[1][2] = TextToken(words[1])
        /\ words = <<>> => s[1][2].kind = "number"
    BY <1>2, <1>7, <1>9, ChunkTokensAre
  <2> HIDE DEF words
  <2>2. Len(words) \in Nat /\ 2 \in 1..Len(s[1])
    BY <2>1
  <2>3. tok[2] = s[1][2] /\ Len(tok) >= 2
    <3>1. Len(tok) \in Nat /\ Len(s[1]) \in Nat
      <4>1. tok \in Seq(TokenType)
        BY <1>2, <1>3, <1>5, FlattenedBegins
      <4> QED
        BY <1>5, <1>7, <4>1
    <3> QED
      BY <1>6, <2>2, <3>1
  <2>4. words # <<>> => name = Cut[words[1]]
    BY <1>4, <1>8, <2>1, <2>3
  <2>5. words = <<>> => name = OtherText
    BY <1>4, <1>8, <2>1, <2>3
  <2> QED
    BY <1>7, <1>9, <2>4, <2>5 DEF words, name
<1>10. CASE line[1].k = "time"
  <2>1. s[1] = << TimeToken(line[1].t) >>
    BY <1>2, <1>7, <1>10, ChunkTokensAre
  <2>2. Len(s[1]) = 1
    BY <2>1
  <2>3. CASE n = 1
    BY <1>4, <1>6, <2>2, <2>3 DEF name
  <2>4. CASE n > 1 /\ line[2].k = "time"
    <3>1. s[2] = << TimeToken(line[2].t) >>
      BY <1>2, <1>7, <2>4, ChunkTokensAre
    <3>2. Len(s[2]) = 1 /\ s[2][1].kind = "time"
      BY <3>1 DEF TimeToken
    <3>3. tok[2] = s[2][1]
      BY <1>6, <2>2, <2>4, <3>2
    <3> QED
      BY <1>4, <1>8, <3>2, <3>3 DEF name
  <2>5. CASE n > 1 /\ line[2].k = "head"
    <3> DEFINE words == Words[line[2].name]
    <3>1. /\ words \in Seq(Texts) /\ Len(s[2]) = Len(words) + 1
          /\ words # <<>> => s[2][1] = TextToken(words[1])
          /\ words = <<>> => s[2][1].kind = "number"
      BY <1>2, <1>7, <2>5, ChunkTokensAre
    <3> HIDE DEF words
    <3>2. Len(words) \in Nat /\ 1 \in 1..Len(s[2])
      BY <3>1
    <3>3. tok[2] = s[2][1]
      BY <1>6, <2>2, <2>5, <3>2
    <3>4. words # <<>> => name \in {NoName, Cut[words[1]]}
      BY <1>4, <1>8, <3>1, <3>3
    <3>5. words = <<>> => name \in {NoName, OtherText}
      BY <1>4, <1>8, <3>1, <3>3
    <3> QED
      BY <1>7, <2>5, <3>4, <3>5 DEF words, name
  <2> QED
    BY <1>1, <1>7, <2>3, <2>4, <2>5
<1> QED
  BY <1>1, <1>7, <1>9, <1>10
(* What can be in the file: the header's chunks only where the header is.  *)
IsFile(f) ==
  /\ IsSequence(f)
  /\ \A i \in 1..Len(f) :
       \/ f[i] \in LineChunks \cup {NewlineChunk}
       \/ i = 1 /\ f[i] \in [k : {"start"}, t : Times]
       \/ i \in {1, 2} /\ f[i] \in [k : {"total"}, n : Nat]

(* A line is what there is up to the next newline or to the end. *)
LEMMA LineShape ==
  ASSUME NEW f, IsSequence(f), NEW b \in 1..Len(f), f[b] # NewlineChunk
  PROVE  \E n \in Nat \ {0} :
           /\ b + n - 1 <= Len(f)
           /\ LineFrom(f, b) = [i \in 1..n |-> f[b + i - 1]]
           /\ \A i \in 1..n : f[b + i - 1] # NewlineChunk
<1> DEFINE m == Len(f)
           end == SelectInSubSeq(f, b, m, LAMBDA chunk : chunk = NewlineChunk)
           I == {i \in b..m : f[i] = NewlineChunk}
           e == IF end = 0 THEN m ELSE end - 1
<1>1. m \in Nat /\ b \in Nat /\ b >= 1 /\ b <= m
  BY DEF IsSequence
<1>2. end = IF I # {} THEN Min(I) ELSE 0
  BY DEF SelectInSubSeq
<1>3. LineFrom(f, b) = SubSeq(f, b, e)
  BY DEF LineFrom
<1> HIDE DEF end
<1>4. e \in b..m /\ \A i \in b..e : f[i] # NewlineChunk
  <2>1. CASE I = {}
    BY <1>1, <1>2, <2>1
  <2>2. CASE I # {}
    <3>1. I \in SUBSET Nat
      BY <1>1
    <3> DEFINE x == Min(I)
    <3>2. x \in I /\ \A i \in I : x <= i
      BY <2>2, <3>1, LeastOf
    <3> HIDE DEF x
    <3>3. x \in b..m /\ x # b
      BY <3>2
    <3>4. end = x /\ x # 0
      BY <1>1, <1>2, <2>2, <3>3 DEF x
    <3>5. e = x - 1 /\ e \in b..m
      BY <1>1, <3>3, <3>4
    <3> HIDE DEF e
    <3>6. ASSUME NEW i \in b..e PROVE f[i] # NewlineChunk
      <4>1. i \in b..m /\ ~(x <= i)
        BY <1>1, <3>3, <3>5
      <4> QED
        BY <3>2, <4>1
    <3> QED
      BY <3>5, <3>6
  <2> QED
    BY <2>1, <2>2
<1> HIDE DEF e
<1> DEFINE n == e - b + 1
<1>5. n \in Nat \ {0} /\ b + n - 1 = e /\ e <= m
  BY <1>1, <1>4
<1>6. SubSeq(f, b, e) = [i \in 1..n |-> f[b + i - 1]]
  BY <1>1, <1>4 DEF IsSequence
<1>7. ASSUME NEW i \in 1..n PROVE b + i - 1 \in b..e
  BY <1>1, <1>4, <1>5
<1> HIDE DEF n
<1> QED
  BY <1>3, <1>4, <1>5, <1>6, <1>7

(* The lines of what a reader sees are made of heads and times. *)
LEMMA LinesAreLines ==
  ASSUME NEW f, IsFile(f), NEW b \in Begins(f)
  PROVE  \E n \in Nat \ {0} :
           /\ b + n - 1 <= Len(f)
           /\ LineFrom(f, b) = [i \in 1..n |-> f[b + i - 1]]
           /\ \A i \in 1..n : f[b + i - 1] # NewlineChunk
           /\ IsLine(LineFrom(f, b), n)
<1> DEFINE line == LineFrom(f, b)
<1>1. b \in 3..Len(f) /\ f[b] # NewlineChunk /\ IsSequence(f) /\ Len(f) \in Nat
  BY DEF Begins, IsFile, IsSequence
<1>2. b \in 1..Len(f) /\ b \in Nat /\ b >= 3
  BY <1>1
<1>3. PICK n \in Nat \ {0} : /\ b + n - 1 <= Len(f)
                             /\ line = [i \in 1..n |-> f[b + i - 1]]
                             /\ \A i \in 1..n : f[b + i - 1] # NewlineChunk
  BY <1>1, <1>2, LineShape
<1> HIDE DEF line
<1>4. ASSUME NEW i \in 1..n PROVE line[i] \in LineChunks
  <2>1. b + i - 1 \in 3..Len(f) /\ b + i - 1 \in 1..Len(f)
    BY <1>1, <1>2, <1>3
  <2>2. f[b + i - 1] # NewlineChunk
    BY <1>3, <2>1
  <2>3. b + i - 1 \notin {1, 2}
    BY <2>1
  <2> DEFINE x == b + i - 1
  <2> HIDE DEF x
  <2>4. f[x] \in LineChunks
    BY <2>1, <2>2, <2>3 DEF IsFile, x
  <2>5. line[i] = f[x]
    BY <1>3 DEF x
  <2> QED
    BY <2>4, <2>5
<1>5. IsLine(line, n)
  BY <1>3, <1>4 DEF IsLine
<1> QED
  BY <1>3, <1>5 DEF line

(* The n-th member of a set of numbers is one, and has n up to it. *)
LEMMA NthIsMember ==
  ASSUME NEW m \in Nat, NEW I \in SUBSET (1..m), NEW n \in 1..Cardinality(I)
  PROVE  Nth(I, n) \in I /\ Cardinality({k \in I : k <= Nth(I, n)}) = n
<1> DEFINE Upto(b) == {k \in I : k <= b}
           D == {b \in 0..m : n <= Cardinality(Upto(b))}
<1>1. IsFiniteSet(I) /\ Cardinality(I) \in Nat /\ n \in Nat /\ n >= 1
  <2>1. IsFiniteSet(1..m)
    BY IntervalSize
  <2>2. IsFiniteSet(I)
    BY <2>1, FS_Subset
  <2> QED
    BY <2>2, FS_CardinalityType
<1>2. \A b : IsFiniteSet(Upto(b)) /\ Cardinality(Upto(b)) \in Nat
  <2> SUFFICES ASSUME NEW b PROVE IsFiniteSet(Upto(b)) /\ Cardinality(Upto(b)) \in Nat
    OBVIOUS
  <2>1. Upto(b) \in SUBSET I
    OBVIOUS
  <2>2. IsFiniteSet(Upto(b))
    BY <1>1, <2>1, FS_Subset
  <2> QED
    BY <2>2, FS_CardinalityType
<1>0. \A k \in I : k \in Nat /\ k >= 1 /\ k <= m
  <2>1. \A k \in I : k \in 1..m
    OBVIOUS
  <2> QED
    BY <2>1
<1>3. Upto(m) = I
  BY <1>0
<1>4. m \in D /\ D \in SUBSET Nat
  BY <1>1, <1>3
<1> DEFINE b == Min(D)
<1>5. b \in D /\ \A k \in D : b <= k
  BY <1>4, LeastOf
<1> HIDE DEF b
<1>6. b \in 0..m /\ n <= Cardinality(Upto(b)) /\ b \in Nat
  BY <1>5
<1>7. b # 0
  <2>1. Upto(0) = {}
    <3> SUFFICES ASSUME NEW k \in I, k <= 0 PROVE FALSE
      OBVIOUS
    <3>1. k \in Nat /\ k >= 1
      BY <1>0
    <3> QED
      BY <3>1
  <2>2. Cardinality({}) = 0
    BY FS_EmptySet
  <2> QED
    BY <1>1, <1>6, <2>1, <2>2
<1>8. b - 1 \in 0..m /\ b - 1 \notin D
  <2> HIDE DEF D
  <2>1. b - 1 \in 0..m /\ ~(b <= b - 1)
    BY <1>6, <1>7
  <2> QED
    BY <1>5, <2>1
<1> DEFINE below == Cardinality(Upto(b - 1))
           upto == Cardinality(Upto(b))
<1>9. below < n /\ below \in Nat /\ upto \in Nat /\ n <= upto
  <2>1. ~(n <= below)
    BY <1>8
  <2>2. below \in Nat /\ upto \in Nat
    BY <1>2
  <2> HIDE DEF below, upto
  <2> QED
    BY <1>1, <1>6, <2>1, <2>2 DEF upto
<1>10. b \in I /\ upto = below + 1
  <2>1. Upto(b) = IF b \in I THEN Upto(b - 1) \cup {b} ELSE Upto(b - 1)
    <3>1. \A k \in I : k <= b <=> k = b \/ k <= b - 1
      BY <1>0, <1>6, <1>7
    <3>2. ~(b <= b - 1)
      BY <1>6
    <3> QED
      BY <3>1, <3>2
  <2>2. b \in I
    BY <1>9, <2>1
  <2>3. b \notin Upto(b - 1)
    BY <1>6
  <2>4. Cardinality(Upto(b - 1) \cup {b}) = Cardinality(Upto(b - 1)) + 1
    BY <1>2, <2>3, FS_AddElement
  <2> QED
    BY <2>1, <2>2, <2>4
<1>11. upto = n
  <2> HIDE DEF upto, below
  <2> QED
    BY <1>1, <1>9, <1>10
<1>12. \E k \in I : Cardinality({i \in I : i <= k}) = n
  BY <1>10, <1>11
<1> QED
  BY <1>12 DEF Nth
(* The lines that are read, each where it begins. *)
LEMMA LinesReadAt ==
  ASSUME NEW f, IsFile(f)
  PROVE  LET begins == Begins(f)
         IN  /\ Len(Lines(f)) = Cardinality(begins) /\ Cardinality(begins) \in Nat
             /\ \A n \in 1..Len(Lines(f)) :
                  /\ Nth(begins, n) \in begins
                  /\ Cardinality({k \in begins : k <= Nth(begins, n)}) = n
                  /\ Lines(f)[n] = LineFrom(f, Nth(begins, n))
<1> DEFINE begins == Begins(f)
           size == Cardinality(begins)
           lines == Lines(f)
<1>1. Len(f) \in Nat
  BY DEF IsFile, IsSequence
<1>2. begins \in SUBSET (1..Len(f))
  <2>1. 3..Len(f) \subseteq 1..Len(f)
    BY <1>1
  <2> QED
    BY <2>1 DEF Begins
<1>3. size \in Nat
  <2>1. IsFiniteSet(1..Len(f))
    BY <1>1, IntervalSize
  <2>2. IsFiniteSet(begins)
    BY <1>2, <2>1, FS_Subset
  <2> QED
    BY <2>2, FS_CardinalityType
<1>4. lines = [n \in 1..size |-> LineFrom(f, Nth(begins, n))]
  BY DEF Lines
<1> HIDE DEF begins
<1>5. \A n \in 1..size : /\ Nth(begins, n) \in begins
                         /\ Cardinality({k \in begins : k <= Nth(begins, n)}) = n
  BY <1>1, <1>2, NthIsMember
<1> HIDE DEF lines
<1>6. Len(lines) = size /\ \A n \in 1..size : lines[n] = LineFrom(f, Nth(begins, n))
  <2>1. lines = [n \in 1..size |-> lines[n]] /\ \A n \in 1..size : lines[n] = LineFrom(f, Nth(begins, n))
    BY <1>4
  <2> HIDE DEF size
  <2> QED
    BY <1>3, <2>1, SegmentIsSequence
<1> QED
  BY <1>3, <1>5, <1>6 DEF begins, lines

(* What the records loop makes of any file. *)
LEMMA RecordsOfFile ==
  ASSUME NEW f, IsFile(f)
  PROVE  /\ ReadRecords(f) = [recCount |-> ReadRecords(f).recCount,
                              slots |-> ReadRecords(f).slots]
         /\ ReadRecords(f).recCount \in 0..MaxRecs
         /\ ReadRecords(f).recCount <= Len(Lines(f))
         /\ ReadRecords(f).slots =
              [i \in Slots |-> IF i <= Len(Lines(f)) THEN ReadRecord(Lines(f)[i]) ELSE BlankRecord]
<1> DEFINE lines == Lines(f)
           used == {i \in Slots : i <= Len(lines)}
           count == Cardinality({i \in used : IsComplete(lines[i])})
           slots == [i \in Slots |-> IF i \in used THEN ReadRecord(lines[i]) ELSE BlankRecord]
<1>1. ReadRecords(f) = [recCount |-> count, slots |-> slots]
  BY DEF ReadRecords
<1>2. Len(lines) \in Nat
  BY LinesReadAt
<1>3. count \in 0..MaxRecs /\ count <= Len(lines)
  <2> DEFINE m == IF Len(lines) < MaxRecs THEN Len(lines) ELSE MaxRecs
             S == {i \in used : IsComplete(lines[i])}
  <2>1. m \in Nat /\ m <= MaxRecs /\ m <= Len(lines) /\ MaxRecs \in Nat
    BY <1>2, BoundsAssumption
  <2>2. used \subseteq 1..m
    BY <1>2, BoundsAssumption DEF Slots
  <2>3. S \in SUBSET (1..m)
    BY <2>2
  <2> HIDE DEF m, S
  <2>4. IsFiniteSet(1..m) /\ Cardinality(1..m) = m
    BY <2>1, IntervalSize
  <2>5. IsFiniteSet(S) /\ Cardinality(S) <= m
    BY <2>3, <2>4, FS_Subset
  <2>6. Cardinality(S) \in Nat
    BY <2>5, FS_CardinalityType
  <2>7. count = Cardinality(S)
    BY DEF S
  <2> HIDE DEF count
  <2> QED
    BY <1>2, <2>1, <2>5, <2>6, <2>7
<1>4. slots = [i \in Slots |-> IF i <= Len(lines) THEN ReadRecord(lines[i]) ELSE BlankRecord]
  OBVIOUS
<1> HIDE DEF count, slots
<1> QED
  BY <1>1, <1>3, <1>4 DEF lines

(* Whatever was written to the file, it is read into a journal. *)
LEMMA FileIsJournal ==
  ASSUME NEW f, IsFile(f), NEW t \in Times
  PROVE  /\ ReadJournal(f, t) \in Journals
         /\ \A i \in Slots : Len(ReadJournal(f, t).slots[i].times) <= MaxLast
<1> DEFINE g == f
           recs == ReadRecords(g)
<1>1. IsFile(g) /\ Len(g) \in Nat
  BY DEF IsFile, IsSequence
<1> HIDE DEF g
<1>2. /\ recs.recCount \in 0..MaxRecs
      /\ recs.slots = [i \in Slots |-> IF i <= Len(Lines(g)) THEN ReadRecord(Lines(g)[i]) ELSE BlankRecord]
  BY <1>1, RecordsOfFile
<1>3. BlankRecord \in Records /\ Len(BlankRecord.times) <= MaxLast
  <2>1. <<>> \in Seq(Times)
    OBVIOUS
  <2> QED
    BY <2>1, TextAssumption, BoundsAssumption DEF BlankRecord, Records
<1>4. ASSUME NEW i \in Slots, i <= Len(Lines(g))
      PROVE  /\ ReadRecord(Lines(g)[i]) \in Records
             /\ Len(ReadRecord(Lines(g)[i]).times) <= MaxLast
  <2>1. i \in 1..Len(Lines(g))
    BY <1>1, <1>4, LinesReadAt, BoundsAssumption DEF Slots
  <2>2. Nth(Begins(g), i) \in Begins(g) /\ Lines(g)[i] = LineFrom(g, Nth(Begins(g), i))
    BY <1>1, <2>1, LinesReadAt
  <2>3. PICK n \in Nat \ {0} : IsLine(LineFrom(g, Nth(Begins(g), i)), n)
    BY <1>1, <2>2, LinesAreLines
  <2> QED
    BY <2>2, <2>3, LineIsRecord
<1>5. /\ recs.slots \in [Slots -> Records]
      /\ \A i \in Slots : Len(recs.slots[i].times) <= MaxLast
  BY <1>2, <1>3, <1>4
<1> HIDE DEF recs
<1>6. CASE HasTotal(g)
  <2>1. 1 \in 1..Len(g) /\ 2 \in 1..Len(g) /\ g[1].k = "start" /\ g[2].k = "total"
    BY <1>1, <1>6 DEF HasTotal
  <2>2. g[1].t \in Times /\ g[2].n \in Nat
    BY <1>1, <2>1 DEF IsFile, LineChunks, HeadChunks, TimeChunks, NewlineChunk
  <2>3. ReadJournal(f, t) = [start |-> g[1].t, count |-> g[2].n,
                             recCount |-> recs.recCount, slots |-> recs.slots]
    BY <1>6 DEF ReadJournal, ReadTotal, g, recs
  <2>4. ReadJournal(f, t).slots = recs.slots
    BY <2>3
  <2> QED
    BY <1>2, <1>5, <2>2, <2>3, <2>4 DEF Journals
<1>7. CASE ~HasTotal(g)
  <2>1. HeaderTime(g, t) \in Times
    <3>1. Len(g) # 0 => 1 \in 1..Len(g)
      BY <1>1
    <3>2. Len(g) # 0 /\ g[1].k = "start" => g[1].t \in Times
      BY <1>1, <3>1 DEF IsFile, LineChunks, HeadChunks, TimeChunks, NewlineChunk
    <3> QED
      BY <3>2, NoTimeIsTime DEF HeaderTime, HasHeader
  <2>2. ReadJournal(f, t) = [BlankJournal(t) EXCEPT !.start = HeaderTime(g, t)]
    BY <1>7 DEF ReadJournal, g
  <2>3. [i \in Slots |-> BlankRecord] \in [Slots -> Records] /\ 0 \in 0..MaxRecs
    BY <1>3, BoundsAssumption
  <2>4. BlankJournal(t) \in Journals
    BY <2>3 DEF BlankJournal, Journals
  <2> HIDE DEF g
  <2> DEFINE s == HeaderTime(g, t)
             blank == BlankJournal(t)
  <2> HIDE DEF s, blank
  <2>5. [blank EXCEPT !.start = s] \in Journals
    BY <2>1, <2>4 DEF Journals, s, blank
  <2>6. [blank EXCEPT !.start = s].slots = blank.slots
    BY <2>4 DEF Journals, blank
  <2>7. \A i \in Slots : Len(blank.slots[i].times) <= MaxLast
    BY <1>3 DEF BlankJournal, blank
  <2> QED
    BY <2>2, <2>5, <2>6, <2>7 DEF s, blank
<1> QED
  BY <1>6, <1>7

----------------------------------------------------------------------------
(* The texts that name no program, and those that may be in a record. *)
Odd == {NoName, OtherText}
Known(name) == name \in Odd \/ IsPlain(name)

(* No program has two heads in the file. *)
HeadsApart(f) ==
  /\ \A i \in 1..Len(f) : f[i].k = "head" => Known(f[i].name)
  /\ \A i, k \in 1..Len(f) :
       f[i].k = "head" /\ f[k].k = "head" /\ f[i].name = f[k].name /\ f[i].name \notin Odd => i = k

(* No program has two records in memory. *)
Apart(j) ==
  /\ \A i \in Slots : Known(j.slots[i].name)
  /\ \A i, k \in 1..j.recCount :
       j.slots[i].name = j.slots[k].name /\ j.slots[i].name \notin Odd => i = k

(* A line that is read as a program's has the program's head at its first  *)
(* or its second place.                                                    *)
LEMMA LineHasHead ==
  ASSUME NEW f, IsFile(f), HeadsApart(f), NEW b \in Begins(f),
         ReadRecord(LineFrom(f, b)).name \notin Odd
  PROVE  /\ IsPlain(ReadRecord(LineFrom(f, b)).name)
         /\ \E h \in {b, b + 1} : /\ h \in 1..Len(f)
                                  /\ f[h].k = "head"
                                  /\ f[h].name = ReadRecord(LineFrom(f, b)).name
                                  /\ f[b] # NewlineChunk
<1> DEFINE line == LineFrom(f, b)
           name == ReadRecord(line).name
<1>1. PICK n \in Nat \ {0} : /\ b + n - 1 <= Len(f)
                             /\ line = [i \in 1..n |-> f[b + i - 1]]
                             /\ \A i \in 1..n : f[b + i - 1] # NewlineChunk
                             /\ IsLine(line, n)
  BY LinesAreLines
<1> HIDE DEF line
<1>2. PICK h \in 1..n : /\ h \in {1, 2}
                        /\ line[h].k = "head"
                        /\ Words[line[h].name] # <<>>
                        /\ name = Cut[Words[line[h].name][1]]
  <2>1. name \notin {NoName, OtherText}
    BY DEF Odd, line
  <2> QED
    BY <1>1, <2>1, NameInLine
<1>3. b \in Nat /\ b >= 3 /\ b <= Len(f) /\ Len(f) \in Nat /\ f[b] # NewlineChunk
  BY DEF Begins, IsFile, IsSequence
<1> DEFINE x == b + h - 1
<1>4. x \in {b, b + 1} /\ x \in 1..Len(f)
  BY <1>1, <1>2, <1>3
<1>5. line[h] = f[x]
  BY <1>1
<1> HIDE DEF x
<1>6. f[x].k = "head" /\ Known(f[x].name)
  BY <1>2, <1>4, <1>5 DEF HeadsApart
<1>7. f[x].name \notin Odd
  <2> SUFFICES ASSUME f[x].name \in {NoName, OtherText} PROVE FALSE
    BY DEF Odd
  <2>1. f[x].name = OtherText
    BY <1>2, <1>5, TextAssumption
  <2>2. name = OtherText
    BY <1>2, <1>5, <2>1, TextAssumption
  <2> QED
    BY <2>2 DEF Odd, line
<1>8. IsPlain(f[x].name)
  BY <1>6, <1>7 DEF Known
<1>9. name = f[x].name
  BY <1>2, <1>5, <1>8 DEF IsPlain
<1> QED
  BY <1>3, <1>4, <1>6, <1>8, <1>9 DEF line

(* If no program has two heads in the file, none has two records in what   *)
(* is read of it.                                                          *)
LEMMA ReadsApart ==
  ASSUME NEW f, IsFile(f), HeadsApart(f), NEW t \in Times
  PROVE  Apart(ReadJournal(f, t))
<1> DEFINE g == f
           begins == Begins(g)
           lines == Lines(g)
           recs == ReadRecords(g)
           j == ReadJournal(f, t)
<1>1. /\ IsFile(g) /\ Len(g) \in Nat /\ Len(g) <= Len(f)
      /\ \A i \in 1..Len(g) : g[i] = f[i]
  BY DEF IsFile, IsSequence
<1> HIDE DEF g
<1>2. HeadsApart(g)
  <2>1. \A i \in 1..Len(g) : i \in 1..Len(f)
    BY <1>1 DEF IsFile, IsSequence
  <2> QED
    BY <1>1, <2>1 DEF HeadsApart
<1>3. /\ recs.recCount \in 0..MaxRecs /\ recs.recCount <= Len(lines) /\ Len(lines) \in Nat
      /\ recs.slots = [i \in Slots |-> IF i <= Len(lines) THEN ReadRecord(lines[i]) ELSE BlankRecord]
  BY <1>1, RecordsOfFile, LinesReadAt
<1>4. \A i \in 1..Len(lines) : /\ Nth(begins, i) \in begins
                               /\ Cardinality({k \in begins : k <= Nth(begins, i)}) = i
                               /\ lines[i] = LineFrom(g, Nth(begins, i))
  BY <1>1, LinesReadAt
<1> HIDE DEF lines, recs
<1>5. ASSUME NEW i \in 1..Len(lines), ReadRecord(lines[i]).name \notin Odd
      PROVE  /\ IsPlain(ReadRecord(lines[i]).name)
             /\ \E h \in {Nth(begins, i), Nth(begins, i) + 1} :
                  /\ h \in 1..Len(g) /\ g[h].k = "head"
                  /\ g[h].name = ReadRecord(lines[i]).name
  <2> DEFINE b == Nth(begins, i)
  <2>1. b \in Begins(g) /\ lines[i] = LineFrom(g, b)
    BY <1>4
  <2> HIDE DEF b
  <2>2. ReadRecord(LineFrom(g, b)).name \notin Odd
    BY <1>5, <2>1
  <2>3. /\ IsPlain(ReadRecord(LineFrom(g, b)).name)
        /\ \E h \in {b, b + 1} : /\ h \in 1..Len(g)
                                 /\ g[h].k = "head"
                                 /\ g[h].name = ReadRecord(LineFrom(g, b)).name
                                 /\ g[b] # NewlineChunk
    BY <1>1, <1>2, <2>1, <2>2, LineHasHead
  <2> QED
    BY <2>1, <2>3 DEF b
<1>6. \A i \in Slots : Known(recs.slots[i].name)
  <2> SUFFICES ASSUME NEW i \in Slots PROVE Known(recs.slots[i].name)
    OBVIOUS
  <2>1. CASE i <= Len(lines)
    <3>1. i \in 1..Len(lines)
      BY <1>3, <2>1, BoundsAssumption DEF Slots
    <3> QED
      BY <1>3, <1>5, <2>1, <3>1 DEF Known
  <2>2. CASE ~(i <= Len(lines))
    BY <1>3, <2>2 DEF Known, Odd, BlankRecord
  <2> QED
    BY <2>1, <2>2
<1>7. ASSUME NEW i \in 1..recs.recCount, NEW k \in 1..recs.recCount,
             recs.slots[i].name = recs.slots[k].name, recs.slots[i].name \notin Odd
      PROVE  i = k
  <2>1. i \in 1..Len(lines) /\ k \in 1..Len(lines) /\ i \in Slots /\ k \in Slots
    BY <1>3, BoundsAssumption DEF Slots
  <2>2. recs.slots[i] = ReadRecord(lines[i]) /\ recs.slots[k] = ReadRecord(lines[k])
    BY <1>3, <2>1
  <2> DEFINE x == Nth(begins, i)
             y == Nth(begins, k)
  <2>3. PICK h \in {x, x + 1} : /\ h \in 1..Len(g) /\ g[h].k = "head"
                                /\ g[h].name = recs.slots[i].name
    BY <1>5, <1>7, <2>1, <2>2
  <2>4. PICK l \in {y, y + 1} : /\ l \in 1..Len(g) /\ g[l].k = "head"
                                /\ g[l].name = recs.slots[k].name
    BY <1>5, <1>7, <2>1, <2>2
  <2>5. h = l
    BY <1>2, <1>7, <2>3, <2>4 DEF HeadsApart
  <2>6. x \in begins /\ y \in begins
    BY <1>4, <2>1
  <2> HIDE DEF x, y
  <2>7. /\ x \in Nat /\ x >= 3 /\ g[x] # NewlineChunk /\ (x = 3 \/ g[x - 1] = NewlineChunk)
        /\ y \in Nat /\ y >= 3 /\ g[y] # NewlineChunk /\ (y = 3 \/ g[y - 1] = NewlineChunk)
    BY <1>1, <2>6 DEF Begins
  <2>8. x = y
    <3>1. x # y => x = y + 1 \/ y = x + 1
      BY <2>3, <2>4, <2>5, <2>7
    <3>2. x # y + 1
      <4> SUFFICES ASSUME x = y + 1 PROVE FALSE
        OBVIOUS
      <4>1. x # 3 /\ x - 1 = y
        BY <2>7
      <4> QED
        BY <2>7, <4>1
    <3>3. y # x + 1
      <4> SUFFICES ASSUME y = x + 1 PROVE FALSE
        OBVIOUS
      <4>1. y # 3 /\ y - 1 = x
        BY <2>7
      <4> QED
        BY <2>7, <4>1
    <3> QED
      BY <3>1, <3>2, <3>3
  <2> QED
    BY <1>4, <2>1, <2>8 DEF x, y
<1>8. CASE HasTotal(g)
  <2>1. j.recCount = recs.recCount /\ j.slots = recs.slots
    BY <1>8 DEF ReadJournal, g, recs
  <2> QED
    BY <1>6, <1>7, <2>1 DEF Apart
<1>9. CASE ~HasTotal(g)
  <2>1. j = [BlankJournal(t) EXCEPT !.start = HeaderTime(g, t)]
    BY <1>9 DEF ReadJournal, g
  <2>2. j.recCount = 0 /\ \A i \in Slots : j.slots[i].name = NoName
    BY <2>1 DEF BlankJournal, BlankRecord
  <2> HIDE DEF j
  <2> QED
    BY <2>2 DEF Apart, Known, Odd, j
<1> QED
  BY <1>8, <1>9
----------------------------------------------------------------------------
(* What find_crash_record finds in any journal. *)
LEMMA FoundInSlots ==
  ASSUME NEW j \in Journals, NEW name
  PROVE  \/ FindCrashRecord(j, name) = 0 /\ \A k \in Slots : j.slots[k].name # name
         \/ FindCrashRecord(j, name) # 0 /\ FindCrashRecord(j, name) \in Slots
            /\ j.slots[FindCrashRecord(j, name)].name = name
<1> DEFINE I == {i \in 1..Len(j.slots) : j.slots[i].name = name}
<1>1. FindCrashRecord(j, name) = IF I # {} THEN Min(I) ELSE 0
  BY DEF FindCrashRecord, SelectInSeq
<1>2. Len(j.slots) = MaxRecs
  <2>1. j.slots = [k \in 1..MaxRecs |-> j.slots[k]] /\ MaxRecs \in Nat
    BY BoundsAssumption DEF Journals, Slots
  <2> QED
    BY <2>1, SegmentIsSequence
<1>3. I \in SUBSET Slots /\ I \in SUBSET Nat /\ \A k \in Slots : k # 0
  BY <1>2, BoundsAssumption DEF Slots
<1>4. CASE I = {}
  BY <1>1, <1>2, <1>4 DEF Slots
<1>5. CASE I # {}
  <2>1. Min(I) \in I
    BY <1>3, <1>5, LeastOf
  <2> QED
    BY <1>1, <1>3, <1>5, <2>1
<1> QED
  BY <1>4, <1>5

(* A time in front of times. *)
LEMMA PrependIsTimes ==
  ASSUME NEW t \in Times, NEW times \in Seq(Times)
  PROVE  Prepend(t, times) \in Seq(Times)
<1> DEFINE n == Len(times)
           m == IF n < MaxLast THEN n + 1 ELSE MaxLast
           p == [i \in 1..m |-> IF i = 1 THEN t ELSE times[i - 1]]
<1>1. n \in Nat /\ m \in Nat /\ m <= n + 1
  BY BoundsAssumption
<1>2. \A i \in 1..n : times[i] \in Times
  OBVIOUS
<1>3. Prepend(t, times) = p
  BY DEF Prepend
<1> HIDE DEF n, m
<1>4. p \in [1..m -> Times]
  <2> SUFFICES ASSUME NEW i \in 1..m, i # 1 PROVE times[i - 1] \in Times
    OBVIOUS
  <2>1. i - 1 \in 1..n
    BY <1>1
  <2> QED
    BY <1>2, <2>1
<1> HIDE DEF p
<1> QED
  BY <1>1, <1>3, <1>4

(* A record with one more crash is a record. *)
LEMMA RecordAgain ==
  ASSUME NEW r \in Records, NEW t \in Times
  PROVE  /\ [r EXCEPT !.count = @ + 1, !.times = Prepend(t, @)] \in Records
         /\ [r EXCEPT !.count = @ + 1, !.times = Prepend(t, @)].name = r.name
<1>1. /\ r = [pid |-> r.pid, name |-> r.name, count |-> r.count, times |-> r.times]
      /\ r.pid \in Nat /\ r.name \in Texts /\ r.count \in Nat /\ r.times \in Seq(Times)
  BY DEF Records
<1> DEFINE times == Prepend(t, r.times)
<1>2. times \in Seq(Times)
  BY <1>1, PrependIsTimes
<1> DEFINE w == [r EXCEPT !.count = @ + 1, !.times = Prepend(t, @)]
<1>3. w \in [pid : {r.pid}, name : {r.name}, count : {r.count + 1}, times : {times}]
  BY <1>1
<1> HIDE DEF times, w
<1>4. w.name = r.name /\ w \in Records
  BY <1>1, <1>2, <1>3 DEF Records
<1> QED
  BY <1>4 DEF w

(* Accounting for a crash in any journal makes a journal, and one record   *)
(* of a program at most, if there was one at most.                         *)
LEMMA RecordCrashInAny ==
  ASSUME NEW j \in Journals, NEW pid \in Nat, NEW name \in Texts, NEW t \in Times
  PROVE  /\ RecordCrash(j, pid, name, t) \in Journals
         /\ IsPlain(name) /\ Apart(j) => Apart(RecordCrash(j, pid, name, t))
<1> DEFINE c == [j EXCEPT !.count = @ + 1]
           r == NewRecord(pid, name, t)
           i == FindCrashRecord(j, name)
           J == RecordCrash(j, pid, name, t)
<1>1. /\ j.start \in Times /\ j.count \in Nat /\ j.recCount \in 0..MaxRecs
      /\ j.slots \in [Slots -> Records] /\ MaxRecs \in Nat \ {0}
  BY BoundsAssumption DEF Journals
<1>2. c = [start |-> j.start, count |-> j.count + 1, recCount |-> j.recCount, slots |-> j.slots]
  BY DEF Journals
<1>3. r \in Records /\ r.name = Cut[name]
  <2>1. << t >> \in Seq(Times) /\ Cut[name] \in Texts
    BY TextAssumption
  <2> QED
    BY <2>1 DEF NewRecord, Records
<1>4. J = IF i # 0 THEN TouchRecord(c, i, t)
          ELSE IF j.recCount < MaxRecs THEN InsertRecord(c, r)
          ELSE OverwriteRecord(c, r)
  BY DEF RecordCrash
<1>5. \/ i = 0 /\ \A k \in Slots : j.slots[k].name # name
      \/ i # 0 /\ i \in Slots /\ j.slots[i].name = name
  BY FoundInSlots
<1> DEFINE Goal == J \in Journals /\ (IsPlain(name) /\ Apart(j) => Apart(J))
<1> HIDE DEF c, r, i
<1>6. ASSUME NEW n \in 0..MaxRecs, NEW s \in [Slots -> Records],
             J = [start |-> j.start, count |-> j.count + 1, recCount |-> n, slots |-> s],
             IsPlain(name) /\ Apart(j) =>
               /\ \A k \in Slots : Known(s[k].name)
               /\ \A k, l \in 1..n : s[k].name = s[l].name /\ s[k].name \notin Odd => k = l
      PROVE  Goal
  <2>1. J.recCount = n /\ J.slots = s
    BY <1>6
  <2>2. J \in Journals
    BY <1>1, <1>6 DEF Journals
  <2> HIDE DEF J
  <2> QED
    BY <1>6, <2>1, <2>2 DEF Apart
<1> HIDE DEF J
<1> SUFFICES Goal
  BY DEF J
<1>7. CASE i # 0
  <2> DEFINE old == j.slots[i]
             new == [old EXCEPT !.count = @ + 1, !.times = Prepend(t, @)]
             s == [j.slots EXCEPT ![i] = new]
  <2>1. i \in Slots /\ old \in Records
    BY <1>1, <1>5, <1>7
  <2>2. new \in Records /\ new.name = old.name
    BY <2>1, RecordAgain
  <2>3. J = [start |-> j.start, count |-> j.count + 1, recCount |-> j.recCount, slots |-> s]
    <3>1. J = [c EXCEPT !.slots[i] = [c.slots[i] EXCEPT !.count = @ + 1, !.times = Prepend(t, @)]]
      BY <1>4, <1>7 DEF TouchRecord
    <3>2. c.slots = j.slots
      BY <1>2
    <3>3. J = [c EXCEPT !.slots[i] = new]
      BY <3>1, <3>2
    <3> HIDE DEF new
    <3> QED
      BY <1>2, <3>3
  <2> HIDE DEF new, old
  <2>4. s \in [Slots -> Records] /\ \A k \in Slots : s[k].name = j.slots[k].name
    BY <1>1, <2>1, <2>2 DEF old
  <2> HIDE DEF s
  <2>5. \A k \in 1..j.recCount : k \in Slots
    BY <1>1 DEF Slots
  <2> QED
    BY <1>1, <1>6, <2>3, <2>4, <2>5 DEF Apart
<1>8. CASE i = 0 /\ j.recCount < MaxRecs
  <2> DEFINE moved == [k \in Slots |-> IF k \in 2..(j.recCount + 1) THEN j.slots[k - 1] ELSE j.slots[k]]
             s == [moved EXCEPT ![1] = r]
             n == j.recCount + 1
  <2>1. n \in 0..MaxRecs /\ n \in Nat /\ 1 \in Slots
    BY <1>1, <1>8 DEF Slots
  <2>2. \A k \in Slots : k # 1 => (k \in 2..n => k - 1 \in Slots)
    BY <1>1, <2>1 DEF Slots
  <2>3. \A k \in Slots : s[k] = IF k = 1 THEN r ELSE IF k \in 2..n THEN j.slots[k - 1] ELSE j.slots[k]
    BY <1>1, <2>1
  <2>4. s \in [Slots -> Records]
    <3>1. s = [k \in Slots |-> s[k]]
      BY <2>1
    <3>2. \A k \in Slots : s[k] \in Records
      BY <1>1, <1>3, <2>2, <2>3
    <3> HIDE DEF s
    <3> QED
      BY <3>1, <3>2
  <2>5. J = [start |-> j.start, count |-> j.count + 1, recCount |-> n, slots |-> s]
    <3>1. MovedDown(c) = moved
      BY <1>2 DEF MovedDown
    <3>2. J = [c EXCEPT !.recCount = @ + 1, !.slots = s]
      BY <1>4, <1>8, <3>1 DEF InsertRecord
    <3> HIDE DEF s
    <3> QED
      BY <1>2, <3>2
  <2> HIDE DEF s, moved
  <2>6. ASSUME IsPlain(name), Apart(j)
        PROVE  /\ \A k \in Slots : Known(s[k].name)
               /\ \A k, l \in 1..n : s[k].name = s[l].name /\ s[k].name \notin Odd => k = l
    <3>1. r.name = name /\ Known(name) /\ \A k \in Slots : j.slots[k].name # name
      BY <1>3, <1>5, <1>8, <2>6 DEF IsPlain, Known
    <3>2. \A k \in Slots : Known(s[k].name)
      BY <2>2, <2>3, <2>6, <3>1 DEF Apart
    <3>3. \A k \in 1..n : k \in Slots
      BY <1>1, <2>1 DEF Slots
    <3>4. ASSUME NEW k \in 1..n, NEW l \in 1..n, s[k].name = s[l].name, s[k].name \notin Odd
          PROVE  k = l
      <4>1. \A x \in 2..n : x - 1 \in 1..j.recCount /\ x - 1 \in Slots /\ x # 1 /\ x \in Slots
        BY SMTT(30), <1>1, <2>1 DEF Slots
      <4>2. \A x \in 2..n : s[x] = j.slots[x - 1] /\ s[x].name # name
        BY <2>3, <3>1, <4>1
      <4>3. s[1].name = name
        BY <2>1, <2>3, <3>1
      <4>4. (k = 1 \/ k \in 2..n) /\ (l = 1 \/ l \in 2..n)
        BY <2>1
      <4>5. CASE k \in 2..n /\ l \in 2..n
        <5>1. k - 1 = l - 1
          BY <2>6, <3>4, <4>1, <4>2, <4>5 DEF Apart
        <5> QED
          BY <4>5, <5>1
      <4> QED
        BY <3>4, <4>2, <4>3, <4>4, <4>5
    <3> QED
      BY <3>2, <3>4
  <2> QED
    BY <1>6, <2>1, <2>4, <2>5, <2>6
<1>9. CASE i = 0 /\ ~(j.recCount < MaxRecs)
  <2> DEFINE s == [j.slots EXCEPT ![MaxRecs] = r]
  <2>1. MaxRecs \in Slots /\ j.recCount = MaxRecs /\ 1..j.recCount = Slots
    BY <1>1, <1>9 DEF Slots
  <2>2. J = [start |-> j.start, count |-> j.count + 1, recCount |-> j.recCount, slots |-> s]
    BY <1>2, <1>4, <1>9 DEF OverwriteRecord, FindOldestCrashRecord
  <2>3. s \in [Slots -> Records] /\ \A k \in Slots : s[k] = IF k = MaxRecs THEN r ELSE j.slots[k]
    BY <1>1, <1>3, <2>1
  <2> HIDE DEF s
  <2>4. ASSUME IsPlain(name), Apart(j)
        PROVE  /\ \A k \in Slots : Known(s[k].name)
               /\ \A k, l \in 1..j.recCount : s[k].name = s[l].name /\ s[k].name \notin Odd => k = l
    <3>1. r.name = name /\ Known(name) /\ \A k \in Slots : j.slots[k].name # name
      BY <1>3, <1>5, <1>9, <2>4 DEF IsPlain, Known
    <3> QED
      BY <2>1, <2>3, <2>4, <3>1 DEF Apart
  <2> QED
    BY <1>1, <1>6, <2>2, <2>3, <2>4
<1> QED
  BY <1>7, <1>8, <1>9
----------------------------------------------------------------------------
(***************************************************************************)
(* What the conversion of the times that are read does to a journal.       *)
(***************************************************************************)

(* The record s is r with each of its times moved by an hour at most. *)
HasMoved(r, s) ==
  /\ s \in Records
  /\ s.pid = r.pid /\ s.name = r.name /\ s.count = r.count
  /\ Len(s.times) = Len(r.times)
  /\ \A q \in 1..Len(r.times) : /\ s.times[q].at = r.times[q].at
                                /\ \E d \in Hours : s.times[q].off = r.times[q].off + d

IsMoved(j, g) ==
  /\ g = [start |-> g.start, count |-> j.count, recCount |-> j.recCount, slots |-> g.slots]
  /\ g.start \in Times /\ g.start.at = j.start.at
  /\ g.slots \in [Slots -> Records]
  /\ \A i \in Slots : /\ HasMoved(j.slots[i], g.slots[i])
                      /\ j.slots[i] = BlankRecord => g.slots[i] = BlankRecord

(* A time that is moved by an hour is a time. *)
LEMMA TimeMoves ==
  ASSUME NEW x \in Times, NEW d \in Hours
  PROVE  Moved(x, d) \in Times /\ Moved(x, d).at = x.at /\ Moved(x, d).off = x.off + d
<1>1. x = [at |-> x.at, off |-> x.off] /\ x.at \in Nat /\ x.off \in Int /\ d \in Int
  BY DEF Times, Hours
<1>2. Moved(x, d) = [at |-> x.at, off |-> x.off + d]
  BY <1>1 DEF Moved
<1> QED
  BY <1>1, <1>2 DEF Times

(* The times of one record. *)
LEMMA RecordMoves ==
  ASSUME NEW r \in Records, Len(r.times) <= MaxLast, NEW by \in [1..MaxLast -> Hours]
  PROVE  /\ HasMoved(r, MovedTimes(r, by))
         /\ r = BlankRecord => MovedTimes(r, by) = BlankRecord
<1> DEFINE n == Len(r.times)
           times == [q \in 1..n |-> Moved(r.times[q], by[q])]
           s == MovedTimes(r, by)
<1>1. /\ r = [pid |-> r.pid, name |-> r.name, count |-> r.count, times |-> r.times]
      /\ r.pid \in Nat /\ r.name \in Texts /\ r.count \in Nat /\ r.times \in Seq(Times)
      /\ n \in Nat
  BY DEF Records
<1>2. \A q \in 1..n : r.times[q] \in Times /\ by[q] \in Hours
  BY <1>1, BoundsAssumption
<1>3. s = [pid |-> r.pid, name |-> r.name, count |-> r.count, times |-> times]
  <2>1. s = [r EXCEPT !.times = times]
    BY DEF MovedTimes
  <2> HIDE DEF times, s
  <2> QED
    BY <1>1, <2>1
<1>4. \A q \in 1..n : /\ times[q] \in Times /\ times[q].at = r.times[q].at
                      /\ times[q].off = r.times[q].off + by[q]
  BY <1>2, TimeMoves
<1>5. times = [q \in 1..n |-> times[q]]
  OBVIOUS
<1> HIDE DEF n, times, s
<1>6. times \in Seq(Times) /\ Len(times) = n
  <2>1. times \in [1..n -> Times]
    BY <1>4, <1>5
  <2> QED
    BY <1>1, <2>1
<1>7. s.pid = r.pid /\ s.name = r.name /\ s.count = r.count /\ s.times = times
  BY <1>3
<1>8. s \in Records
  BY <1>1, <1>3, <1>6 DEF Records
<1>9. HasMoved(r, s)
  BY <1>2, <1>4, <1>6, <1>7, <1>8 DEF HasMoved, n
<1>10. ASSUME r = BlankRecord PROVE s = BlankRecord
  <2>1. r.times = <<>> /\ n = 0
    BY <1>10 DEF BlankRecord, n
  <2>2. times = <<>>
    BY <1>6, <2>1
  <2> QED
    BY <1>3, <1>10, <2>2 DEF BlankRecord
<1> QED
  BY <1>9, <1>10 DEF s

(* What is read of a file is what its text says, with its times moved. *)
LEMMA ConvertedMoves ==
  ASSUME NEW f, NEW t, ReadJournal(f, t) \in Journals, NEW z \in AllShifts,
         \A i \in Slots : Len(ReadJournal(f, t).slots[i].times) <= MaxLast
  PROVE  IsMoved(ReadJournal(f, t), Converted(f, t, z))
<1> DEFINE j == ReadJournal(f, t)
           g == Converted(f, t, z)
           start == IF HasHeader(f) THEN Moved(j.start, z.start) ELSE j.start
           slots == [i \in Slots |-> MovedTimes(j.slots[i], z.times[i])]
<1> HIDE DEF j
<1>1. /\ j = [start |-> j.start, count |-> j.count, recCount |-> j.recCount, slots |-> j.slots]
      /\ j.start \in Times /\ j.slots \in [Slots -> Records]
  BY DEF Journals, j
<1>2. z.start \in Hours /\ \A i \in Slots : z.times[i] \in [1..MaxLast -> Hours]
  BY DEF AllShifts
<1>3. g = [start |-> start, count |-> j.count, recCount |-> j.recCount, slots |-> slots]
  <2>1. g = [j EXCEPT !.start = start, !.slots = slots]
    BY DEF Converted, j
  <2> HIDE DEF slots, start, g
  <2> QED
    BY <1>1, <2>1
<1>4. start \in Times /\ start.at = j.start.at
  BY <1>1, <1>2, TimeMoves
<1>5. ASSUME NEW i \in Slots
      PROVE  /\ HasMoved(j.slots[i], slots[i])
             /\ j.slots[i] = BlankRecord => slots[i] = BlankRecord
  <2>1. j.slots[i] \in Records /\ Len(j.slots[i].times) <= MaxLast
    BY <1>1 DEF j
  <2> QED
    BY <1>2, <2>1, RecordMoves
<1>6. slots = [i \in Slots |-> slots[i]]
  OBVIOUS
<1> HIDE DEF slots, start, g
<1>7. slots \in [Slots -> Records]
  BY <1>5, <1>6 DEF HasMoved
<1>8. g.start = start /\ g.slots = slots
  BY <1>3
<1>9. IsMoved(j, g)
  BY <1>3, <1>4, <1>5, <1>7, <1>8 DEF IsMoved
<1> QED
  BY <1>9 DEF j, g

(* A table remains one, and shows the programs and the counts it showed. *)
LEMMA TableMoves ==
  ASSUME NEW j, IsTable(j), NEW g, IsMoved(j, g)
  PROVE  IsTable(g)
<1>1. /\ j.recCount \in 0..MaxRecs /\ \A i \in 1..j.recCount : i \in Slots
      /\ j.count \in Nat
  BY TableFacts DEF IsTable, IsJournal
<1>2. g.recCount = j.recCount /\ g.count = j.count
  BY DEF IsMoved
<1>3. IsJournal(g)
  BY <1>1, <1>2 DEF IsJournal, IsMoved
<1>4. \A i \in Slots : g.slots[i].name = j.slots[i].name
                       /\ Len(g.slots[i].times) = Len(j.slots[i].times)
  BY DEF IsMoved, HasMoved
<1>5. \A i \in 1..g.recCount : IsPlain(g.slots[i].name) /\ Len(g.slots[i].times) <= MaxLast
  BY <1>1, <1>2, <1>4 DEF IsTable
<1>6. \A i, k \in 1..g.recCount : g.slots[i].name = g.slots[k].name => i = k
  BY <1>1, <1>2, <1>4 DEF IsTable
<1>7. \A i \in Slots : i > g.recCount => g.slots[i] = BlankRecord
  BY <1>2 DEF IsTable, IsMoved
<1>8. g.start \in Times /\ g.slots \in [Slots -> Records]
  BY DEF IsMoved
<1> QED
  BY <1>1, <1>2, <1>3, <1>5, <1>6, <1>7, <1>8 DEF IsTable

(* Honest records remain so: the rewrite that follows counts as one more. *)
LEMMA HonestTableMoves ==
  ASSUME NEW L \in Seq(CrashEntries), NEW k \in Nat, NEW j, IsTable(j), NEW g, IsMoved(j, g),
         AllHonest(L, k, j)
  PROVE  AllHonest(L, k + 1, g)
<1> SUFFICES ASSUME NEW i \in 1..g.recCount PROVE IsHonest(L, k + 1, g.slots[i])
  BY DEF AllHonest
<1>1. i \in 1..j.recCount
  BY DEF IsMoved
<1>2. i \in Slots
  BY <1>1, TableFacts
<1> DEFINE r == j.slots[i]
           s == g.slots[i]
<1>3. IsHonest(L, k, r)
  BY <1>1 DEF AllHonest
<1>4. HasMoved(r, s)
  BY <1>2 DEF IsMoved
<1>5. \A q \in 1..Len(r.times) : r.times[q] \in Times
  <2>1. r.times \in Seq(Times)
    BY <1>2, TableFacts
  <2> HIDE DEF r
  <2> QED
    BY <2>1
<1> HIDE DEF r, s
<1>6. IsHonest(L, k + 1, s)
  BY <1>3, <1>4, <1>5, HonestMoves DEF HasMoved
<1> QED
  BY <1>6 DEF s

(* What a record describes does not depend on its hours. *)
LEMMA DescriptionMoves ==
  ASSUME NEW L, NEW r, NEW s, HasMoved(r, s), NEW first
  PROVE  Describes(L, r, first) => Describes(L, s, first)
BY DEF Describes, HasMoved

(* A journal that is exact stays so when conversions move its times. *)
LEMMA ExactMoves ==
  ASSUME NEW L, NEW j, IsTable(j), NEW g, IsMoved(j, g), IsExact(L, j)
  PROVE  IsExact(L, g)
<1>1. /\ g.recCount = j.recCount
      /\ \A i \in 1..j.recCount : HasMoved(j.slots[i], g.slots[i])
  BY TableFacts DEF IsMoved
<1>2. \A i \in 1..j.recCount : g.slots[i].name = j.slots[i].name
  BY <1>1 DEF HasMoved
<1>3. \A i \in 1..j.recCount : \A first :
        Describes(L, j.slots[i], first) => Describes(L, g.slots[i], first)
  BY <1>1, DescriptionMoves
<1>4. \A i \in 1..j.recCount : DescribesAll(L, j.slots[i]) => DescribesAll(L, g.slots[i])
  BY <1>2, <1>3 DEF DescribesAll
<1>5. \A i \in 1..g.recCount : \E first \in 1..Len(L) : Describes(L, g.slots[i], first)
  BY <1>1, <1>3 DEF IsExact
<1>6. Cardinality(NamesIn(L)) <= MaxRecs =>
        \A name \in NamesIn(L) : \E i \in 1..g.recCount :
          g.slots[i].name = name /\ DescribesAll(L, g.slots[i])
  BY <1>1, <1>2, <1>4 DEF IsExact
<1> QED
  BY <1>5, <1>6 DEF IsExact

(* Any journal that is read remains one, with at most one record of each   *)
(* program if there was at most one.                                       *)
LEMMA JournalMoves ==
  ASSUME NEW j \in Journals, NEW g, IsMoved(j, g)
  PROVE  g \in Journals /\ (Apart(j) => Apart(g))
<1>1. /\ g.recCount = j.recCount /\ j.recCount \in 0..MaxRecs /\ j.count \in Nat
      /\ \A i \in 1..j.recCount : i \in Slots
  BY BoundsAssumption DEF Journals, IsMoved, Slots
<1>2. \A i \in Slots : g.slots[i].name = j.slots[i].name
  BY DEF IsMoved, HasMoved
<1>3. g \in Journals
  BY <1>1 DEF Journals, IsMoved
<1>4. Apart(j) => Apart(g)
  BY <1>1, <1>2 DEF Apart
<1> QED
  BY <1>3, <1>4
=============================================================================
