--------------------------- MODULE MCExidxSearch ---------------------------
(***************************************************************************)
(* Files for words of three bits: one mapping with a table of up to four   *)
(* entries, two that touch, a stack, lines that are not wanted, and headers *)
(* of every kind; and every file that ends early.                          *)
(***************************************************************************)
EXTENDS MappedSearch

Segment(s, e, image) ==
  [start |-> s, end |-> e, exec |-> TRUE, name |-> "lib.so", image |-> image]
Data(l) == [l EXCEPT !.exec = FALSE]
Anonymous(l) == [l EXCEPT !.name = NoName]
Nothing == [elf |-> FALSE, headers |-> <<>>, reads |-> <<>>]
Stack(s, e, x) ==
  [start |-> s, end |-> e, exec |-> x, name |-> StackName, image |-> Nothing]

Table(x, n) == [exidx |-> TRUE, offset |-> x, filesz |-> n]
Other == [exidx |-> FALSE, offset |-> 0, filesz |-> 0]
Elf(h, r) == [elf |-> TRUE, headers |-> h, reads |-> r]
Text == [elf |-> FALSE, headers |-> << Table(0, 1) >>, reads |-> << Table(0, 1) >>]

(* One whose first header is the table's, with what is read as it stands.  *)
First(x, n) == Elf(<< Table(x, n) >>, << Table(x, n) >>)

(* Files with no table, two tables, a table in the second header that is   *)
(* not found, or for which other bytes are taken.                          *)
MCImages ==
  {Text, Elf(<<>>, <<>>),
   Elf(<< Other, Other >>, << Other, Other >>),
   Elf(<< Table(7, 1), Table(1, 2) >>, << Table(7, 1), Table(1, 2) >>),
   Elf(<< Other, Table(7, 1) >>, << Other, Other >>),
   Elf(<< Other, Table(7, 1) >>, << Other, Table(1, 2) >>)}

MCWholeFiles ==
  {<< Segment(0, 7, First(3, n)) >> : n \in 0..4}
    \cup {<< Segment(1, 3, First(1, 1)), Segment(3, 5, First(2, n)) >> : n \in {0, 2}}
    \cup {<< Segment(0, 2, First(7, 1)),
             Segment(2, 4, i),
             u,
             Stack(6, 7, x) >> :
            i \in MCImages,
            u \in {Anonymous(Segment(4, 5, First(0, 1))), Data(Segment(4, 6, First(0, 1)))},
            x \in BOOLEAN}

MCFiles == UNION {{SubSeq(f, 1, n) : n \in 0..Len(f)} : f \in MCWholeFiles}
MCRanges == {Declared(f) : f \in MCFiles}
=============================================================================
