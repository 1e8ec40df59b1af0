------------------------------ MODULE MapInfo -------------------------------
(***************************************************************************)
(* The list of the crashed process's mappings: get_mapinfo_list and        *)
(* parse_maps_line read the lines of /proc/<pid>/maps, parse_exidx_info    *)
(* looks for the exception index of each mapping in the ELF header at its  *)
(* start (crash_handler.c), and the lookups of utility.c search the list.  *)
(***************************************************************************)
EXTENDS Mappings, SequencesExt

CONSTANT Files  \* bound: what /proc/<pid>/maps may hold

NoName == "none"
StackName == "[stack]"

(* What a read of a program header yields: is it of type PT_ARM_EXIDX, and *)
(* if so, where is the table and how long is it.                           *)
ProgramHeader == [exidx : BOOLEAN, offset : Word, filesz : Word]

(* What is at the start of a mapping: an ELF header or not, the program    *)
(* headers the file has, and what comes of the reads of parse_exidx_info,  *)
(* one for each of them.  The pointer is advanced by a byte for each read, *)
(* so only the first one reads a header as it stands there, and the others *)
(* what its later bytes happen to look like.  Nothing can be read of a     *)
(* process that is gone, which is no ELF header either.                    *)
Image ==
  {i \in [elf : BOOLEAN, headers : Seq(ProgramHeader), reads : Seq(ProgramHeader)] :
     /\ Len(i.reads) = Len(i.headers)
     /\ i.headers # <<>> => i.reads[1] = i.headers[1]}

(* A line: the addresses, is its third permission x, the name, which a     *)
(* mapping without a file has not, and what is mapped.                     *)
MapsLine == [start : Word, end : Word, exec : BOOLEAN, name : STRING, image : Image]

(* The kernel prints mappings that are not empty, one after the other.     *)
Ascending(f) ==
  /\ \A i \in DOMAIN f : f[i].start < f[i].end
  /\ \A i, j \in DOMAIN f : i < j => f[i].end <= f[j].start

(* It names one of them, at most, [stack]. *)
OneStack(f) ==
  \A i, j \in DOMAIN f : f[i].name = StackName /\ f[j].name = StackName => i = j

ASSUME FileAssumption == /\ Files \subseteq Seq(MapsLine)
                         /\ \A f \in Files : Ascending(f) /\ OneStack(f)

VARIABLES
  file,      \* /proc/<pid>/maps; a file that ends early is a shorter one
  line,      \* the line that is read next
  milist,    \* the list of mappings
  stackMap,  \* stack_map
  at, hdr,   \* mi and i of parse_exidx_info
  step       \* what comes next

mapVars == << file, line, milist, stackMap, at, hdr, step >>

MapsInit ==
  /\ file \in Files
  /\ line = 1
  /\ milist = <<>>
  /\ stackMap = [start |-> 0, end |-> 0]
  /\ at = 1
  /\ hdr = 1
  /\ step = "lines"

----------------------------------------------------------------------------
Reading == step = "lines" /\ line <= Len(file)
Current == file[line]

(* The mappings that go into the list: a line without a name is too short, *)
(* the stack is kept apart, executable or not, and others must be          *)
(* executable.                                                             *)
Wanted(l) == l.name \notin {NoName, StackName} /\ l.exec

Fresh(l) == [start |-> l.start, end |-> l.end, exidx |-> 0, nrec |-> 0]

SkipLine ==
  /\ Reading /\ Current.name # StackName /\ ~Wanted(Current)
  /\ line' = line + 1
  /\ UNCHANGED << file, milist, stackMap, at, hdr, step >>

(* Mutant of TakeStack: only a stack that is executable is found. *)
TakeStackExecutable ==
  /\ Reading /\ Current.name = StackName
  /\ stackMap' = IF Current.exec THEN [start |-> Current.start, end |-> Current.end]
                                 ELSE stackMap
  /\ line' = line + 1
  /\ UNCHANGED << file, milist, at, hdr, step >>

TakeStack ==
  /\ Reading /\ Current.name = StackName
  /\ stackMap' = [start |-> Current.start, end |-> Current.end]
  /\ line' = line + 1
  /\ UNCHANGED << file, milist, at, hdr, step >>

(* Mutant of TakeMapping: the list is in the order of the lines. *)
TakeMappingLast ==
  /\ Reading /\ Wanted(Current)
  /\ milist' = Append(milist, Fresh(Current))
  /\ line' = line + 1
  /\ UNCHANGED << file, stackMap, at, hdr, step >>

(* A new mapping becomes the head of the list. *)
TakeMapping ==
  /\ Reading /\ Wanted(Current)
  /\ milist' = << Fresh(Current) >> \o milist
  /\ line' = line + 1
  /\ UNCHANGED << file, stackMap, at, hdr, step >>

EndOfFile ==
  /\ step = "lines" /\ line > Len(file)
  /\ step' = "exidx"
  /\ UNCHANGED << file, line, milist, stackMap, at, hdr >>

----------------------------------------------------------------------------
(* What the process has at an address where a mapping starts. *)
ImageAt(a) == (CHOOSE l \in ToSet(file) : l.start = a).image

Scanning == step = "exidx" /\ at <= Len(milist)
Reads == ImageAt(milist[at].start).reads

NextMapping ==
  /\ at' = at + 1
  /\ hdr' = 1

(* No ELF header, or none of the reads found a table. *)
NoTable ==
  /\ Scanning
  /\ ~ImageAt(milist[at].start).elf \/ hdr > Len(Reads)
  /\ NextMapping
  /\ UNCHANGED << file, line, milist, stackMap, step >>

SkipHeader ==
  /\ Scanning
  /\ ImageAt(milist[at].start).elf /\ hdr <= Len(Reads)
  /\ ~Reads[hdr].exidx
  /\ hdr' = hdr + 1
  /\ UNCHANGED << file, line, milist, stackMap, at, step >>

(* Mutant of TakeTable: exidx_start is relative to the file. *)
TakeTableOffset ==
  /\ Scanning
  /\ ImageAt(milist[at].start).elf /\ hdr <= Len(Reads)
  /\ Reads[hdr].exidx
  /\ milist' = [milist EXCEPT ![at].exidx = Reads[hdr].offset,
                              ![at].nrec = Reads[hdr].filesz \div EntrySize]
  /\ NextMapping
  /\ UNCHANGED << file, line, stackMap, step >>

(* The table is where the file has it, counted from the mapping's start. *)
TakeTable ==
  /\ Scanning
  /\ ImageAt(milist[at].start).elf /\ hdr <= Len(Reads)
  /\ Reads[hdr].exidx
  /\ milist' = [milist EXCEPT ![at].exidx = (milist[at].start + Reads[hdr].offset) % Modulus,
                              ![at].nrec = Reads[hdr].filesz \div EntrySize]
  /\ NextMapping
  /\ UNCHANGED << file, line, stackMap, step >>

ListReady ==
  /\ step = "exidx" /\ at > Len(milist)
  /\ step' = "ready"
  /\ UNCHANGED << file, line, milist, stackMap, at, hdr >>

MapsNext ==
  \/ SkipLine \/ TakeStack \/ TakeMapping \/ EndOfFile
  \/ NoTable \/ SkipHeader \/ TakeTable \/ ListReady

----------------------------------------------------------------------------
(* pc_to_mapinfo, and map_to_name, which searches in the same way: the     *)
(* first mapping of the list that has the address, 0 if there is none.     *)
PcToMapinfo(ms, pc) ==
  SelectInSeq(ms, LAMBDA m : m.start <= pc /\ pc < m.end)

(* Every variable has its type. *)
MapsTypeOK ==
  /\ file \in Files
  /\ line \in 1..(Len(file) + 1)
  /\ milist \in Seq(Mapping) /\ Len(milist) < line
  /\ stackMap \in [start : Word, end : Word]
  /\ at \in 1..(Len(milist) + 1)
  /\ hdr \in Nat \ {0}
  /\ step \in {"lines", "exidx", "ready", "called"}

(* What the list is to hold: the wanted mappings, each one once, the last  *)
(* line first, with the table that its own file declares.                  *)
FirstTable(h) == SelectInSeq(h, LAMBDA p : p.exidx)

WithTable(l, h) ==
  LET k == FirstTable(h)
      found == l.image.elf /\ k # 0
  IN  [start |-> l.start, end |-> l.end,
       exidx |-> IF found THEN (l.start + h[k].offset) % Modulus ELSE 0,
       nrec  |-> IF found THEN h[k].filesz \div EntrySize ELSE 0]

DeclaredMapping(l) == WithTable(l, l.image.headers)

WantedLines(f) == {j \in DOMAIN f : Wanted(f[j])}
FromLast(f, j) == Cardinality({k \in WantedLines(f) : k >= j})
LineAt(f, n) == f[CHOOSE j \in WantedLines(f) : FromLast(f, j) = n]

Declared(f) == [n \in 1..Cardinality(WantedLines(f)) |-> DeclaredMapping(LineAt(f, n))]

(* What the code's reads make of it. *)
ReadMapping(l) == WithTable(l, l.image.reads)
AsRead(f) == [n \in 1..Cardinality(WantedLines(f)) |-> ReadMapping(LineAt(f, n))]

(* The files of which the reads find the table: those that have it in      *)
(* their first header, and those that have none and nothing that looks     *)
(* like one between the headers.                                           *)
TableIsRead(l) ==
  l.image.elf =>
    \/ l.image.headers # <<>> /\ l.image.headers[1].exidx
    \/ FirstTable(l.image.headers) = 0 /\ FirstTable(l.image.reads) = 0

TablesAreRead(f) == \A j \in WantedLines(f) : TableIsRead(f[j])
=============================================================================
