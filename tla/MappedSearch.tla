---------------------------- MODULE MappedSearch ----------------------------
(***************************************************************************)
(* The search for an entry in the list of mappings as the handler builds   *)
(* it: MapInfo makes the list, get_eitp is then called with it.            *)
(***************************************************************************)
EXTENDS ExidxSearch, MapInfo

allVars == << mapVars, vars >>

(* The memory, where the list will look for tables, and the address. *)
MappedInit ==
  /\ MapsInit
  /\ maps = <<>>
  /\ table \in [DOMAIN AsRead(file) -> Tables(AsRead(file))]
  /\ \A k \in DOMAIN table : DOMAIN table[k] = 0..(AsRead(file)[k].nrec - 1)
  /\ addr \in Word
  /\ mi = 0
  /\ left = 0
  /\ right = 0
  /\ pc = "back"
  /\ eitp = None

BuildList == MapsNext /\ UNCHANGED vars

(* get_eitp is called with the list, milist. *)
CallGetEitp ==
  /\ step = "ready"
  /\ step' = "called"
  /\ maps' = milist
  /\ UNCHANGED << file, line, milist, stackMap, at, hdr >>
  /\ UNCHANGED << table, addr, mi, left, right, pc, eitp >>

SearchList == step = "called" /\ Next /\ UNCHANGED mapVars

MappedNext == BuildList \/ CallGetEitp \/ SearchList

MappedSpec == MappedInit /\ [][MappedNext]_allVars /\ WF_allVars(MappedNext)

----------------------------------------------------------------------------
(***************************************************************************)
(* Properties.                                                             *)
(***************************************************************************)

(* The search behaves as one in the list of the process's own mappings and *)
(* the tables their files declare, if the reads find those: nothing else   *)
(* that the building of the list does, in whatever order the lines come,   *)
(* shows in it.                                                            *)
Search == INSTANCE ExidxSearch WITH
  maps   <- Declared(file),
  Ranges <- {Declared(f) : f \in Files}

ImplementsSearch ==
  /\ TablesAreRead(file) => Search!Init
  /\ [][TablesAreRead(file) => Search!Next]_(Search!vars)

(* An address is searched in the mapping it is in, for pc_to_mapinfo too,  *)
(* although get_eitp takes the end of a mapping for a part of it: of two   *)
(* mappings that touch, the upper one comes first in the list.  Only an    *)
(* address at the end of a mapping with nothing above it differs.          *)
SearchesOwnMapping ==
  mi # 0 =>
    /\ PcToMapinfo(maps, addr) \in {0, mi}
    /\ PcToMapinfo(maps, addr) = 0 => addr = maps[mi].end

(* Once the list is there it has the process's executable mappings, the    *)
(* last one first, each with the table its own file declares if the reads  *)
(* find that, whatever those of the other files find, and the stack is the *)
(* process's, if it has one.                                               *)
ListIsOfProcess ==
  step \in {"ready", "called"} =>
    /\ Len(milist) = Cardinality(WantedLines(file))
    /\ \A n \in DOMAIN milist :
         LET l == LineAt(file, n) IN
         /\ milist[n].start = l.start /\ milist[n].end = l.end
         /\ TableIsRead(l) => milist[n] = DeclaredMapping(l)
    /\ \A l \in ToSet(file) :
         l.name = StackName => stackMap = [start |-> l.start, end |-> l.end]

(* The comments of parse_exidx_info: the fields are filled in based on the *)
(* ELF headers found, "Parse the program header".  The reads miss a table  *)
(* that is not in the first header, and may take other bytes for one.      *)
TablesAreDeclared == step \in {"ready", "called"} => milist = Declared(file)
=============================================================================
