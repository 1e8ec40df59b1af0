--------------------------- MODULE MCCrashJournal ---------------------------
(***************************************************************************)
(* Small instances of CrashJournal: program paths "a", "b" and "c" that    *)
(* fit a record, a path "long" of 64 characters or more, and a path        *)
(* "my app" that holds a blank, to which the README says what happens.     *)
(***************************************************************************)
EXTENDS CrashJournalRefinement

CONSTANTS a, b, c, long, longCut, myApp, my, app, empty, other

MCTexts == {a, b, c, long, longCut, myApp, my, app, empty, other}
MCCut == [s \in MCTexts |-> IF s = long THEN longCut ELSE s]
MCWords == [s \in MCTexts |-> IF s = empty THEN << >>
                              ELSE IF s = myApp THEN << my, app >>
                              ELSE << s >>]

(* Bounds: more crashes and failures where one handler runs at a time.     *)
MCNone == [l \in Limits |-> 0]
MCOnce == [l \in Limits |-> 1]
MCThree == [l \in Limits |-> 3]
MCFour == [l \in Limits |-> 4]
MCWithLimit == [l \in Limits |-> l]
MCTimeWithLimit == [l \in Limits |-> l + 1]

(* How the conversions may move times: not at all, or the header and the   *)
(* second time of each slot back and the others forth.                     *)
MCShift(h, f, g) ==
  [start |-> h, times |-> [i \in Slots |-> [q \in 1..MaxLast |-> IF q = 1 THEN f ELSE g]]]
MCSteady == {MCShift(0, 0, 0)}
MCShifts == MCSteady \cup {MCShift(-1, 1, -1)}

(* What a torn file or stray memory may hold: too many crashes of "b",     *)
(* twice, at a time that never was.                                        *)
MCStray == [pid |-> 99, name |-> b, count |-> 99, times |-> << Exact(99) >>]
MCStrays == {MCStray}
MCGarbled == {[start |-> Exact(99), count |-> 99, recCount |-> MaxRecs,
               slots |-> [i \in Slots |-> MCStray]]}

MCSymmetry == Permutations(Handlers)
=============================================================================
