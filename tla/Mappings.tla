------------------------------ MODULE Mappings ------------------------------
(***************************************************************************)
(* Addresses, and the mappings of the crashed process as the handler keeps *)
(* them (struct mapinfo of utility.h).                                     *)
(***************************************************************************)
EXTENDS Integers, Sequences

CONSTANTS
  Modulus,    \* 2^32: the number of addresses and of values of a word
  EntrySize   \* sizeof(__EIT_entry)

ASSUME WordAssumption == /\ Modulus \in Nat /\ Modulus >= 4
                         /\ EntrySize \in Nat \ {0}

Word == 0..(Modulus - 1)

(* A mapping; nrec is the number of entries between exidx_start and        *)
(* exidx_end.                                                              *)
Mapping == [start : Word, end : Word, exidx : Word, nrec : Nat]
=============================================================================
