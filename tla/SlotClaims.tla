----------------------------- MODULE SlotClaims -----------------------------
(***************************************************************************)
(* What the numbered crash reports promise: a free slot is claimed by one  *)
(* crash, a crash claims at most one slot, and only when every slot is     *)
(* claimed may a crash take over one from another.                         *)
(***************************************************************************)
CONSTANTS Slots, Crashes, Nobody

VARIABLE claimedBy

Init == claimedBy = [s \in Slots |-> Nobody]

Holds(c) == \E s \in Slots : claimedBy[s] = c

Claim(s, c) ==
  /\ claimedBy[s] = Nobody
  /\ ~Holds(c)
  /\ claimedBy' = [claimedBy EXCEPT ![s] = c]

Reuse(s, c) ==
  /\ ~Holds(Nobody)
  /\ ~Holds(c)
  /\ claimedBy' = [claimedBy EXCEPT ![s] = c]

Next == \E s \in Slots, c \in Crashes : Claim(s, c) \/ Reuse(s, c)

Spec == Init /\ [][Next]_claimedBy
=============================================================================
