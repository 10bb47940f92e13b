------------------------------ MODULE DealRecord ------------------------------
(***************************************************************************)
(* What a deal promises its two sides, whoever calls what and when: a      *)
(* shared record of ticked boxes.  A tick is never taken back nor ticked   *)
(* again; nobody ticks the other side's box; AGREED is the first; and no   *)
(* box is ticked before those that precede it under terms that the two     *)
(* could have been dealing on.                                             *)
(***************************************************************************)
EXTENDS DealSpine

CONSTANTS Terms       \* every set of terms two people may deal on

VARIABLES
  track,              \* goods or work
  ticked              \* by stage, the side that ticked it or "NOBODY"

Ticked == {stage \in Stage : ticked[stage] # "NOBODY"}

(* The boxes this side may still tick.                                     *)
Unticked(role) == {stage \in Stage \ Ticked : MayMark(stage, role)}

Init == track \in Track /\ ticked = [stage \in Stage |-> "NOBODY"]

TickBoxes(role, boxes) ==
  /\ ticked' = [stage \in Stage |-> IF stage \in boxes THEN role ELSE ticked[stage]]
  /\ \E terms \in Terms : \A stage \in boxes :
       /\ stage \in InSpine(track, terms)
       /\ stage # "AGREED" => Earlier(track, terms, stage) \subseteq Ticked \cup boxes
  /\ UNCHANGED track

Next == \E role \in Role : \E boxes \in SUBSET Unticked(role) : TickBoxes(role, boxes)

Spec == Init /\ [][Next]_<<track, ticked>>
=============================================================================
