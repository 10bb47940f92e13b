---------------------------- MODULE Introductions ----------------------------
(***************************************************************************)
(* What "Let Circl handle it" promises, without handlers, locks or a       *)
(* database: a professional takes a request on and writes to the member in *)
(* one indivisible step, never when Cap of them already have; the member   *)
(* is told of each introduction at most once; and an acceptance may later  *)
(* be dropped, which does not unsay the introduction.                      *)
(***************************************************************************)
EXTENDS Naturals, FiniteSets

CONSTANTS Requests, Pros, Cap

VARIABLES
  taken,        \* <<request, professional>> pairs accepted now
  intros,       \* introductions the member has read, by pair
  told          \* notices of it the member has had, by pair

vars == <<taken, intros, told>>

Pairs == Requests \X Pros

Takers(r) == {p \in Pros : <<r, p>> \in taken}

Init ==
  /\ taken = {}
  /\ intros = [o \in Pairs |-> 0]
  /\ told = [o \in Pairs |-> 0]

Take(o) ==
  /\ intros[o] = 0
  /\ Cardinality(Takers(o[1])) < Cap
  /\ taken' = taken \cup {o}
  /\ intros' = [intros EXCEPT ![o] = 1]
  /\ UNCHANGED told

Tell(o) ==
  /\ intros[o] = 1
  /\ told[o] = 0
  /\ told' = [told EXCEPT ![o] = 1]
  /\ UNCHANGED <<taken, intros>>

Drop(o) ==
  /\ o \in taken
  /\ taken' = taken \ {o}
  /\ UNCHANGED <<intros, told>>

Next == \E o \in Pairs : Take(o) \/ Tell(o) \/ Drop(o)

Spec == Init /\ [][Next]_vars
=============================================================================
