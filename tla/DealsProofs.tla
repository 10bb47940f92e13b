----------------------------- MODULE DealsProofs -----------------------------
(***************************************************************************)
(* What holds of a deal for every number of handlers, every set of figures *)
(* and every interleaving: types, the refinement of DealRecord, and that a *)
(* deal which reads as done is complete.                                   *)
(*                                                                         *)
(* The invariant behind them says two things TypeOK does not.  Every       *)
(* marked stage is backed: its predecessors in the spine of some terms are *)
(* marked too (some terms, not the row's: replaceTerms may have written    *)
(* others since).  And what a handler is about to mark is backed by what   *)
(* it asks for and what is marked now; it was so when the steps were read, *)
(* and a mark is never taken back.                                         *)
(*                                                                         *)
(* The last part is about the row: the marks follow the spine of the terms *)
(* in force until a replacement and a marking have overlapped, and what    *)
(* was agreed or confirmed stands against every handler but one that was   *)
(* late.  It rests on what a handler that is not late still knows of the   *)
(* deal when it writes.                                                    *)
(***************************************************************************)
EXTENDS Deals, SequenceTheorems, TLAPS

Agreement == row.isAgreedByBoth <=> "AGREED" \in Marked

BackedBy(terms, stage, boxes) ==
  /\ stage \in InSpine(track, terms)
  /\ stage # "AGREED" => Earlier(track, terms, stage) \subseteq boxes

Backed == \A stage \in Marked : \E terms \in Terms : BackedBy(terms, stage, Marked)

Own == \A stage \in Marked : MayMark(stage, step[stage].by)

AskedOf(c) ==
  call[c].at = "mark.write" =>
    \E terms \in Terms : \A stage \in call[c].asked :
      /\ MayMark(stage, call[c].role)
      /\ BackedBy(terms, stage, Marked \cup call[c].asked)

Asked == \A c \in Calls : AskedOf(c)

(* Nothing has happened to a deal that was not proposed yet.               *)
Unborn == row.status = "ABSENT" => row = NoDeal /\ \A c \in Calls : call[c] = Idle

IInv == TypeOK /\ Agreement /\ Backed /\ Own /\ Asked /\ Unborn

-----------------------------------------------------------------------------
(* Types.                                                                  *)

(* Some terms can be offered: any price without a deposit.                 *)
LEMMA SomeTermsType == SomeTerms \in Terms
<1>1. PICK a \in Amounts : a \in Nat \ {0}
  BY ConstantsAssumption
<1>2. [amount |-> a, timing |-> "UPFRONT", deposit |-> 0] \in Terms
  BY <1>1, ConstantsAssumption DEF Terms, Offerable, DepositLeavesABalance, Timing
<1> QED
  BY <1>2 DEF SomeTerms

(* The placeholders are of the types they stand for.                       *)
LEMMA IdleType == NoDeal \in Row /\ Idle \in CallRecord /\ Idle.saw \in Seen
<1>1. NoDeal \in Row
  BY SomeTermsType DEF NoDeal, Row, Role
<1>2. SeenIn(NoDeal) \in Seen
  BY <1>1 DEF SeenIn, Seen, Row
<1> QED
  BY <1>1, <1>2, SomeTermsType DEF Idle, CallRecord, At, Role

(* The sum due at a step of well-formed terms is a natural number.         *)
LEMMA ExpectedType ==
  ASSUME NEW terms \in Terms, NEW stage PROVE ExpectedAmount(terms, stage) \in Nat
<1>1. terms.amount \in Nat /\ terms.deposit \in Nat /\ terms.deposit < terms.amount
  BY ConstantsAssumption DEF Terms, Offerable, DepositLeavesABalance
<1> QED
  BY <1>1 DEF ExpectedAmount

(* A handler that starts or ends keeps the handlers' type.                 *)
LEMMA BeginType ==
  ASSUME TypeOK, NEW c \in Calls, NEW rec \in CallRecord, Begin(c, rec)
  PROVE  call' \in [Calls -> CallRecord]
BY DEF TypeOK, Begin

(* A handler that ends is at rest.                                         *)
LEMMA EndType ==
  ASSUME TypeOK, NEW c \in Calls, End(c)
  PROVE  call' \in [Calls -> CallRecord]
BY IdleType DEF TypeOK, End

(* Every step keeps the types.                                             *)
LEMMA TypeStep == TypeOK /\ [Next]_vars => TypeOK'
<1> SUFFICES ASSUME TypeOK, [Next]_vars PROVE TypeOK'
  OBVIOUS
<1> USE IdleType
<1>1. CASE UNCHANGED vars
  BY <1>1 DEF TypeOK, vars
<1>2. ASSUME NEW role \in Role, Propose(role) PROVE TypeOK'
  BY <1>2 DEF Propose, TypeOK, NoDeal, Row
<1>3. ASSUME NEW c \in Calls, CorrectLoad(c) PROVE TypeOK'
  <2>1. [Idle EXCEPT !.at = "correct.check"] \in CallRecord
    BY DEF CallRecord, At
  <2> QED
    BY <1>3, <2>1, BeginType DEF CorrectLoad, TypeOK
<1>4. ASSUME NEW c \in Calls, FlagLoad(c) PROVE TypeOK'
  <2>1. [Idle EXCEPT !.at = "flag.write"] \in CallRecord
    BY DEF CallRecord, At
  <2> QED
    BY <1>4, <2>1, BeginType DEF FlagLoad, TypeOK
<1>5. ASSUME NEW c \in Calls, ResolveLoad(c) PROVE TypeOK'
  <2>1. [Idle EXCEPT !.at = "resolve.write"] \in CallRecord
    BY DEF CallRecord, At
  <2> QED
    BY <1>5, <2>1, BeginType DEF ResolveLoad, TypeOK
<1>6. ASSUME NEW c \in Calls, NEW role \in Role, ReplaceLoad(c, role) PROVE TypeOK'
  <2>1. PICK terms \in Terms :
          Begin(c, [Idle EXCEPT !.at = "replace.write", !.role = role, !.terms = terms])
    BY <1>6 DEF ReplaceLoad
  <2>2. [Idle EXCEPT !.at = "replace.write", !.role = role, !.terms = terms] \in CallRecord
    BY DEF CallRecord, At
  <2> QED
    BY <1>6, <2>1, <2>2, BeginType DEF ReplaceLoad, TypeOK
<1>7. ASSUME NEW c \in Calls, NEW role \in Role, CancelLoad(c, role) PROVE TypeOK'
  <2>1. [Idle EXCEPT !.at = "cancel.write"] \in CallRecord
    BY DEF CallRecord, At
  <2> QED
    BY <1>7, <2>1, BeginType DEF CancelLoad, TypeOK
<1>8. ASSUME NEW c \in Calls, NEW role \in Role, MarkLoad(c, role) PROVE TypeOK'
  <2>1. SeenIn(row) \in Seen
    BY DEF TypeOK, Row, SeenIn, Seen
  <2>2. [Idle EXCEPT !.at = "mark.check", !.role = role, !.saw = SeenIn(row)] \in CallRecord
    BY <2>1 DEF CallRecord, At
  <2> QED
    BY <1>8, <2>2, BeginType DEF MarkLoad, TypeOK
<1>9. ASSUME NEW c \in Calls, ReplaceWrite(c) PROVE TypeOK'
  <2>1. call[c].terms \in Terms /\ call[c].role \in Role
    BY DEF TypeOK, CallRecord
  <2>2. row' \in Row
    BY <1>9, <2>1 DEF ReplaceWrite, TypeOK, Row
  <2> QED
    BY <1>9, <2>2, EndType DEF ReplaceWrite, Forget, TypeOK
<1>10. ASSUME NEW c \in Calls, CancelWrite(c) PROVE TypeOK'
  <2>1. row' \in Row
    BY <1>10 DEF CancelWrite, TypeOK, Row
  <2> QED
    BY <1>10, <2>1, EndType DEF CancelWrite, Forget, TypeOK
<1>11. ASSUME NEW c \in Calls, MarkCheck(c) PROVE TypeOK'
  <2> DEFINE deal == call[c].saw
  <2>1. deal.terms \in Terms
    BY DEF TypeOK, CallRecord, Seen
  <2>2. PICK asked \in SUBSET Askable(deal, call[c].role) :
          \E amount \in IF asked \cap CARRIES_AMOUNT = {} THEN {0} ELSE FiguresFor(deal, asked) :
            call' = [call EXCEPT ![c].at = "mark.write", ![c].asked = asked,
                                 ![c].amount = amount, ![c].saw = Idle.saw]
    BY <1>11 DEF MarkCheck
  <2>3. PICK amount \in IF asked \cap CARRIES_AMOUNT = {} THEN {0} ELSE FiguresFor(deal, asked) :
            call' = [call EXCEPT ![c].at = "mark.write", ![c].asked = asked,
                                 ![c].amount = amount, ![c].saw = Idle.saw]
    BY <2>2
  <2>4. amount \in Nat
    <3>1. CASE asked \cap CARRIES_AMOUNT = {}
      BY <2>3, <3>1
    <3>2. CASE asked \cap CARRIES_AMOUNT # {}
      <4>1. PICK stage : amount \in Figures \cup {ExpectedAmount(deal.terms, stage)}
        BY <2>3, <3>2 DEF FiguresFor
      <4> QED
        BY <4>1, <2>1, ExpectedType, ConstantsAssumption
    <3> QED
      BY <3>1, <3>2
  <2>5. asked \subseteq Stage
    BY <2>2 DEF Askable, MayMark, Stage
  <2>6. call[c] \in CallRecord
    BY DEF TypeOK
  <2>7. [call[c] EXCEPT !.at = "mark.write", !.asked = asked, !.amount = amount,
                        !.saw = Idle.saw] \in CallRecord
    BY <2>4, <2>5, <2>6 DEF CallRecord, At
  <2>8. call' \in [Calls -> CallRecord]
    BY <2>3, <2>7 DEF TypeOK
  <2> QED
    BY <1>11, <2>8 DEF MarkCheck, TypeOK
<1>12. ASSUME NEW c \in Calls, MarkWrite(c) PROVE TypeOK'
  <2>1. call[c].role \in Role /\ call[c].amount \in Nat
    BY DEF TypeOK, CallRecord
  <2>2. \A stage \in Stage :
          [by |-> call[c].role,
           amount |-> IF stage \in CARRIES_AMOUNT THEN call[c].amount ELSE 0] \in Tick
    BY <2>1 DEF Tick
  <2>3. step' \in [Stage -> Tick]
    BY <1>12, <2>2 DEF MarkWrite, TypeOK
  <2>4. row' \in Row
    BY <1>12 DEF MarkWrite, TypeOK, Row
  <2> QED
    BY <1>12, <2>3, <2>4, EndType DEF MarkWrite, TypeOK
<1>13. ASSUME NEW c \in Calls, CorrectCheck(c) PROVE TypeOK'
  <2>1. PICK stage \in CARRIES_AMOUNT, amount \in Figures :
          call' = [call EXCEPT ![c].at = "correct.write", ![c].asked = {stage},
                               ![c].amount = amount]
    BY <1>13 DEF CorrectCheck
  <2>2. [call[c] EXCEPT !.at = "correct.write", !.asked = {stage}, !.amount = amount]
          \in CallRecord
    BY <2>1, ConstantsAssumption
    DEF TypeOK, CallRecord, At, CARRIES_AMOUNT, Stage, PayerStages
  <2>3. call' \in [Calls -> CallRecord]
    BY <2>1, <2>2 DEF TypeOK
  <2> QED
    BY <1>13, <2>3 DEF CorrectCheck, TypeOK
<1>14. ASSUME NEW c \in Calls, CorrectWrite(c) PROVE TypeOK'
  <2>1. call[c].amount \in Nat
    BY DEF TypeOK, CallRecord
  <2>2. PICK stage \in call[c].asked : step' = [step EXCEPT ![stage].amount = call[c].amount]
    BY <1>14 DEF CorrectWrite
  <2>3. step' \in [Stage -> Tick]
    BY <2>1, <2>2 DEF TypeOK, Tick
  <2> QED
    BY <1>14, <2>3, EndType DEF CorrectWrite, Forget, TypeOK
<1>15. ASSUME NEW c \in Calls, FlagWrite(c) PROVE TypeOK'
  <2>1. row' \in Row
    BY <1>15 DEF FlagWrite, Reopened, TypeOK, Row
  <2> QED
    BY <1>15, <2>1, EndType DEF FlagWrite, TypeOK
<1>16. ASSUME NEW c \in Calls, ResolveWrite(c) PROVE TypeOK'
  <2>1. row' \in Row
    BY <1>16 DEF ResolveWrite, TypeOK, Row
  <2> QED
    BY <1>16, <2>1, EndType DEF ResolveWrite, TypeOK
<1>17. ASSUME NEW c \in Calls, Abandon(c) PROVE TypeOK'
  BY <1>17, EndType DEF Abandon, Forget, TypeOK
<1> QED
  BY <1>1, <1>2, <1>3, <1>4, <1>5, <1>6, <1>7, <1>8, <1>9, <1>10, <1>11, <1>12, <1>13,
     <1>14, <1>15, <1>16, <1>17 DEF Next, Load, Settle

-----------------------------------------------------------------------------
(* What a step can do to the record.                                       *)

(* The record is still: no box is ticked and the agreement is as it was.   *)
Still == /\ \A stage \in Stage : step'[stage].by = step[stage].by
         /\ row'.isAgreedByBoth = row.isAgreedByBoth

(* Only the write of markSteps ticks a box or agrees a deal.               *)
LEMMA OnlyMarkWriteTicks ==
  ASSUME TypeOK, Unborn, [Next]_vars
  PROVE  track' = track /\ (Still \/ \E c \in Calls : MarkWrite(c))
<1>1. CASE UNCHANGED vars
  BY <1>1 DEF vars, Still
<1>2. ASSUME NEW role \in Role, Propose(role) PROVE track' = track /\ Still
  <2>1. row.isAgreedByBoth = FALSE /\ row'.isAgreedByBoth = FALSE
    BY <1>2 DEF Propose, Unborn, NoDeal
  <2> QED
    BY <1>2, <2>1 DEF Propose, Still
<1>3. ASSUME NEW c \in Calls, Load(c) PROVE track' = track /\ Still
  BY <1>3 DEF Load, CorrectLoad, FlagLoad, ResolveLoad, ReplaceLoad, CancelLoad, MarkLoad,
     Still
<1>4. ASSUME NEW c \in Calls, ReplaceWrite(c) PROVE track' = track /\ Still
  BY <1>4 DEF ReplaceWrite, Still, TypeOK, Row
<1>5. ASSUME NEW c \in Calls, CancelWrite(c) PROVE track' = track /\ Still
  BY <1>5 DEF CancelWrite, Still, TypeOK, Row
<1>6. ASSUME NEW c \in Calls, MarkCheck(c) PROVE track' = track /\ Still
  BY <1>6 DEF MarkCheck, Still
<1>7. ASSUME NEW c \in Calls, CorrectCheck(c) PROVE track' = track /\ Still
  BY <1>7 DEF CorrectCheck, Still
<1>8. ASSUME NEW c \in Calls, CorrectWrite(c) PROVE track' = track /\ Still
  <2>1. PICK stage \in call[c].asked : step' = [step EXCEPT ![stage].amount = call[c].amount]
    BY <1>8 DEF CorrectWrite
  <2>2. \A other \in Stage : step'[other].by = step[other].by
    BY <2>1 DEF TypeOK, Tick
  <2> QED
    BY <1>8, <2>2 DEF CorrectWrite, Still
<1>9. ASSUME NEW c \in Calls, FlagWrite(c) PROVE track' = track /\ Still
  BY <1>9 DEF FlagWrite, Reopened, Still, TypeOK, Row
<1>10. ASSUME NEW c \in Calls, ResolveWrite(c) PROVE track' = track /\ Still
  BY <1>10 DEF ResolveWrite, Still, TypeOK, Row
<1>11. ASSUME NEW c \in Calls, Abandon(c) PROVE track' = track /\ Still
  BY <1>11 DEF Abandon, Still
<1>12. ASSUME NEW c \in Calls, MarkWrite(c) PROVE track' = track
  BY <1>12 DEF MarkWrite
<1> QED
  BY <1>1, <1>2, <1>3, <1>4, <1>5, <1>6, <1>7, <1>8, <1>9, <1>10, <1>11, <1>12
  DEF Next, Settle

(* What MarkWrite does to the marks: those asked for are the caller's,     *)
(* the others stay.                                                        *)
LEMMA MarkWriteTicks ==
  ASSUME TypeOK, NEW c \in Calls, MarkWrite(c)
  PROVE  /\ Marked' = Marked \cup call[c].asked
         /\ Marked \cap call[c].asked = {}
         /\ \A stage \in call[c].asked : step'[stage].by = call[c].role
         /\ \A stage \in Stage \ call[c].asked : step'[stage].by = step[stage].by
         /\ row'.isAgreedByBoth <=> row.isAgreedByBoth \/ "AGREED" \in call[c].asked
<1>1. call[c].role \in Role /\ call[c].asked \subseteq Stage
  BY DEF TypeOK, CallRecord
<1>2. \A stage \in call[c].asked : step'[stage].by = call[c].role
  BY <1>1 DEF MarkWrite
<1>3. \A stage \in Stage \ call[c].asked : step'[stage].by = step[stage].by
  BY <1>1 DEF MarkWrite
<1>4. Marked' = Marked \cup call[c].asked
  BY <1>1, <1>2, <1>3 DEF Marked, Role
<1>5. Marked \cap call[c].asked = {}
  BY DEF MarkWrite, AllNew
<1>6. row'.isAgreedByBoth <=> row.isAgreedByBoth \/ "AGREED" \in call[c].asked
  <2>1. CASE "AGREED" \in call[c].asked
    <3>1. row' = [row EXCEPT !.isAgreedByBoth = TRUE]
      BY <2>1 DEF MarkWrite
    <3> QED
      BY <2>1, <3>1 DEF TypeOK, Row
  <2>2. CASE "AGREED" \notin call[c].asked
    BY <2>2 DEF MarkWrite
  <2> QED
    BY <2>1, <2>2
<1> QED
  BY <1>2, <1>3, <1>4, <1>5, <1>6

(* A mark is never taken back.                                             *)
LEMMA MarksStay ==
  ASSUME TypeOK, Unborn, [Next]_vars
  PROVE  track' = track /\ Marked \subseteq Marked'
<1>1. CASE Still
  BY <1>1, OnlyMarkWriteTicks DEF Still, Marked
<1>2. ASSUME NEW c \in Calls, MarkWrite(c) PROVE Marked \subseteq Marked'
  BY <1>2, MarkWriteTicks
<1> QED
  BY <1>1, <1>2, OnlyMarkWriteTicks

(* Being backed is about the track and the boxes alone, and more boxes do  *)
(* not undo it.                                                            *)
LEMMA BackedStays ==
  ASSUME track' = track, NEW terms, NEW stage, NEW boxes, NEW more,
         BackedBy(terms, stage, boxes), boxes \subseteq more
  PROVE  BackedBy(terms, stage, more)'
BY DEF BackedBy

(* Only markSteps' check leaves a handler about to mark.                   *)
LEMMA OnlyMarkCheckAsks ==
  ASSUME TypeOK, [Next]_vars, NEW c \in Calls
  PROVE  call'[c] = call[c] \/ call'[c].at # "mark.write" \/ MarkCheck(c)
<1>1. CASE UNCHANGED vars
  BY <1>1 DEF vars
<1>2. ASSUME NEW role \in Role, Propose(role) PROVE call' = call
  BY <1>2 DEF Propose
<1>3. ASSUME NEW d \in Calls, d # c, Load(d) \/ Settle(d) PROVE call'[c] = call[c]
  BY <1>3 DEF Load, CorrectLoad, FlagLoad, ResolveLoad, ReplaceLoad, CancelLoad, MarkLoad,
     Begin, Settle, ReplaceWrite, CancelWrite, MarkCheck, MarkWrite, CorrectCheck,
     CorrectWrite, FlagWrite, ResolveWrite, Abandon, End, TypeOK
<1>4. ASSUME Load(c) PROVE call'[c].at # "mark.write"
  BY <1>4 DEF Load, CorrectLoad, FlagLoad, ResolveLoad, ReplaceLoad, CancelLoad, MarkLoad,
     Begin, Idle, TypeOK
<1>5. ASSUME End(c) PROVE call'[c].at # "mark.write"
  BY <1>5 DEF End, Idle, TypeOK
<1>6. ASSUME CorrectCheck(c) PROVE call'[c].at # "mark.write"
  BY <1>6 DEF CorrectCheck, TypeOK, CallRecord
<1>7. ASSUME Settle(c) PROVE End(c) \/ CorrectCheck(c) \/ MarkCheck(c)
  BY <1>7 DEF Settle, ReplaceWrite, CancelWrite, MarkWrite, CorrectWrite, FlagWrite,
     ResolveWrite, Abandon
<1> QED
  BY <1>1, <1>2, <1>3, <1>4, <1>5, <1>6, <1>7 DEF Next

-----------------------------------------------------------------------------
(* The invariant.                                                          *)

(* The invariant holds at first.                                           *)
LEMMA InitInv == Init => IInv
<1> SUFFICES ASSUME Init PROVE IInv
  OBVIOUS
<1> USE IdleType DEF Init
<1>1. Marked = {}
  BY DEF Marked, Unmarked
<1>2. TypeOK
  BY DEF TypeOK, Tick, Unmarked
<1>3. Agreement /\ Backed /\ Own
  BY <1>1 DEF Agreement, Backed, Own, NoDeal
<1>4. Asked /\ Unborn
  BY DEF Asked, AskedOf, Unborn, Idle
<1> QED
  BY <1>2, <1>3, <1>4 DEF IInv

(* The AGREED flag, the marks and who made them: only MarkWrite changes    *)
(* any of them, and it writes what was asked for and backed.               *)
LEMMA RecordStep ==
  ASSUME IInv, [Next]_vars
  PROVE  (Agreement /\ Backed /\ Own)'
<1> USE DEF IInv
<1>1. track' = track
  BY OnlyMarkWriteTicks
<1>2. CASE Still
  <2>1. Marked' = Marked
    BY <1>2 DEF Still, Marked
  <2>2. Agreement'
    BY <1>2, <2>1 DEF Agreement, Still
  <2>3. Backed'
    BY <1>1, <2>1, BackedStays DEF Backed
  <2>4. Own'
    BY <1>2, <2>1 DEF Own, Still, Marked
  <2> QED
    BY <2>2, <2>3, <2>4
<1>3. ASSUME NEW c \in Calls, MarkWrite(c) PROVE (Agreement /\ Backed /\ Own)'
  <2>1. /\ Marked' = Marked \cup call[c].asked
        /\ \A stage \in call[c].asked : step'[stage].by = call[c].role
        /\ \A stage \in Stage \ call[c].asked : step'[stage].by = step[stage].by
        /\ row'.isAgreedByBoth <=> row.isAgreedByBoth \/ "AGREED" \in call[c].asked
        /\ Marked \cap call[c].asked = {}
    BY <1>3, MarkWriteTicks
  <2>2. PICK spoken \in Terms : \A stage \in call[c].asked :
          /\ MayMark(stage, call[c].role)
          /\ BackedBy(spoken, stage, Marked \cup call[c].asked)
    BY <1>3 DEF Asked, AskedOf, MarkWrite
  <2>3. Agreement'
    BY <2>1 DEF Agreement
  <2>4. Backed'
    <3> SUFFICES ASSUME NEW stage \in Marked'
                 PROVE  \E terms \in Terms : BackedBy(terms, stage, Marked)'
      BY DEF Backed
    <3>1. CASE stage \in call[c].asked
      <4>1. BackedBy(spoken, stage, Marked \cup call[c].asked)
        BY <2>2, <3>1
      <4> QED
        BY <1>1, <2>1, <2>2, <4>1 DEF BackedBy
    <3>2. CASE stage \in Marked
      <4>1. PICK terms \in Terms : BackedBy(terms, stage, Marked)
        BY <3>2 DEF Backed
      <4> QED
        BY <1>1, <2>1, <4>1 DEF BackedBy
    <3> QED
      BY <2>1, <3>1, <3>2
  <2>5. Own'
    BY <2>1, <2>2 DEF Own, Marked
  <2> QED
    BY <2>3, <2>4, <2>5
<1> QED
  BY <1>2, <1>3, OnlyMarkWriteTicks

(* What a handler is about to mark was backed when the steps were read,    *)
(* and the marks have only grown since.                                    *)
LEMMA AskedStep ==
  ASSUME IInv, [Next]_vars
  PROVE  Asked'
<1> USE DEF IInv
<1> SUFFICES ASSUME NEW c \in Calls, call'[c].at = "mark.write"
             PROVE  \E terms \in Terms : \A stage \in call'[c].asked :
                      /\ MayMark(stage, call'[c].role)
                      /\ BackedBy(terms, stage, Marked \cup call[c].asked)'
  BY DEF Asked, AskedOf
<1>1. track' = track /\ Marked \subseteq Marked'
  BY MarksStay
<1>2. CASE call'[c] = call[c]
  <2>1. PICK terms \in Terms : \A stage \in call[c].asked :
          /\ MayMark(stage, call[c].role)
          /\ BackedBy(terms, stage, Marked \cup call[c].asked)
    BY <1>2 DEF Asked, AskedOf
  <2>2. \A stage \in call'[c].asked : BackedBy(terms, stage, Marked \cup call[c].asked)'
    BY <1>1, <1>2, <2>1 DEF BackedBy
  <2> QED
    BY <1>2, <2>1, <2>2
<1>3. CASE MarkCheck(c)
  <2> DEFINE deal == call[c].saw
  <2>1. PICK asked \in SUBSET Askable(deal, call[c].role) :
          /\ Markable(deal, call[c].role, asked)
          /\ \E amount \in IF asked \cap CARRIES_AMOUNT = {} THEN {0}
                                                          ELSE FiguresFor(deal, asked) :
               call' = [call EXCEPT ![c].at = "mark.write", ![c].asked = asked,
                                    ![c].amount = amount, ![c].saw = Idle.saw]
    BY <1>3 DEF MarkCheck
  <2>2. call'[c].asked = asked /\ call'[c].role = call[c].role
    BY <2>1 DEF TypeOK, CallRecord
  <2>3. deal.terms \in Terms
    BY DEF TypeOK, CallRecord, Seen
  <2>4. ASSUME NEW stage \in asked
        PROVE  /\ MayMark(stage, call'[c].role)
               /\ BackedBy(deal.terms, stage, Marked \cup asked)
    <3>1. MayMark(stage, call[c].role) /\ stage \in InSpine(track, deal.terms)
      BY <2>1 DEF Askable
    <3>2. stage # "AGREED" => Earlier(track, deal.terms, stage) \subseteq Marked \cup asked
      BY <2>1 DEF Markable
    <3> QED
      BY <2>2, <3>1, <3>2 DEF BackedBy
  <2>5. \A stage \in asked : BackedBy(deal.terms, stage, Marked' \cup asked)
    BY <1>1, <2>4 DEF BackedBy
  <2>6. \A stage \in call'[c].asked : MayMark(stage, call'[c].role)
    BY <2>2, <2>4
  <2>7. PICK spoken \in Terms : spoken = deal.terms
    BY <2>3
  <2>8. \A stage \in call'[c].asked : BackedBy(spoken, stage, Marked \cup call[c].asked)'
    BY <1>1, <2>2, <2>5, <2>7 DEF BackedBy
  <2> QED
    BY <2>6, <2>8
<1> QED
  BY <1>2, <1>3, OnlyMarkCheckAsks

(* Every handler starts from a deal that is there.                         *)
LEMMA UnbornStep ==
  ASSUME IInv, [Next]_vars
  PROVE  Unborn'
<1> USE DEF IInv
<1> SUFFICES ASSUME row'.status = "ABSENT"
             PROVE  row' = NoDeal /\ \A c \in Calls : call'[c] = Idle
  BY DEF Unborn
<1>1. CASE UNCHANGED vars
  BY <1>1 DEF vars, Unborn
<1>2. ASSUME NEW role \in Role, Propose(role) PROVE FALSE
  BY <1>2, IdleType DEF Propose, Row
<1>3. ASSUME NEW c \in Calls, Load(c) PROVE FALSE
  <2>1. row' = row
    BY <1>3 DEF Load, CorrectLoad, FlagLoad, ResolveLoad, ReplaceLoad, CancelLoad, MarkLoad
  <2>2. row = NoDeal
    BY <2>1 DEF Unborn
  <2> QED
    BY <1>3, <2>2 DEF NoDeal, Load, CorrectLoad, FlagLoad, ResolveLoad, ReplaceLoad,
       CancelLoad, MarkLoad, IsOpen, Replaceable, Withdrawable
<1>4. ASSUME NEW c \in Calls, Settle(c) PROVE FALSE
  <2>1. call[c].at # "idle"
    BY <1>4 DEF Settle, ReplaceWrite, CancelWrite, MarkCheck, MarkWrite, CorrectCheck,
       CorrectWrite, FlagWrite, ResolveWrite, Abandon
  <2>2. row.status # "ABSENT"
    BY <2>1 DEF Unborn, Idle
  <2>3. row'.status = row.status \/ row'.status = "CANCELLED"
    BY <1>4 DEF Settle, ReplaceWrite, CancelWrite, MarkCheck, MarkWrite, CorrectCheck,
       CorrectWrite, FlagWrite, Reopened, ResolveWrite, Abandon, TypeOK, Row
  <2> QED
    BY <2>2, <2>3
<1> QED
  BY <1>1, <1>2, <1>3, <1>4 DEF Next

(* The inductive invariant holds in every reachable state.                 *)
THEOREM Invariance == Spec => []IInv
<1>1. IInv /\ [Next]_vars => IInv'
  BY TypeStep, RecordStep, AskedStep, UnbornStep DEF IInv
<1> QED
  BY InitInv, <1>1, PTL DEF Spec

(* Types: the deal row, its steps and every handler's local state, in      *)
(* every reachable state (deal.service.ts).                                *)
THEOREM TypeCorrect == Spec => []TypeOK
BY Invariance, PTL DEF IInv

-----------------------------------------------------------------------------
(* The refinement of DealRecord.                                           *)

(* Both modules read the spine from DealSpine.                             *)
LEMMA SameSpine ==
  /\ Record!Stage = Stage
  /\ Record!Role = Role
  /\ Record!Track = Track
  /\ \A stage, role : Record!MayMark(stage, role) <=> MayMark(stage, role)
  /\ \A terms : Record!InSpine(track, terms) = InSpine(track, terms)
  /\ \A terms, stage : Record!Earlier(track, terms, stage) = Earlier(track, terms, stage)
BY DEF Record!Stage, Stage, Record!PayerStages, PayerStages, Record!ProviderStages,
   ProviderStages, Record!EitherStages, EitherStages, Record!Role, Role, Record!Track, Track,
   Record!MayMark, MayMark, Record!InSpine, InSpine, Record!Earlier, Earlier,
   Record!SpineFor, SpineFor, Record!HasDeposit, HasDeposit, Record!PaymentLast, PaymentLast,
   Record!Payment, Payment, Record!Fulfilment, Fulfilment

(* What the record calls ticked is what the rows call marked.              *)
LEMMA TickedIsMarked == Record!Ticked = Marked
BY SameSpine DEF Record!Ticked, Marked

(* The write of markSteps ticks the boxes it asks for; no other step of    *)
(* any handler touches the record.                                         *)
LEMMA StepRefines ==
  ASSUME IInv, [Next]_vars
  PROVE  [Record!Next]_<<track, [stage \in Stage |-> step[stage].by]>>
<1> USE DEF IInv
<1> DEFINE ticked == [stage \in Stage |-> step[stage].by]
<1>1. track' = track
  BY OnlyMarkWriteTicks
<1>2. CASE Still
  BY <1>1, <1>2 DEF Still
<1>3. ASSUME NEW c \in Calls, MarkWrite(c) PROVE Record!Next
  <2>1. PICK role, boxes : role = call[c].role /\ boxes = call[c].asked
    OBVIOUS
  <2>2. role \in Role /\ boxes \subseteq Stage
    BY <2>1 DEF TypeOK, CallRecord
  <2>4. ticked' = [stage \in Record!Stage |-> IF stage \in boxes THEN role ELSE ticked[stage]]
    BY <1>3, <2>1, <2>2, MarkWriteTicks, SameSpine
  <2>5. PICK spoken \in Terms : \A stage \in boxes :
          /\ MayMark(stage, role)
          /\ BackedBy(spoken, stage, Marked \cup boxes)
    BY <1>3, <2>1 DEF Asked, AskedOf, MarkWrite
  <2>6. \A stage \in boxes :
          /\ stage \in Record!InSpine(track, spoken)
          /\ stage # "AGREED" =>
               Record!Earlier(track, spoken, stage) \subseteq Record!Ticked \cup boxes
    BY <2>5, SameSpine, TickedIsMarked DEF BackedBy
  <2>7. Record!TickBoxes(role, boxes)
    BY <1>1, <2>4, <2>5, <2>6 DEF Record!TickBoxes
  <2>8. role \in Record!Role /\ boxes \in SUBSET Record!Unticked(role)
    BY <1>3, <2>1, <2>2, <2>5, MarkWriteTicks, SameSpine, TickedIsMarked DEF Record!Unticked
  <2> QED
    BY <2>7, <2>8 DEF Record!Next
<1> QED
  BY <1>2, <1>3, OnlyMarkWriteTicks

(* However the handlers of the two sides overlap, a deal's steps are a     *)
(* record as DealRecord describes it: it only grows, each box is ticked    *)
(* once and by its own side, never before its predecessors.                *)
THEOREM RecordKept == Spec => KeepsARecord
<1>1. Init => Record!Init
  <2> SUFFICES ASSUME Init PROVE Record!Init
    OBVIOUS
  <2>1. [stage \in Stage |-> step[stage].by] = [stage \in Stage |-> "NOBODY"]
    BY DEF Init, Unmarked
  <2> QED
    BY <2>1, SameSpine DEF Init, Record!Init
<1>2. IInv /\ [Next]_vars => [Record!Next]_<<track, [stage \in Stage |-> step[stage].by]>>
  BY StepRefines
<1> QED
  BY <1>1, <1>2, Invariance, PTL DEF Spec, KeepsARecord, Record!Spec

-----------------------------------------------------------------------------
(* What the spine puts before what, for all terms.                         *)

Elems(s) == {s[i] : i \in DOMAIN s}
Precedes(s, x, y) == \E j, k \in DOMAIN s : j < k /\ s[j] = x /\ s[k] = y

(* The elements of a concatenation, and the order among them.              *)
LEMMA ConcatOrder ==
  ASSUME NEW a \in Seq(Stage), NEW b \in Seq(Stage)
  PROVE  /\ a \o b \in Seq(Stage)
         /\ Elems(a \o b) = Elems(a) \cup Elems(b)
         /\ \A x, y : Precedes(a, x, y) => Precedes(a \o b, x, y)
         /\ \A x, y : Precedes(b, x, y) => Precedes(a \o b, x, y)
         /\ \A x \in Elems(a), y \in Elems(b) : Precedes(a \o b, x, y)
<1> DEFINE ab == a \o b
<1>1. /\ ab \in Seq(Stage)
      /\ Len(ab) = Len(a) + Len(b)
      /\ \A i \in 1 .. Len(a) + Len(b) : ab[i] = IF i <= Len(a) THEN a[i] ELSE b[i - Len(a)]
  BY ConcatProperties
<1>2. /\ Len(a) \in Nat /\ DOMAIN a = 1 .. Len(a)
      /\ Len(b) \in Nat /\ DOMAIN b = 1 .. Len(b)
      /\ DOMAIN ab = 1 .. Len(a) + Len(b)
  BY <1>1, LenProperties
<1> HIDE DEF ab
<1>3. \A i \in DOMAIN a : i \in DOMAIN ab /\ ab[i] = a[i]
  BY <1>1, <1>2
<1>4. \A i \in DOMAIN b : i + Len(a) \in DOMAIN ab /\ ab[i + Len(a)] = b[i]
  BY <1>1, <1>2
<1>5. \A i \in DOMAIN ab : ab[i] \in Elems(a) \cup Elems(b)
  <2> TAKE i \in DOMAIN ab
  <2>1. CASE i <= Len(a)
    BY <1>1, <1>2, <2>1 DEF Elems
  <2>2. CASE i > Len(a)
    <3>1. i - Len(a) \in DOMAIN b /\ ab[i] = b[i - Len(a)]
      BY <1>1, <1>2, <2>2
    <3> QED
      BY <3>1 DEF Elems
  <2> QED
    BY <1>2, <2>1, <2>2
<1>6. Elems(ab) = Elems(a) \cup Elems(b)
  <2>1. Elems(ab) \subseteq Elems(a) \cup Elems(b)
    BY <1>5 DEF Elems
  <2>2. Elems(a) \subseteq Elems(ab)
    BY <1>3 DEF Elems
  <2>3. Elems(b) \subseteq Elems(ab)
    <3> SUFFICES ASSUME NEW i \in DOMAIN b PROVE b[i] \in Elems(ab)
      BY DEF Elems
    <3> QED
      BY <1>4 DEF Elems
  <2> QED
    BY <2>1, <2>2, <2>3
<1>7. ASSUME NEW x, NEW y, Precedes(a, x, y) PROVE Precedes(ab, x, y)
  BY <1>3, <1>7 DEF Precedes
<1>8. ASSUME NEW x, NEW y, Precedes(b, x, y) PROVE Precedes(ab, x, y)
  <2>1. PICK j, k \in DOMAIN b : j < k /\ b[j] = x /\ b[k] = y
    BY <1>8 DEF Precedes
  <2>2. j + Len(a) < k + Len(a)
    BY <1>2, <2>1
  <2> QED
    BY <1>4, <2>1, <2>2 DEF Precedes
<1>9. ASSUME NEW x \in Elems(a), NEW y \in Elems(b) PROVE Precedes(ab, x, y)
  <2>1. PICK j \in DOMAIN a : a[j] = x
    BY DEF Elems
  <2>2. PICK k \in DOMAIN b : b[k] = y
    BY DEF Elems
  <2>3. j < k + Len(a)
    BY <1>2, <2>1, <2>2
  <2> QED
    BY <1>3, <1>4, <2>1, <2>2, <2>3 DEF Precedes
<1> QED
  BY <1>1, <1>6, <1>7, <1>8, <1>9 DEF ab

(* The blocks the spine is made of.                                        *)
Deposit(terms) == IF HasDeposit(terms) THEN <<"DEPOSIT_PAID", "DEPOSIT_CONFIRMED">> ELSE <<>>
Middle(terms) == IF PaymentLast(terms) THEN Fulfilment(track) \o Payment
                                       ELSE Payment \o Fulfilment(track)

(* The blocks of every spine are in order and do not meet.                 *)
LEMMA BlocksOrder ==
  ASSUME NEW terms
  PROVE  /\ Deposit(terms) \in Seq(Stage)
         /\ Payment \in Seq(Stage) /\ Fulfilment(track) \in Seq(Stage)
         /\ Elems(Deposit(terms)) \subseteq {"DEPOSIT_PAID", "DEPOSIT_CONFIRMED"}
         /\ "DEPOSIT_CONFIRMED" \in Elems(Deposit(terms)) =>
              Precedes(Deposit(terms), "DEPOSIT_PAID", "DEPOSIT_CONFIRMED")
         /\ Elems(Payment) = {"PAID", "PAYMENT_CONFIRMED"}
         /\ Elems(Fulfilment(track)) \subseteq
              {"DISPATCHED", "GOODS_RECEIVED", "STARTED", "WORK_DELIVERED", "ACCEPTED"}
         /\ Elems(<<"AGREED">>) = {"AGREED"} /\ Elems(<<"DONE">>) = {"DONE"}
         /\ <<"AGREED">> \in Seq(Stage) /\ <<"DONE">> \in Seq(Stage)
<1> USE DEF Stage, PayerStages, ProviderStages, EitherStages
<1>1. Deposit(terms) \in Seq(Stage) /\ Payment \in Seq(Stage) /\ Fulfilment(track) \in Seq(Stage)
  <2>1. Deposit(terms) \in Seq(Stage)
    <3>1. <<"DEPOSIT_PAID", "DEPOSIT_CONFIRMED">> \in Seq(Stage) /\ <<>> \in Seq(Stage)
      OBVIOUS
    <3> QED
      BY <3>1, Zenon DEF Deposit
  <2>2. Payment \in Seq(Stage)
    BY DEF Payment
  <2>3. Fulfilment(track) \in Seq(Stage)
    <3>1. <<"DISPATCHED", "GOODS_RECEIVED">> \in Seq(Stage)
      OBVIOUS
    <3>2. <<"STARTED", "WORK_DELIVERED", "ACCEPTED">> \in Seq(Stage)
      OBVIOUS
    <3> QED
      BY <3>1, <3>2, Zenon DEF Fulfilment
  <2> QED
    BY <2>1, <2>2, <2>3
<1>2. Elems(Deposit(terms)) \subseteq {"DEPOSIT_PAID", "DEPOSIT_CONFIRMED"}
  BY DEF Deposit, Elems
<1>3. "DEPOSIT_CONFIRMED" \in Elems(Deposit(terms)) =>
        Precedes(Deposit(terms), "DEPOSIT_PAID", "DEPOSIT_CONFIRMED")
  BY DEF Deposit, Elems, Precedes
<1>4. Elems(Payment) = {"PAID", "PAYMENT_CONFIRMED"}
  BY DEF Payment, Elems
<1>5. Elems(Fulfilment(track)) \subseteq
        {"DISPATCHED", "GOODS_RECEIVED", "STARTED", "WORK_DELIVERED", "ACCEPTED"}
  BY DEF Fulfilment, Elems
<1>6. /\ Elems(<<"AGREED">>) = {"AGREED"} /\ Elems(<<"DONE">>) = {"DONE"}
      /\ <<"AGREED">> \in Seq(Stage) /\ <<"DONE">> \in Seq(Stage)
  BY DEF Elems
<1> QED
  BY <1>1, <1>2, <1>3, <1>4, <1>5, <1>6

(* AGREED comes before everything, the payment before its confirmation,    *)
(* the deposit before its own, and everything but the deposit before DONE. *)
LEMMA SpineOrder ==
  ASSUME NEW terms
  PROVE  /\ \A stage \in InSpine(track, terms) \ {"AGREED"} :
              "AGREED" \in Earlier(track, terms, stage)
         /\ "PAID" \in Earlier(track, terms, "PAYMENT_CONFIRMED")
         /\ "DEPOSIT_CONFIRMED" \in InSpine(track, terms) =>
              "DEPOSIT_PAID" \in Earlier(track, terms, "DEPOSIT_CONFIRMED")
         /\ Elems(Payment) \cup Elems(Fulfilment(track)) \subseteq
              Earlier(track, terms, "DONE")
<1> DEFINE head == <<"AGREED">> \o Deposit(terms)
           front == head \o Middle(terms)
           spine == front \o <<"DONE">>
<1>1. SpineFor(track, terms) = spine
  BY DEF SpineFor, Deposit, Middle
<1>2. /\ InSpine(track, terms) = Elems(spine)
      /\ \A x, y : x \in Earlier(track, terms, y) <=> Precedes(spine, x, y)
  BY <1>1 DEF InSpine, Elems, Earlier, Precedes
<1>3. /\ Middle(terms) \in Seq(Stage)
      /\ Elems(Middle(terms)) = Elems(Payment) \cup Elems(Fulfilment(track))
      /\ Precedes(Middle(terms), "PAID", "PAYMENT_CONFIRMED")
  <2>1. Precedes(Payment, "PAID", "PAYMENT_CONFIRMED")
    BY DEF Precedes, Payment
  <2> HIDE DEF Payment
  <2>2. CASE PaymentLast(terms)
    BY <2>1, <2>2, BlocksOrder, ConcatOrder DEF Middle
  <2>3. CASE ~PaymentLast(terms)
    BY <2>1, <2>3, BlocksOrder, ConcatOrder DEF Middle
  <2> QED
    BY <2>2, <2>3
<1>4. /\ head \in Seq(Stage)
      /\ Elems(head) = {"AGREED"} \cup Elems(Deposit(terms))
      /\ \A y \in Elems(Deposit(terms)) : Precedes(head, "AGREED", y)
      /\ \A x, y : Precedes(Deposit(terms), x, y) => Precedes(head, x, y)
  <2>1. <<"AGREED">> \in Seq(Stage) /\ Deposit(terms) \in Seq(Stage) /\ Elems(<<"AGREED">>) = {"AGREED"}
    BY BlocksOrder
  <2> QED
    BY <2>1, ConcatOrder
<1> HIDE DEF head
<1>5. /\ front \in Seq(Stage)
      /\ Elems(front) = Elems(head) \cup Elems(Middle(terms))
      /\ \A x, y : Precedes(head, x, y) => Precedes(front, x, y)
      /\ \A x, y : Precedes(Middle(terms), x, y) => Precedes(front, x, y)
      /\ \A x \in Elems(head), y \in Elems(Middle(terms)) : Precedes(front, x, y)
  BY <1>3, <1>4, ConcatOrder
<1> HIDE DEF front
<1>6. /\ Elems(spine) = Elems(front) \cup {"DONE"}
      /\ \A x, y : Precedes(front, x, y) => Precedes(spine, x, y)
      /\ \A x \in Elems(front) : Precedes(spine, x, "DONE")
  <2> DEFINE done == <<"DONE">>
  <2>1. done \in Seq(Stage) /\ Elems(done) = {"DONE"}
    BY BlocksOrder
  <2>2. spine = front \o done
    OBVIOUS
  <2> HIDE DEF done, spine
  <2>3. /\ Elems(spine) = Elems(front) \cup Elems(done)
        /\ \A x, y : Precedes(front, x, y) => Precedes(spine, x, y)
        /\ \A x \in Elems(front), y \in Elems(done) : Precedes(spine, x, y)
    BY <1>5, <2>1, <2>2, ConcatOrder
  <2> QED
    BY <2>1, <2>3
<1> HIDE DEF spine
<1>7. \A stage \in Elems(spine) \ {"AGREED"} : Precedes(spine, "AGREED", stage)
  BY <1>4, <1>5, <1>6
<1>8. Precedes(spine, "PAID", "PAYMENT_CONFIRMED")
  BY <1>3, <1>5, <1>6
<1>9. "DEPOSIT_CONFIRMED" \in Elems(spine) =>
        Precedes(spine, "DEPOSIT_PAID", "DEPOSIT_CONFIRMED")
  <2>1. "DEPOSIT_CONFIRMED" \in Elems(spine) =>
          "DEPOSIT_CONFIRMED" \in Elems(Deposit(terms))
    BY <1>3, <1>4, <1>5, <1>6, BlocksOrder
  <2> QED
    BY <2>1, <1>4, <1>5, <1>6, BlocksOrder
<1>10. \A x \in Elems(Payment) \cup Elems(Fulfilment(track)) : Precedes(spine, x, "DONE")
  BY <1>3, <1>5, <1>6
<1> QED
  BY <1>2, <1>7, <1>8, <1>9, <1>10

-----------------------------------------------------------------------------
(* A deal that reads as done is complete, whoever overlapped with whom and *)
(* whatever the terms were replaced by: it was agreed, paid and confirmed  *)
(* by the two sides, and its work or goods were delivered and accepted.    *)
THEOREM DoneAlwaysComplete == Spec => []DoneIsComplete
<1>1. IInv => DoneIsComplete
  <2> SUFFICES ASSUME IInv PROVE DoneIsComplete
    OBVIOUS
  <2> USE DEF IInv
  <2>1. \A stage \in Marked \ {"AGREED"} :
          \E terms \in Terms : /\ stage \in InSpine(track, terms)
                               /\ Earlier(track, terms, stage) \subseteq Marked
    BY DEF Backed, BackedBy
  <2>2. "DEPOSIT_CONFIRMED" \in Marked => "DEPOSIT_PAID" \in Marked
    BY <2>1, SpineOrder
  <2>3. ASSUME "DONE" \in Marked
        PROVE  /\ {"AGREED", "PAID", "PAYMENT_CONFIRMED"} \subseteq Marked
               /\ Elems(Fulfilment(track)) \subseteq Marked
    <3>1. PICK terms \in Terms : /\ "DONE" \in InSpine(track, terms)
                                 /\ Earlier(track, terms, "DONE") \subseteq Marked
      BY <2>1, <2>3
    <3>2. /\ "AGREED" \in Earlier(track, terms, "DONE")
          /\ Elems(Payment) \cup Elems(Fulfilment(track)) \subseteq Earlier(track, terms, "DONE")
      BY <3>1, SpineOrder
    <3>3. Elems(Payment) = {"PAID", "PAYMENT_CONFIRMED"}
      BY BlocksOrder
    <3> QED
      BY <3>1, <3>2, <3>3
  <2>4. ASSUME "PAID" \in Marked, "PAYMENT_CONFIRMED" \in Marked
        PROVE  step["PAID"].by # step["PAYMENT_CONFIRMED"].by
    BY <2>4 DEF Own, MayMark, PayerStages, ProviderStages, EitherStages
  <2>5. "DONE" \in Marked => \A i \in DOMAIN Fulfilment(track) : Fulfilment(track)[i] \in Marked
    BY <2>3 DEF Elems
  <2> QED
    BY <2>2, <2>3, <2>4, <2>5 DEF DoneIsComplete, Agreement
<1> QED
  BY <1>1, Invariance, PTL
-----------------------------------------------------------------------------
(* What a handler that is not late still knows, and what follows for the   *)
(* row.                                                                    *)

(* A handler that has decided and is not late: what it decided on is so.   *)
TimelyOf(c) ==
  c \notin late =>
    /\ call[c].at \in {"replace.write", "cancel.write"} => ~row.isAgreedByBoth
    /\ call[c].at = "correct.write" => \A stage \in call[c].asked : Correctable(stage)

Timely == \A c \in Calls : TimelyOf(c)

Ordered ==
  /\ Marked \subseteq InSpine(track, row.terms)
  /\ \A stage \in Marked : Earlier(track, row.terms, stage) \subseteq Marked
  /\ "AGREED" \in Marked => step["AGREED"].by # row.proposedByRole

(* A handler that marks does so under the terms in force.                  *)
TermsHeld(c) ==
  /\ call[c].at = "mark.check" =>
       /\ call[c].saw.terms = row.terms
       /\ call[c].saw.proposedByRole = row.proposedByRole
  /\ call[c].at = "mark.write" =>
       /\ \A stage \in call[c].asked : BackedBy(row.terms, stage, Marked \cup call[c].asked)
       /\ "AGREED" \in call[c].asked => Acceptable(row, call[c].role)

TermsInv == ~crossed => Ordered /\ \A c \in Calls : TermsHeld(c)

(* What comes before an element of a concatenation's first part only.      *)
LEMMA FirstPart ==
  ASSUME NEW a \in Seq(Stage), NEW b \in Seq(Stage), NEW y, y \notin Elems(b),
         NEW x, Precedes(a \o b, x, y)
  PROVE  Precedes(a, x, y)
<1> DEFINE ab == a \o b
<1>1. /\ ab \in Seq(Stage)
      /\ Len(ab) = Len(a) + Len(b)
      /\ \A i \in 1 .. Len(a) + Len(b) : ab[i] = IF i <= Len(a) THEN a[i] ELSE b[i - Len(a)]
  BY ConcatProperties
<1>2. /\ Len(a) \in Nat /\ DOMAIN a = 1 .. Len(a)
      /\ Len(b) \in Nat /\ DOMAIN b = 1 .. Len(b)
      /\ DOMAIN ab = 1 .. Len(a) + Len(b)
  BY <1>1, LenProperties
<1>3. PICK j, k \in DOMAIN ab : j < k /\ ab[j] = x /\ ab[k] = y
  BY DEF Precedes
<1> HIDE DEF ab
<1>4. k <= Len(a)
  <2> SUFFICES ASSUME k > Len(a) PROVE FALSE
    BY <1>2
  <2>1. k - Len(a) \in DOMAIN b /\ ab[k] = b[k - Len(a)]
    BY <1>1, <1>2
  <2> QED
    BY <1>3, <2>1 DEF Elems
<1>5. j \in DOMAIN a /\ k \in DOMAIN a /\ a[j] = x /\ a[k] = y
  BY <1>1, <1>2, <1>3, <1>4
<1> QED
  BY <1>3, <1>5 DEF Precedes

(* Nothing comes before AGREED, and every spine has it.                    *)
LEMMA AgreedFirst ==
  ASSUME NEW terms
  PROVE  "AGREED" \in InSpine(track, terms) /\ Earlier(track, terms, "AGREED") = {}
<1> DEFINE agreed == <<"AGREED">>
           done == <<"DONE">>
           head == agreed \o Deposit(terms)
           front == head \o Middle(terms)
           spine == front \o done
<1>1. SpineFor(track, terms) = spine
  BY DEF SpineFor, Deposit, Middle
<1>2. /\ InSpine(track, terms) = Elems(spine)
      /\ \A x, y : x \in Earlier(track, terms, y) <=> Precedes(spine, x, y)
  BY <1>1 DEF InSpine, Elems, Earlier, Precedes
<1>3. /\ agreed \in Seq(Stage) /\ Elems(agreed) = {"AGREED"}
      /\ done \in Seq(Stage) /\ "AGREED" \notin Elems(done)
      /\ Deposit(terms) \in Seq(Stage) /\ "AGREED" \notin Elems(Deposit(terms))
  BY BlocksOrder
<1>4. Middle(terms) \in Seq(Stage) /\ "AGREED" \notin Elems(Middle(terms))
  <2>1. /\ Payment \in Seq(Stage) /\ Fulfilment(track) \in Seq(Stage)
        /\ "AGREED" \notin Elems(Payment) /\ "AGREED" \notin Elems(Fulfilment(track))
    BY BlocksOrder
  <2>2. CASE PaymentLast(terms)
    BY <2>1, <2>2, ConcatOrder DEF Middle
  <2>3. CASE ~PaymentLast(terms)
    BY <2>1, <2>3, ConcatOrder DEF Middle
  <2> QED
    BY <2>2, <2>3
<1>5. \A x : ~Precedes(agreed, x, "AGREED")
  BY DEF Precedes
<1> HIDE DEF agreed, done
<1>6. head \in Seq(Stage) /\ "AGREED" \in Elems(head)
  BY <1>3, ConcatOrder
<1>7. \A x : ~Precedes(head, x, "AGREED")
  BY <1>3, <1>5, FirstPart
<1> HIDE DEF head
<1>8. front \in Seq(Stage) /\ "AGREED" \in Elems(front)
  BY <1>4, <1>6, ConcatOrder
<1>9. \A x : ~Precedes(front, x, "AGREED")
  BY <1>4, <1>6, <1>7, FirstPart
<1> HIDE DEF front
<1>10. "AGREED" \in Elems(spine)
  BY <1>3, <1>8, ConcatOrder
<1>11. \A x : ~Precedes(spine, x, "AGREED")
  BY <1>3, <1>8, <1>9, FirstPart
<1> QED
  BY <1>2, <1>10, <1>11

(* Before both agreed nothing is marked.                                   *)
LEMMA NothingMarked ==
  ASSUME IInv, ~row.isAgreedByBoth
  PROVE  Marked = {}
<1>1. "AGREED" \notin Marked
  BY DEF IInv, Agreement
<1>2. ASSUME NEW stage \in Marked PROVE FALSE
  <2>1. stage # "AGREED"
    BY <1>1, <1>2
  <2>2. PICK terms \in Terms : BackedBy(terms, stage, Marked)
    BY DEF IInv, Backed
  <2>3. stage \in InSpine(track, terms) /\ Earlier(track, terms, stage) \subseteq Marked
    BY <2>1, <2>2 DEF BackedBy
  <2> QED
    BY <1>1, <2>1, <2>3, SpineOrder
<1> QED
  BY <1>2

(* A handler's step leaves the other handlers where they are.              *)
LEMMA OthersStay ==
  ASSUME TypeOK, NEW c \in Calls, Load(c) \/ Settle(c), NEW d \in Calls, d # c
  PROVE  call'[d] = call[d]
BY DEF Load, CorrectLoad, FlagLoad, ResolveLoad, ReplaceLoad, CancelLoad, MarkLoad,
   Begin, Settle, ReplaceWrite, CancelWrite, MarkCheck, MarkWrite, CorrectCheck,
   CorrectWrite, FlagWrite, ResolveWrite, Abandon, End, TypeOK

(* A handler that ends knows nothing any more.                             *)
LEMMA AtRest ==
  ASSUME TypeOK, NEW c \in Calls, End(c)
  PROVE  call'[c].at = "idle"
BY DEF TypeOK, End, Idle

(* Where each load leaves its handler.                                     *)
LEMMA LoadAt ==
  ASSUME TypeOK, NEW c \in Calls
  PROVE  /\ CorrectLoad(c) => call'[c].at = "correct.check"
         /\ FlagLoad(c) => call'[c].at = "flag.write"
         /\ ResolveLoad(c) => call'[c].at = "resolve.write"
         /\ \A role \in Role :
              /\ ReplaceLoad(c, role) => call'[c].at = "replace.write"
              /\ CancelLoad(c, role) => call'[c].at = "cancel.write"
              /\ MarkLoad(c, role) => call'[c].at = "mark.check"
<1>1. ASSUME CorrectLoad(c) PROVE call'[c].at = "correct.check"
  BY <1>1 DEF CorrectLoad, Begin, Idle, TypeOK
<1>2. ASSUME FlagLoad(c) PROVE call'[c].at = "flag.write"
  BY <1>2 DEF FlagLoad, Begin, Idle, TypeOK
<1>3. ASSUME ResolveLoad(c) PROVE call'[c].at = "resolve.write"
  BY <1>3 DEF ResolveLoad, Begin, Idle, TypeOK
<1>4. ASSUME NEW role \in Role, ReplaceLoad(c, role) PROVE call'[c].at = "replace.write"
  BY <1>4 DEF ReplaceLoad, Begin, Idle, TypeOK
<1>5. ASSUME NEW role \in Role, CancelLoad(c, role) PROVE call'[c].at = "cancel.write"
  BY <1>5 DEF CancelLoad, Begin, Idle, TypeOK
<1>6. ASSUME NEW role \in Role, MarkLoad(c, role) PROVE call'[c].at = "mark.check"
  BY <1>6 DEF MarkLoad, Begin, Idle, TypeOK
<1> QED
  BY <1>1, <1>2, <1>3, <1>4, <1>5, <1>6

(* Where each check leaves its handler.                                    *)
LEMMA CheckAt ==
  ASSUME TypeOK, NEW c \in Calls
  PROVE  /\ MarkCheck(c) => call'[c].at = "mark.write"
         /\ CorrectCheck(c) => call'[c].at = "correct.write"
<1>1. call[c] \in CallRecord /\ call \in [Calls -> CallRecord]
  BY DEF TypeOK
<1>2. ASSUME NEW at, NEW asked, NEW amount,
             call' = [call EXCEPT ![c].at = at, ![c].asked = asked, ![c].amount = amount]
      PROVE  call'[c].at = at
  <2>1. call'[c] = [call[c] EXCEPT !.at = at, !.asked = asked, !.amount = amount]
    BY <1>1, <1>2
  <2> QED
    BY <1>1, <2>1 DEF CallRecord
<1>3. ASSUME MarkCheck(c) PROVE call'[c].at = "mark.write"
  <2>1. PICK asked, amount :
          call' = [call EXCEPT ![c].at = "mark.write", ![c].asked = asked,
                               ![c].amount = amount, ![c].saw = Idle.saw]
    BY <1>3, Zenon DEF MarkCheck
  <2>2. call'[c] = [call[c] EXCEPT !.at = "mark.write", !.asked = asked, !.amount = amount,
                                   !.saw = Idle.saw]
    BY <1>1, <2>1
  <2> QED
    BY <1>1, <2>2 DEF CallRecord
<1>4. ASSUME CorrectCheck(c) PROVE call'[c].at = "correct.write"
  <2>1. PICK stage, amount :
          call' = [call EXCEPT ![c].at = "correct.write", ![c].asked = {stage},
                               ![c].amount = amount]
    BY <1>4, Zenon DEF CorrectCheck
  <2> QED
    BY <1>2, <2>1
<1> QED
  BY <1>3, <1>4

(* A handler that does not write marks leaves the record still.            *)
LEMMA OneWriter ==
  ASSUME TypeOK, Unborn, NEW c \in Calls, Load(c) \/ Settle(c), ~MarkWrite(c)
  PROVE  Still
<1>1. CASE Load(c)
  BY <1>1 DEF Load, CorrectLoad, FlagLoad, ResolveLoad, ReplaceLoad, CancelLoad, MarkLoad,
     Still
<1>2. CASE CorrectWrite(c)
  <2>1. PICK stage \in call[c].asked : step' = [step EXCEPT ![stage].amount = call[c].amount]
    BY <1>2 DEF CorrectWrite
  <2>2. \A other \in Stage : step'[other].by = step[other].by
    BY <2>1 DEF TypeOK, Tick
  <2> QED
    BY <1>2, <2>2 DEF CorrectWrite, Still
<1>3. CASE Settle(c) /\ ~CorrectWrite(c)
  BY <1>3 DEF Settle, ReplaceWrite, CancelWrite, MarkCheck, CorrectCheck, FlagWrite, Reopened,
     ResolveWrite, Abandon, Still, TypeOK, Row
<1> QED
  BY <1>1, <1>2, <1>3

(* A confirmed figure is one that was marked.                              *)
LEMMA FrozenIsMarked ==
  ASSUME IInv, NEW stage \in CARRIES_AMOUNT, Frozen(stage)
  PROVE  stage \in Marked
<1>1. ASSUME NEW other \in Marked, other # "AGREED"
      PROVE  \E terms \in Terms : /\ other \in InSpine(track, terms)
                                  /\ Earlier(track, terms, other) \subseteq Marked
  BY <1>1 DEF IInv, Backed, BackedBy
<1>2. CASE stage = "PAID"
  <2>1. "PAYMENT_CONFIRMED" \in Marked
    BY <1>2 DEF Frozen, CONFIRMS, CARRIES_AMOUNT
  <2> QED
    BY <1>1, <1>2, <2>1, SpineOrder
<1>3. CASE stage = "DEPOSIT_PAID"
  <2>1. "DEPOSIT_CONFIRMED" \in Marked
    BY <1>3 DEF Frozen, CONFIRMS, CARRIES_AMOUNT
  <2> QED
    BY <1>1, <1>3, <2>1, SpineOrder
<1> QED
  BY <1>2, <1>3 DEF CARRIES_AMOUNT

(* The handlers a step takes off the late ones are those that finish.      *)
LEMMA LateStays ==
  ASSUME NEW d \in Calls, Load(d) \/ Settle(d), NEW c \in Calls, c # d, c \notin late'
  PROVE  c \notin late
BY DEF Load, CorrectLoad, FlagLoad, ResolveLoad, ReplaceLoad, CancelLoad, MarkLoad,
   Settle, ReplaceWrite, CancelWrite, MarkCheck, MarkWrite, CorrectCheck, CorrectWrite,
   FlagWrite, ResolveWrite, Abandon, Forget

(* Once terms were replaced across a marking, that is not forgotten.       *)
LEMMA CrossedStays ==
  ASSUME [Next]_vars, crossed
  PROVE  crossed'
BY DEF Next, vars, Propose, Load, CorrectLoad, FlagLoad, ResolveLoad, ReplaceLoad, CancelLoad,
   MarkLoad, Settle, ReplaceWrite, CancelWrite, MarkCheck, MarkWrite, CorrectCheck,
   CorrectWrite, FlagWrite, ResolveWrite, Abandon

(* What another handler decided on in time is still so after a step, or    *)
(* the step made it late.                                                  *)
LEMMA TimelyOther ==
  ASSUME IInv, NEW c \in Calls, TimelyOf(c), NEW d \in Calls, d # c, Load(d) \/ Settle(d)
  PROVE  TimelyOf(c)'
<1> USE DEF IInv
<1> SUFFICES ASSUME c \notin late'
             PROVE  /\ call'[c].at \in {"replace.write", "cancel.write"} => ~row'.isAgreedByBoth
                    /\ call'[c].at = "correct.write" =>
                         \A stage \in call'[c].asked : Correctable(stage)'
  BY DEF TimelyOf
<1>1. call'[c] = call[c]
  BY OthersStay
<1>2. c \notin late
  BY LateStays
<1>3. /\ call[c].at \in {"replace.write", "cancel.write"} => ~row.isAgreedByBoth
      /\ call[c].at = "correct.write" => \A stage \in call[c].asked : Correctable(stage)
  BY <1>2 DEF TimelyOf
<1>4. CASE MarkWrite(d)
  <2>1. ~Forbidden(c, call[d].asked)
    BY <1>4 DEF MarkWrite
  <2>2. /\ Marked' = Marked \cup call[d].asked
        /\ row'.isAgreedByBoth <=> row.isAgreedByBoth \/ "AGREED" \in call[d].asked
    BY <1>4, MarkWriteTicks
  <2>3. call[c].at \in {"replace.write", "cancel.write"} => ~row'.isAgreedByBoth
    BY <1>3, <2>1, <2>2 DEF Forbidden
  <2>4. call[c].at = "correct.write" => \A stage \in call[c].asked : Correctable(stage)'
    BY <1>3, <2>1, <2>2 DEF Forbidden, Correctable, Frozen
  <2> QED
    BY <1>1, <2>3, <2>4
<1>5. CASE ~MarkWrite(d)
  <2>1. Still
    BY <1>5, OneWriter
  <2>2. Marked' = Marked /\ row'.isAgreedByBoth = row.isAgreedByBoth
    BY <2>1 DEF Still, Marked
  <2>3. call[c].at = "correct.write" => \A stage \in call[c].asked : Correctable(stage)'
    BY <1>3, <2>2 DEF Correctable, Frozen
  <2> QED
    BY <1>1, <1>3, <2>2, <2>3
<1> QED
  BY <1>4, <1>5

(* What a handler decides on is so when it decides.                        *)
LEMMA TimelySelf ==
  ASSUME IInv, NEW c \in Calls, Load(c) \/ Settle(c)
  PROVE  TimelyOf(c)'
<1> USE DEF IInv
<1>1. ASSUME Load(c) PROVE TimelyOf(c)'
  <2>1. row' = row
    BY <1>1 DEF Load, CorrectLoad, FlagLoad, ResolveLoad, ReplaceLoad, CancelLoad, MarkLoad
  <2>2. ASSUME NEW role \in Role, ReplaceLoad(c, role) \/ CancelLoad(c, role)
        PROVE  ~row.isAgreedByBoth
    BY <2>2 DEF ReplaceLoad, Replaceable, CancelLoad, Withdrawable
  <2>3. call'[c].at # "correct.write"
    BY <1>1, LoadAt DEF Load
  <2>4. call'[c].at \in {"replace.write", "cancel.write"} =>
          \E role \in Role : ReplaceLoad(c, role) \/ CancelLoad(c, role)
    BY <1>1, LoadAt DEF Load
  <2> QED
    BY <2>1, <2>2, <2>3, <2>4 DEF TimelyOf
<1>2. ASSUME End(c) PROVE TimelyOf(c)'
  <2>1. call'[c].at = "idle"
    BY <1>2, AtRest
  <2> QED
    BY <2>1 DEF TimelyOf
<1>3. ASSUME MarkCheck(c) PROVE TimelyOf(c)'
  <2>1. call'[c].at = "mark.write"
    BY <1>3, CheckAt
  <2> QED
    BY <2>1 DEF TimelyOf
<1>4. ASSUME CorrectCheck(c) PROVE TimelyOf(c)'
  <2>1. PICK fixed \in CARRIES_AMOUNT, amount \in Figures :
          /\ Correctable(fixed)
          /\ call' = [call EXCEPT ![c].at = "correct.write", ![c].asked = {fixed},
                                  ![c].amount = amount]
    BY <1>4 DEF CorrectCheck
  <2>2. call'[c].asked = {fixed} /\ call'[c].at = "correct.write"
    BY <2>1 DEF TypeOK, CallRecord
  <2>3. Marked' = Marked
    BY <1>4 DEF CorrectCheck, Marked
  <2>4. Correctable(fixed)'
    BY <2>1, <2>3 DEF Correctable, Frozen
  <2> QED
    BY <2>2, <2>4 DEF TimelyOf
<1> QED
  BY <1>1, <1>2, <1>3, <1>4 DEF Settle, ReplaceWrite, CancelWrite, MarkWrite, CorrectWrite,
     FlagWrite, ResolveWrite, Abandon

(* However the handlers overlap, one that has decided and is not late is   *)
(* right about the deal.                                                   *)
LEMMA TimelyStep ==
  ASSUME IInv, Timely, [Next]_vars
  PROVE  Timely'
<1> USE DEF IInv
<1> SUFFICES ASSUME NEW c \in Calls PROVE TimelyOf(c)'
  BY DEF Timely
<1>1. TimelyOf(c)
  BY DEF Timely
<1>2. CASE UNCHANGED vars
  BY <1>1, <1>2 DEF vars, TimelyOf, Correctable, Frozen, Marked
<1>3. ASSUME NEW role \in Role, Propose(role) PROVE TimelyOf(c)'
  <2>1. call'[c].at = "idle"
    BY <1>3 DEF Propose, Unborn, Idle
  <2> QED
    BY <2>1 DEF TimelyOf
<1>4. ASSUME NEW d \in Calls, Load(d) \/ Settle(d) PROVE TimelyOf(c)'
  BY <1>1, <1>4, TimelyOther, TimelySelf
<1> QED
  BY <1>2, <1>3, <1>4 DEF Next

-----------------------------------------------------------------------------
(* The order of the spine.                                                 *)

(* A step that leaves the record and the terms alone leaves the deal in    *)
(* order, and what the other handlers know of it.                          *)
LEMMA TermsKept ==
  ASSUME Still, track' = track, row'.terms = row.terms,
         row'.proposedByRole = row.proposedByRole
  PROVE  /\ Ordered => Ordered'
         /\ \A c \in Calls : call'[c] = call[c] /\ TermsHeld(c) => TermsHeld(c)'
<1>1. Marked' = Marked /\ step'["AGREED"].by = step["AGREED"].by
  BY DEF Still, Marked, Stage, EitherStages
<1>2. Ordered => Ordered'
  BY <1>1 DEF Ordered
<1>3. ASSUME NEW c \in Calls, call'[c] = call[c], TermsHeld(c) PROVE TermsHeld(c)'
  BY <1>1, <1>3 DEF TermsHeld, BackedBy, Acceptable
<1> QED
  BY <1>2, <1>3

(* What a handler that begins or checks knows of the terms.                *)
LEMMA TermsRead ==
  ASSUME IInv, NEW c \in Calls, TermsHeld(c), Load(c) \/ MarkCheck(c) \/ CorrectCheck(c)
  PROVE  TermsHeld(c)'
<1> USE DEF IInv
<1>1. track' = track /\ row' = row /\ Marked' = Marked
  BY DEF Load, CorrectLoad, FlagLoad, ResolveLoad, ReplaceLoad, CancelLoad, MarkLoad,
     MarkCheck, CorrectCheck, Marked
<1>2. ASSUME NEW role \in Role, MarkLoad(c, role) PROVE TermsHeld(c)'
  <2>1. call'[c] = [Idle EXCEPT !.at = "mark.check", !.role = role, !.saw = SeenIn(row)]
    BY <1>2 DEF MarkLoad, Begin, TypeOK
  <2>2. call'[c].at = "mark.check" /\ call'[c].saw = SeenIn(row)
    BY <2>1 DEF Idle
  <2> QED
    BY <1>1, <2>2 DEF TermsHeld, SeenIn
<1>3. ASSUME MarkCheck(c) PROVE TermsHeld(c)'
  <2>1. PICK asked \in SUBSET Askable(call[c].saw, call[c].role) :
          /\ Markable(call[c].saw, call[c].role, asked)
          /\ \E amount \in IF asked \cap CARRIES_AMOUNT = {} THEN {0}
                                                 ELSE FiguresFor(call[c].saw, asked) :
               call' = [call EXCEPT ![c].at = "mark.write", ![c].asked = asked,
                                    ![c].amount = amount, ![c].saw = Idle.saw]
    BY <1>3 DEF MarkCheck
  <2>2. /\ call'[c].at = "mark.write" /\ call'[c].asked = asked
        /\ call'[c].role = call[c].role
    BY <2>1 DEF TypeOK, CallRecord
  <2>3. /\ call[c].saw.terms = row.terms
        /\ call[c].saw.proposedByRole = row.proposedByRole
    BY <1>3 DEF MarkCheck, TermsHeld
  <2>4. "AGREED" \in asked => Acceptable(row, call[c].role)
    BY <2>1, <2>3 DEF Markable, Acceptable
  <2>5. \A stage \in asked : BackedBy(row.terms, stage, Marked \cup asked)
    BY <2>1, <2>3 DEF Markable, Askable, BackedBy
  <2> QED
    BY <1>1, <2>2, <2>4, <2>5 DEF TermsHeld, BackedBy, Acceptable
<1>4. ASSUME Load(c) \/ CorrectCheck(c), \A role \in Role : ~MarkLoad(c, role)
      PROVE  TermsHeld(c)'
  <2>1. call'[c].at \notin {"mark.check", "mark.write"}
    <3>1. CASE CorrectCheck(c)
      BY <3>1, CheckAt
    <3>2. CASE Load(c)
      BY <1>4, <3>2, LoadAt DEF Load
    <3> QED
      BY <1>4, <3>1, <3>2
  <2> QED
    BY <2>1 DEF TermsHeld
<1> QED
  BY <1>2, <1>3, <1>4 DEF Load

(* A replacement nobody marks across leaves a deal without marks.          *)
LEMMA TermsReplaced ==
  ASSUME IInv, Timely, NEW c \in Calls, ReplaceWrite(c), ~crossed'
  PROVE  (Ordered /\ \A d \in Calls : TermsHeld(d))'
<1> USE DEF IInv
<1>1. c \notin late /\ \A d \in Calls : ~Marking(d)
  BY DEF ReplaceWrite
<1>2. ~row.isAgreedByBoth
  BY <1>1 DEF Timely, TimelyOf, ReplaceWrite
<1>3. Marked' = {}
  BY <1>2, NothingMarked DEF ReplaceWrite, Marked
<1>4. \A d \in Calls : call'[d].at \notin {"mark.check", "mark.write"}
  <2> TAKE d \in Calls
  <2>1. CASE d = c
    BY <2>1, AtRest DEF ReplaceWrite
  <2>2. CASE d # c
    BY <1>1, <2>2, OthersStay DEF Settle, Marking
  <2> QED
    BY <2>1, <2>2
<1> QED
  BY <1>3, <1>4 DEF Ordered, TermsHeld

(* Marking under the terms in force keeps the deal in order.               *)
LEMMA TermsMarked ==
  ASSUME IInv, Ordered, \A d \in Calls : TermsHeld(d), NEW c \in Calls, MarkWrite(c)
  PROVE  (Ordered /\ \A d \in Calls : TermsHeld(d))'
<1> USE DEF IInv
<1>1. /\ call[c].at = "mark.write" /\ End(c) /\ track' = track
      /\ row'.terms = row.terms /\ row'.proposedByRole = row.proposedByRole
  BY DEF MarkWrite, TypeOK, Row
<1>2. /\ Marked' = Marked \cup call[c].asked
      /\ Marked \cap call[c].asked = {}
      /\ \A stage \in call[c].asked : step'[stage].by = call[c].role
      /\ \A stage \in Stage \ call[c].asked : step'[stage].by = step[stage].by
  BY MarkWriteTicks
<1>3. /\ \A stage \in call[c].asked : BackedBy(row.terms, stage, Marked \cup call[c].asked)
      /\ "AGREED" \in call[c].asked => Acceptable(row, call[c].role)
  BY <1>1 DEF TermsHeld
<1>4. ASSUME NEW stage \in Marked'
      PROVE  /\ stage \in InSpine(track, row.terms)
             /\ Earlier(track, row.terms, stage) \subseteq Marked'
  <2>1. CASE stage \in Marked
    BY <1>2, <2>1 DEF Ordered
  <2>2. CASE stage \in call[c].asked /\ stage # "AGREED"
    BY <1>2, <1>3, <2>2 DEF BackedBy
  <2>3. CASE stage = "AGREED"
    BY <2>3, AgreedFirst
  <2> QED
    BY <1>2, <1>4, <2>1, <2>2, <2>3
<1>5. "AGREED" \in Marked' => step'["AGREED"].by # row.proposedByRole
  <2>1. CASE "AGREED" \in call[c].asked
    BY <1>2, <1>3, <2>1 DEF Acceptable
  <2>2. CASE "AGREED" \notin call[c].asked
    <3>1. step'["AGREED"].by = step["AGREED"].by
      BY <1>2, <2>2 DEF Stage, EitherStages
    <3> QED
      BY <1>2, <2>2, <3>1 DEF Ordered
  <2> QED
    BY <2>1, <2>2
<1>6. ASSUME NEW d \in Calls PROVE TermsHeld(d)'
  <2>1. CASE d = c
    <3>1. call'[d].at = "idle"
      BY <1>1, <2>1, AtRest
    <3> QED
      BY <3>1 DEF TermsHeld
  <2>2. CASE d # c
    <3>1. call'[d] = call[d]
      BY <2>2, OthersStay DEF Settle
    <3>2. Marked \subseteq Marked' /\ TermsHeld(d)
      BY <1>2
    <3> QED
      BY <1>1, <3>1, <3>2 DEF TermsHeld, BackedBy, Acceptable
  <2> QED
    BY <2>1, <2>2
<1> QED
  BY <1>1, <1>4, <1>5, <1>6 DEF Ordered

(* A deal stays in order in every step, until a replacement of its terms   *)
(* and a marking overlap.                                                  *)
LEMMA TermsStep ==
  ASSUME IInv, Timely, TermsInv, [Next]_vars
  PROVE  TermsInv'
<1> USE DEF IInv
<1> SUFFICES ASSUME ~crossed' PROVE (Ordered /\ \A c \in Calls : TermsHeld(c))'
  BY DEF TermsInv
<1>1. Ordered /\ \A c \in Calls : TermsHeld(c)
  BY CrossedStays DEF TermsInv
<1>2. CASE UNCHANGED vars
  BY <1>1, <1>2, TermsKept DEF vars, Still
<1>3. ASSUME NEW role \in Role, Propose(role)
      PROVE  (Ordered /\ \A c \in Calls : TermsHeld(c))'
  <2>1. row = NoDeal /\ \A c \in Calls : call[c] = Idle
    BY <1>3 DEF Propose, Unborn
  <2>2. Marked' = {}
    BY <1>3, <2>1, NothingMarked DEF Propose, NoDeal, Marked
  <2>3. \A c \in Calls : call'[c].at = "idle"
    BY <1>3, <2>1 DEF Propose, Idle
  <2> QED
    BY <2>2, <2>3 DEF Ordered, TermsHeld
<1>4. ASSUME NEW c \in Calls, Load(c) \/ Settle(c), ~MarkWrite(c), ~ReplaceWrite(c)
      PROVE  (Ordered /\ \A d \in Calls : TermsHeld(d))'
  <2>1. Still
    BY <1>4, OneWriter
  <2>2. track' = track /\ row'.terms = row.terms /\ row'.proposedByRole = row.proposedByRole
    BY <1>4 DEF Load, CorrectLoad, FlagLoad, ResolveLoad, ReplaceLoad, CancelLoad, MarkLoad,
       Settle, CancelWrite, MarkCheck, CorrectCheck, CorrectWrite, FlagWrite, Reopened,
       ResolveWrite, Abandon, TypeOK, Row
  <2>3. \A d \in Calls : d # c => call'[d] = call[d]
    BY <1>4, OthersStay
  <2>4. TermsHeld(c)'
    <3>1. CASE End(c)
      <4>1. call'[c].at = "idle"
        BY <3>1, AtRest
      <4> QED
        BY <4>1 DEF TermsHeld
    <3>2. CASE Load(c) \/ MarkCheck(c) \/ CorrectCheck(c)
      BY <1>1, <3>2, TermsRead
    <3> QED
      BY <1>4, <3>1, <3>2 DEF Settle, CancelWrite, CorrectWrite, FlagWrite, ResolveWrite,
         Abandon
  <2> QED
    BY <1>1, <2>1, <2>2, <2>3, <2>4, TermsKept
<1> QED
  BY <1>1, <1>2, <1>3, <1>4, TermsReplaced, TermsMarked DEF Next

(* Nothing is decided or marked at first.                                  *)
LEMMA RowInit == Init => Timely /\ TermsInv
<1> SUFFICES ASSUME Init PROVE Timely /\ TermsInv
  OBVIOUS
<1>1. Marked = {}
  BY DEF Init, Marked, Unmarked
<1>2. \A c \in Calls : call[c].at = "idle"
  BY DEF Init, Idle
<1> QED
  BY <1>1, <1>2 DEF Timely, TimelyOf, TermsInv, Ordered, TermsHeld

(* Both hold in every reachable state.                                     *)
THEOREM RowInvariance == Spec => [](Timely /\ TermsInv)
<1>1. IInv /\ Timely /\ TermsInv /\ [Next]_vars => (Timely /\ TermsInv)'
  BY TimelyStep, TermsStep
<1> QED
  BY <1>1, RowInit, Invariance, PTL DEF Spec

(* For any number of overlapping handlers, the marked stages are a         *)
(* beginning of the spine of the deal's own terms, and who agreed is not   *)
(* who proposed, unless a replacement of the terms overlapped a marking    *)
(* (markSteps, replaceTerms).                                              *)
THEOREM AlwaysInSpineOrder == Spec => []InSpineOrder
<1>1. TermsInv => InSpineOrder
  BY DEF TermsInv, InSpineOrder, Ordered
<1> QED
  BY <1>1, RowInvariance, PTL

-----------------------------------------------------------------------------
(* What was agreed.                                                        *)

(* What both sides agreed is changed by a step of a late handler only.     *)
LEMMA RowStep ==
  ASSUME IInv, Timely, [Next]_vars, row.isAgreedByBoth,
         [row' EXCEPT !.problem = row.problem] # row
  PROVE  \E c \in late : ReplaceWrite(c) \/ CancelWrite(c)
<1> USE DEF IInv
<1>1. row \in Row
  BY DEF TypeOK
<1>2. row' # row
  BY <1>1 DEF Row
<1>3. ASSUME NEW role \in Role, Propose(role) PROVE FALSE
  BY <1>3 DEF Propose, Unborn, NoDeal
<1>4. ASSUME NEW c \in Calls, Load(c) PROVE FALSE
  BY <1>2, <1>4 DEF Load, CorrectLoad, FlagLoad, ResolveLoad, ReplaceLoad, CancelLoad, MarkLoad
<1>5. ASSUME NEW c \in Calls, MarkWrite(c) PROVE FALSE
  BY <1>1, <1>2, <1>5 DEF MarkWrite, Row
<1>6. ASSUME NEW c \in Calls, FlagWrite(c) \/ ResolveWrite(c) PROVE FALSE
  BY <1>1, <1>6 DEF FlagWrite, Reopened, ResolveWrite, Row
<1>7. ASSUME NEW c \in Calls, ReplaceWrite(c) \/ CancelWrite(c) PROVE c \in late
  BY <1>7 DEF ReplaceWrite, CancelWrite, Timely, TimelyOf
<1>8. ASSUME NEW c \in Calls, MarkCheck(c) \/ CorrectCheck(c) \/ CorrectWrite(c) \/ Abandon(c)
      PROVE  FALSE
  BY <1>2, <1>8 DEF MarkCheck, CorrectCheck, CorrectWrite, Abandon
<1> QED
  BY <1>2, <1>3, <1>4, <1>5, <1>6, <1>7, <1>8 DEF Next, Settle, vars

(* A confirmed figure is changed by a late correction only.                *)
LEMMA FigureStep ==
  ASSUME IInv, Timely, [Next]_vars,
         NEW stage \in CARRIES_AMOUNT, Frozen(stage), step'[stage] # step[stage]
  PROVE  \E c \in late : CorrectWrite(c)
<1> USE DEF IInv
<1>1. stage \in Stage /\ stage \in Marked
  BY FrozenIsMarked DEF CARRIES_AMOUNT, Stage, PayerStages
<1>2. ASSUME NEW role \in Role, Propose(role) PROVE FALSE
  BY <1>2 DEF Propose
<1>3. ASSUME NEW c \in Calls, Load(c) PROVE FALSE
  BY <1>3 DEF Load, CorrectLoad, FlagLoad, ResolveLoad, ReplaceLoad, CancelLoad, MarkLoad
<1>4. ASSUME NEW c \in Calls, MarkWrite(c) PROVE FALSE
  BY <1>1, <1>4 DEF MarkWrite, AllNew
<1>5. ASSUME NEW c \in Calls, CorrectWrite(c) PROVE c \in late
  <2>1. PICK fixed \in call[c].asked : step' = [step EXCEPT ![fixed].amount = call[c].amount]
    BY <1>5 DEF CorrectWrite
  <2>2. fixed = stage
    BY <1>1, <2>1 DEF TypeOK
  <2>3. call[c].at = "correct.write" /\ ~Correctable(fixed)
    BY <1>5, <2>2 DEF CorrectWrite, Correctable
  <2> QED
    BY <2>3 DEF Timely, TimelyOf
<1>6. ASSUME NEW c \in Calls, Settle(c), ~MarkWrite(c), ~CorrectWrite(c) PROVE FALSE
  BY <1>6 DEF Settle, ReplaceWrite, CancelWrite, MarkCheck, CorrectCheck, FlagWrite,
     ResolveWrite, Abandon
<1> QED
  BY <1>2, <1>3, <1>4, <1>5, <1>6 DEF Next, vars

(* What both sides agreed, and a confirmed figure, stand against any       *)
(* number of overlapping handlers: only one that had decided before the    *)
(* very mark that forbids its write was made can still change them         *)
(* (markSteps, replaceTerms, cancel, correctAmount).                       *)
THEOREM AgreementAlwaysStands == Spec => AgreementStands
<1>1. IInv /\ Timely /\ [Next]_vars =>
        [/\ row.isAgreedByBoth /\ [row' EXCEPT !.problem = row.problem] # row =>
               \E c \in late : ReplaceWrite(c) \/ CancelWrite(c)
         /\ \A stage \in CARRIES_AMOUNT : Frozen(stage) /\ step'[stage] # step[stage] =>
               \E c \in late : CorrectWrite(c)]_vars
  BY RowStep, FigureStep
<1> QED
  BY <1>1, Invariance, RowInvariance, PTL DEF Spec, AgreementStands
=============================================================================
